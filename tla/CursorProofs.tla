----------------------------- MODULE CursorProofs -----------------------------
(***************************************************************************)
(* What the cursors of a moonshine and of a parakeet stream keep, for      *)
(* every geometry: per family an inductive invariant, that every step      *)
(* keeps it, and what follows from it about the windows and the backlog.   *)
(* StreamChunkProofs puts the families together.                           *)
(***************************************************************************)
EXTENDS StreamChunks, TLAPS

-----------------------------------------------------------------------------
(* Arithmetic *)

\* The larger one of two numbers.
LEMMA MaxOfTwo ==
  ASSUME NEW a \in Int, NEW b \in Int
  PROVE  Max({a, b}) = IF a >= b THEN a ELSE b
<1> DEFINE most(x) == x \in {a, b} /\ \A y \in {a, b} : x >= y
<1>1. \E x : most(x)
  <2>1. CASE a <= b
    <3>1. most(b)  BY <2>1
    <3> QED  BY <3>1
  <2>2. CASE b <= a
    <3>1. most(a)  BY <2>2
    <3> QED  BY <3>1
  <2> QED  BY <2>1, <2>2
<1>2. most(CHOOSE x : most(x))
  BY <1>1, Zenon
<1>3. Max({a, b}) = CHOOSE x : most(x)
  BY Zenon DEF Max
<1> QED  BY <1>2, <1>3

\* The smaller one of two numbers.
LEMMA MinOfTwo ==
  ASSUME NEW a \in Int, NEW b \in Int
  PROVE  Min({a, b}) = IF a <= b THEN a ELSE b
<1> DEFINE least(x) == x \in {a, b} /\ \A y \in {a, b} : x <= y
<1>1. \E x : least(x)
  <2>1. CASE a <= b
    <3>1. least(a)  BY <2>1
    <3> QED  BY <3>1
  <2>2. CASE b <= a
    <3>1. least(b)  BY <2>2
    <3> QED  BY <3>1
  <2> QED  BY <2>1, <2>2
<1>2. least(CHOOSE x : least(x))
  BY <1>1, Zenon
<1>3. Min({a, b}) = CHOOSE x : least(x)
  BY Zenon DEF Min
<1> QED  BY <1>2, <1>3

\* What NonNeg returns.
LEMMA NonNegIs ==
  ASSUME NEW a \in Int
  PROVE  NonNeg(a) = IF a >= 0 THEN a ELSE 0
BY MaxOfTwo DEF NonNeg

\* The families share these operators.
LEMMA SharedOperators ==
  /\ \A n : Moonshine!NonNeg(n) = NonNeg(n) /\ Voxtral!NonNeg(n) = NonNeg(n)
  /\ \A S : /\ Parakeet!Max(S) = Max(S) /\ Voxtral!Max(S) = Max(S)
            /\ Parakeet!Min(S) = Min(S) /\ Voxtral!Min(S) = Min(S)
            /\ Moonshine!Min(S) = Min(S)
  /\ \A a, b : Moonshine!CeilDiv(a, b) = CeilDiv(a, b) /\ Voxtral!CeilDiv(a, b) = CeilDiv(a, b)
BY Zenon DEF NonNeg, CeilDiv, Max, Min, Moonshine!NonNeg, Moonshine!Min, Moonshine!Max,
   Voxtral!NonNeg, Voxtral!Max, Voxtral!Min, Parakeet!Max, Parakeet!Min, Moonshine!CeilDiv, Voxtral!CeilDiv

\* A quotient, and what is left of its multiple.
LEMMA Quotient ==
  ASSUME NEW a \in Int, NEW b \in Nat \ {0}
  PROVE  /\ a \div b \in Int
         /\ (a \div b) * b <= a
         /\ a < (a \div b + 1) * b
BY Z3

\* A larger number of the same size is no less.
LEMMA Scaled ==
  ASSUME NEW a \in Int, NEW c \in Int, NEW b \in Nat, a <= c
  PROVE  a * b <= c * b
<1>1. 0 <= (c - a) * b
  BY Z3
<1>2. (c - a) * b = c * b - a * b
  BY Z3
<1>3. a * b \in Int /\ c * b \in Int
  OBVIOUS
<1> QED BY <1>1, <1>2, <1>3

\* What is less as a multiple is less.
LEMMA Unscaled ==
  ASSUME NEW a \in Int, NEW c \in Int, NEW b \in Nat, a * b < c * b
  PROVE  a < c
BY Scaled

\* What fits is at most the quotient.
LEMMA FitsQuotient ==
  ASSUME NEW a \in Int, NEW b \in Nat \ {0}, NEW k \in Int, k * b <= a
  PROVE  k <= a \div b
<1>1. k * b < (a \div b + 1) * b
  BY Quotient
<1>2. k < a \div b + 1
  BY <1>1, Quotient, Unscaled
<1> QED  BY <1>2, Quotient

\* A quotient is determined by what it fits between.
LEMMA QuotientIs ==
  ASSUME NEW a \in Int, NEW b \in Nat \ {0}, NEW k \in Int,
         k * b <= a, a < (k + 1) * b
  PROVE  a \div b = k
<1>1. (a \div b) * b < (k + 1) * b
  <2>1. (a \div b) * b \in Int /\ (k + 1) * b \in Int
    BY Quotient
  <2> QED  BY <2>1, Quotient
<1>2. a \div b < k + 1
  BY <1>1, Quotient, Unscaled
<1> QED  BY <1>2, FitsQuotient, Quotient

-----------------------------------------------------------------------------
(* A moonshine stream *)

\* The cursors are counts, and the hook is where the call is.
MoonshineCounts ==
  /\ {fed, input, committed, pcm, pcmStart, emitted, lastDecode, interval} \subseteq Nat
  /\ stream = "ACTIVE" \/ call = "none"
  /\ \/ call = "none" /\ step = "idle"
     \/ call \in {"feed", "finalize"} /\ step \in {"arrived", "flushed"}

\* Finalize has padded the buffer, and encoded what it holds.
Padding == call = "finalize" /\ step = "flushed"

\* Until then the buffer ends where the stream ends, and begins where the next
\* window does.
MoonshineBuffer ==
  stream = "ACTIVE" =>
    /\ input = fed
    /\ interval > 0
    /\ lastDecode <= emitted
    /\ ~Padding =>
         /\ pcmStart + pcm = fed
         /\ committed = emitted * Moonshine!Spf
         /\ emitted * Moonshine!Spf <= fed
         /\ pcmStart = NonNeg(emitted - (LeftContext + FrontPad)) * Moonshine!Spf
    /\ Padding =>
         emitted = (CeilDiv(fed, FrameLen) * FrameLen) \div Moonshine!Spf
    /\ call = "none" \/ (call = "feed" /\ step = "flushed") =>
         fed < (emitted + RightContext + 1) * Moonshine!Spf
    /\ step # "flushed" => emitted - lastDecode < interval

\* What a moonshine stream keeps.
MoonshineKept ==
  path = "moonshine" => MoonshineCounts /\ MoonshineBuffer /\ Moonshine!TailDecoded

\* The constants of moonshine.
LEMMA MoonshineGeometry ==
  /\ FrontPad \in Nat /\ LeftContext \in Nat /\ RightContext \in Nat
  /\ FrontPad >= 3
  /\ FrameLen \in Nat \ {0}
  /\ Moonshine!Spf \in Nat \ {0}
  /\ Moonshine!Spf = 4 * FrameLen
<1>1. FrameLen \in Nat \ {0} /\ {FrontPad, LeftContext, RightContext} \subseteq Nat
      /\ 4 * FrontPad >= 12
  BY MoonshineAssumption
<1> QED  BY <1>1 DEF Moonshine!Spf

\* Where the next window begins.
LEMMA WindowBegins ==
  ASSUME emitted \in Nat
  PROVE  /\ Moonshine!WinStart = NonNeg(emitted - LeftContext)
         /\ Moonshine!SliceStart = NonNeg(emitted - (LeftContext + FrontPad))
         /\ Moonshine!WinStart \in Nat /\ Moonshine!SliceStart \in Nat
         /\ Moonshine!SliceStart = 0
              \/ Moonshine!WinStart - Moonshine!SliceStart = FrontPad
<1>1. LeftContext \in Nat /\ FrontPad \in Nat
  BY MoonshineGeometry
<1>2. Moonshine!WinStart = NonNeg(emitted - LeftContext)
  BY SharedOperators DEF Moonshine!WinStart
<1>3. NonNeg(emitted - LeftContext)
        = IF emitted - LeftContext >= 0 THEN emitted - LeftContext ELSE 0
  BY <1>1, NonNegIs
<1>4. NonNeg(emitted - (LeftContext + FrontPad))
        = IF emitted - (LeftContext + FrontPad) >= 0
            THEN emitted - (LeftContext + FrontPad) ELSE 0
  BY <1>1, NonNegIs
<1>5. Moonshine!WinStart \in Nat
  BY <1>1, <1>2, <1>3
<1>6. Min({FrontPad, Moonshine!WinStart})
        = IF FrontPad <= Moonshine!WinStart THEN FrontPad ELSE Moonshine!WinStart
  BY <1>1, <1>5, MinOfTwo
<1>7. Moonshine!SliceStart
        = Moonshine!WinStart - Min({FrontPad, Moonshine!WinStart})
  BY SharedOperators DEF Moonshine!SliceStart
<1> QED  BY <1>1, <1>2, <1>3, <1>4, <1>5, <1>6, <1>7

\* The trim drops all that no later window reads, and never the whole buffer.
LEMMA TrimmedTo ==
  ASSUME NEW frames \in Nat, {emitted, pcm, pcmStart} \subseteq Nat,
         pcmStart = NonNeg(emitted - (LeftContext + FrontPad)) * Moonshine!Spf,
         emitted <= frames, frames * Moonshine!Spf <= pcmStart + pcm
  PROVE  /\ Moonshine!Trimmed(frames) \in Nat
         /\ Moonshine!Trimmed(frames) <= pcm
         /\ pcmStart + Moonshine!Trimmed(frames)
              = NonNeg(frames - (LeftContext + FrontPad)) * Moonshine!Spf
<1> DEFINE back == LeftContext + FrontPad
           S == Moonshine!Spf
           from == NonNeg(emitted - back)
           upto == NonNeg(frames - back)
<1>1. back \in Nat /\ back >= 3 /\ S \in Nat \ {0}
  BY MoonshineGeometry
<1>2. from \in Nat /\ from = IF emitted - back >= 0 THEN emitted - back ELSE 0
  <2> HIDE DEF back
  <2> QED  BY <1>1, NonNegIs
<1>3. upto \in Nat /\ upto = IF frames - back >= 0 THEN frames - back ELSE 0
  <2> HIDE DEF back
  <2> QED  BY <1>1, NonNegIs
<1>4. Moonshine!Trimmed(frames)
        = IF 0 < upto * S - pcmStart /\ upto * S - pcmStart < pcm
            THEN upto * S - pcmStart ELSE 0
  <2>1. frames - back = frames - LeftContext - FrontPad
    BY MoonshineGeometry
  <2>2. upto = Moonshine!NonNeg(frames - LeftContext - FrontPad)
    BY <2>1, SharedOperators
  <2> HIDE DEF upto, S
  <2> QED  BY <2>2 DEF Moonshine!Trimmed, S
<1>5. pcmStart = from * S
  OBVIOUS
<1>6. frames * S <= pcmStart + pcm
  OBVIOUS
<1>10. frames * S \in Nat /\ upto * S \in Nat /\ from * S \in Nat
  <2> HIDE DEF S, upto, from
  <2> QED  BY <1>1, <1>2, <1>3
<1> HIDE DEF back, S, from, upto
<1>7. from * S <= upto * S
  <2>1. from <= upto
    BY <1>1, <1>2, <1>3
  <2> QED  BY <1>1, <1>2, <1>3, <2>1, Scaled
<1>8. upto = 0 \/ upto * S < frames * S
  <2>1. CASE upto # 0
    <3>1. upto + 1 <= frames
      BY <1>1, <1>3, <2>1
    <3>2. (upto + 1) * S <= frames * S
      BY <1>1, <1>3, <3>1, Scaled
    <3>3. (upto + 1) * S = upto * S + S
      BY <1>1, <1>3
    <3> QED  BY <1>1, <1>10, <3>2, <3>3
  <2> QED  BY <2>1
<1>9. CASE upto = 0
  <2>1. from = 0
    BY <1>1, <1>2, <1>3, <1>9
  <2>2. upto * S = 0 /\ pcmStart = 0
    BY <1>1, <1>5, <1>9, <2>1
  <2> QED  BY <1>4, <1>9, <2>2 DEF upto, S, back
<1>11. CASE upto * S < frames * S
  <2>1. upto * S - pcmStart < pcm /\ upto * S - pcmStart >= 0
    BY <1>5, <1>6, <1>7, <1>10, <1>11
  <2>2. Moonshine!Trimmed(frames) = upto * S - pcmStart
    BY <1>4, <1>10, <2>1
  <2> QED  BY <1>10, <2>1, <2>2 DEF upto, S, back
<1> QED  BY <1>8, <1>9, <1>11

\* A number, rounded up to a multiple.
LEMMA RoundedUp ==
  ASSUME NEW a \in Nat, NEW b \in Nat \ {0}
  PROVE  /\ CeilDiv(a, b) \in Nat
         /\ a <= CeilDiv(a, b) * b
         /\ CeilDiv(a, b) * b < a + b
<1> DEFINE q == (a + b - 1) \div b
<1>1. a + b - 1 \in Nat
  OBVIOUS
<1>2. q \in Int /\ q * b <= a + b - 1 /\ a + b - 1 < (q + 1) * b
  BY <1>1, Quotient
<1>3. CeilDiv(a, b) = q
  BY DEF CeilDiv
<1> HIDE DEF q
<1>4. (q + 1) * b = q * b + b /\ q * b \in Int
  BY <1>2
<1>5. a <= q * b /\ q * b < a + b
  BY <1>2, <1>4
<1>6. q \in Nat
  <2>1. (-1) * b < q * b
    <3>1. (-1) * b = 0 - b
      BY Z3
    <3> QED  BY <1>4, <1>5, <3>1
  <2>2. -1 < q
    BY <1>2, <2>1, Unscaled
  <2> QED  BY <1>2, <2>2
<1> QED  BY <1>3, <1>5, <1>6

\* Rounding up moves with a multiple.
LEMMA RoundedBehind ==
  ASSUME NEW a \in Nat, NEW b \in Nat \ {0}, NEW k \in Nat
  PROVE  CeilDiv(k * b + a, b) * b = k * b + CeilDiv(a, b) * b
<1> DEFINE q == CeilDiv(a, b)
           n == k * b + a + b - 1
<1>1. q \in Nat /\ a <= q * b /\ q * b < a + b
  BY RoundedUp
<1>2. n \in Nat /\ CeilDiv(k * b + a, b) = n \div b
  <2>1. k * b \in Nat
    OBVIOUS
  <2> QED  BY <2>1 DEF CeilDiv
<1> HIDE DEF q
<1>3. (k + q) * b = k * b + q * b /\ (k + q + 1) * b = k * b + q * b + b
  BY <1>1
<1>4. k * b \in Nat /\ q * b \in Nat /\ k + q \in Int
  BY <1>1
<1>5. (k + q) * b <= n /\ n < (k + q + 1) * b
  BY <1>1, <1>3, <1>4
<1> HIDE DEF n
<1>6. n \div b = k + q
  BY <1>2, <1>4, <1>5, QuotientIs
<1> QED  BY <1>2, <1>3, <1>6 DEF q

\* What finalize pads and encodes ends where the rounded stream ends.
LEMMA TotalIsAll ==
  ASSUME MoonshineCounts, MoonshineBuffer, stream = "ACTIVE", ~Padding
  PROVE  /\ Moonshine!Padded \in Nat
         /\ Moonshine!Total = (CeilDiv(fed, FrameLen) * FrameLen) \div Moonshine!Spf
         /\ emitted <= Moonshine!Total
         /\ Moonshine!Total \in Nat
<1> DEFINE S == Moonshine!Spf
           from == NonNeg(emitted - (LeftContext + FrontPad))
           all == CeilDiv(fed, FrameLen) * FrameLen
<1>1. FrameLen \in Nat \ {0} /\ S \in Nat \ {0} /\ S = 4 * FrameLen
  BY MoonshineGeometry
<1>2. fed \in Nat /\ pcm \in Nat /\ emitted \in Nat
  BY DEF MoonshineCounts
<1>3. pcmStart + pcm = fed /\ pcmStart = from * S /\ emitted * S <= fed
  BY DEF MoonshineBuffer
<1>4. from \in Nat
  <2>1. emitted - (LeftContext + FrontPad) \in Int
    BY <1>2, MoonshineGeometry
  <2> QED  BY <2>1, NonNegIs
<1>5. Moonshine!Padded = CeilDiv(pcm, FrameLen) * FrameLen
  BY SharedOperators DEF Moonshine!Padded
<1>6. CeilDiv(pcm, FrameLen) \in Nat
  BY <1>1, <1>2, RoundedUp
<1> HIDE DEF from
<1>7. pcmStart = (4 * from) * FrameLen
  <2> HIDE DEF S
  <2> QED  BY <1>1, <1>3, <1>4
<1>8. all = pcmStart + Moonshine!Padded
  <2>1. 4 * from \in Nat /\ fed = (4 * from) * FrameLen + pcm
    BY <1>3, <1>4, <1>7
  <2> QED  BY <1>1, <1>2, <1>5, <1>7, <2>1, RoundedBehind
<1>9. fed <= all /\ all \in Nat
  <2>1. CeilDiv(fed, FrameLen) \in Nat /\ fed <= all
    BY <1>1, <1>2, RoundedUp
  <2> QED  BY <1>1, <2>1
<1>10. Moonshine!Total = all \div S
  BY <1>8 DEF Moonshine!Total
<1> HIDE DEF S, all
<1>11. emitted <= all \div S
  <2>1. emitted * S <= all
    BY <1>1, <1>2, <1>3, <1>9
  <2> QED  BY <1>1, <1>2, <1>9, <2>1, FitsQuotient
<1>12. all \div S \in Int
  BY <1>1, <1>9, Quotient
<1> QED  BY <1>1, <1>2, <1>5, <1>6, <1>10, <1>11, <1>12 DEF S, all

\* Where the stable frames end.
LEMMA StableIs ==
  ASSUME MoonshineCounts, MoonshineBuffer, stream = "ACTIVE", ~Padding
  PROVE  /\ Moonshine!Stable \in Int
         /\ (Moonshine!Stable + RightContext) * Moonshine!Spf <= fed
         /\ fed < (Moonshine!Stable + RightContext + 1) * Moonshine!Spf
<1>1. /\ Moonshine!Spf \in Nat \ {0} /\ RightContext \in Nat
      /\ fed \in Nat /\ pcmStart + pcm = fed
  BY MoonshineGeometry DEF MoonshineCounts, MoonshineBuffer
<1>2. Moonshine!Available = fed \div Moonshine!Spf
  BY <1>1 DEF Moonshine!Available
<1>3. /\ Moonshine!Available \in Int
      /\ Moonshine!Available * Moonshine!Spf <= fed
      /\ fed < (Moonshine!Available + 1) * Moonshine!Spf
  BY <1>1, <1>2, Quotient
<1>4. /\ Moonshine!Stable \in Int
      /\ Moonshine!Stable + RightContext = Moonshine!Available
  BY <1>1, <1>3 DEF Moonshine!Stable
<1> QED  BY <1>3, <1>4

-----------------------------------------------------------------------------
(* The steps of moonshine *)

\* A stream that does not run shows nothing of the buffer.
LEMMA MoonshineStops ==
  ASSUME stream' # "ACTIVE", stream' # "FINISHED", MoonshineCounts'
  PROVE  MoonshineKept'
BY DEF MoonshineKept, MoonshineBuffer, Moonshine!TailDecoded

\* A feed appends.
LEMMA MoonshineFeeds ==
  ASSUME MoonshineCounts, MoonshineBuffer, path \in Paths,
         NEW n \in Feeds[path], Moonshine!Feed(n)
  PROVE  MoonshineKept'
<1>1. n \in Nat
  BY GeometryAssumption
<1>2. /\ stream = "ACTIVE" /\ call = "none" /\ step # "flushed"
      /\ stream' = "ACTIVE" /\ call' = "feed" /\ step' = "arrived"
      /\ fed' = fed + n /\ input' = input + n /\ pcm' = pcm + n
      /\ UNCHANGED <<committed, pcmStart, interval, lastDecode, emitted>>
  BY DEF Moonshine!Feed, Moonshine!Appends, MoonshineCounts
<1>3. MoonshineCounts'
  BY <1>1, <1>2 DEF MoonshineCounts
<1>4. MoonshineBuffer'
  <2> DEFINE S == Moonshine!Spf
  <2>1. /\ input = fed /\ interval > 0 /\ lastDecode <= emitted
        /\ pcmStart + pcm = fed /\ committed = emitted * S /\ emitted * S <= fed
        /\ pcmStart = NonNeg(emitted - (LeftContext + FrontPad)) * S
        /\ emitted - lastDecode < interval
    BY <1>2 DEF MoonshineBuffer, Padding
  <2>2. fed \in Nat /\ pcm \in Nat /\ pcmStart \in Nat /\ emitted * S \in Int
    BY <2>1, MoonshineGeometry DEF MoonshineCounts
  <2> HIDE DEF S
  <2>3. input' = fed' /\ pcmStart' + pcm' = fed' /\ emitted * S <= fed'
    BY <1>1, <1>2, <2>1, <2>2
  <2> QED  BY <1>2, <2>1, <2>3 DEF MoonshineBuffer, Padding, S
<1> QED  BY <1>2, <1>3, <1>4 DEF MoonshineKept, Moonshine!TailDecoded

\* Frames whose right context is there are encoded, and the buffer is trimmed.
LEMMA MoonshineFlushes ==
  ASSUME MoonshineCounts, MoonshineBuffer, Moonshine!FeedFlushes
  PROVE  MoonshineKept'
<1> DEFINE S == Moonshine!Spf
           T == Moonshine!Stable
           drop == Moonshine!Trimmed(T)
<1>1. /\ stream = "ACTIVE" /\ call = "feed" /\ step = "arrived" /\ T > emitted
      /\ stream' = "ACTIVE" /\ call' = "feed" /\ step' = "flushed"
      /\ emitted' = T /\ committed' = T * S
      /\ pcm' = pcm - drop /\ pcmStart' = pcmStart + drop
      /\ UNCHANGED <<fed, input, interval, lastDecode>>
  BY DEF Moonshine!FeedFlushes, Moonshine!FlushDue, MoonshineCounts
<1>2. {fed, input, pcm, pcmStart, emitted, lastDecode, interval} \subseteq Nat
  BY DEF MoonshineCounts
<1>3. /\ input = fed /\ interval > 0 /\ lastDecode <= emitted
      /\ pcmStart + pcm = fed
      /\ pcmStart = NonNeg(emitted - (LeftContext + FrontPad)) * S
  BY <1>1 DEF MoonshineBuffer, Padding
<1>4. /\ T \in Int /\ (T + RightContext) * S <= fed
      /\ fed < (T + RightContext + 1) * S
  BY <1>1, StableIs DEF Padding
<1>5. S \in Nat \ {0} /\ RightContext \in Nat
  BY MoonshineGeometry
<1>6. T \in Nat /\ T * S <= fed /\ T * S \in Nat
  <2> HIDE DEF T, S
  <2>1. T \in Nat
    BY <1>1, <1>2, <1>4
  <2>2. T * S <= (T + RightContext) * S
    BY <1>5, <2>1, Scaled
  <2>3. T * S \in Nat /\ (T + RightContext) * S \in Nat
    BY <1>5, <2>1
  <2> QED  BY <1>2, <1>4, <2>1, <2>2, <2>3
<1>7. /\ drop \in Nat /\ drop <= pcm
      /\ pcmStart + drop = NonNeg(T - (LeftContext + FrontPad)) * S
  <2>1. emitted <= T /\ T * S <= pcmStart + pcm
    BY <1>1, <1>2, <1>3, <1>6
  <2> HIDE DEF T
  <2> QED  BY <1>2, <1>3, <1>6, <2>1, TrimmedTo
<1> HIDE DEF T, S, drop
<1>8. pcm' \in Nat /\ pcmStart' \in Nat /\ pcmStart' + pcm' = fed
  BY <1>1, <1>2, <1>3, <1>7
<1>9. MoonshineCounts'
  BY <1>1, <1>2, <1>6, <1>8 DEF MoonshineCounts
<1>10. lastDecode' <= emitted'
  BY <1>1, <1>2, <1>3, <1>4
<1>11. MoonshineBuffer'
  BY <1>1, <1>3, <1>4, <1>6, <1>7, <1>8, <1>10 DEF MoonshineBuffer, Padding, S
<1> QED  BY <1>1, <1>9, <1>11 DEF MoonshineKept, Moonshine!TailDecoded

\* A feed ends with no more than the right context and a frame waiting.
LEMMA MoonshineFeedEnds ==
  ASSUME MoonshineCounts, MoonshineBuffer, Moonshine!FeedEnds
  PROVE  MoonshineKept'
<1>1. /\ stream = "ACTIVE" /\ call = "feed" /\ ~Padding
      /\ stream' = "ACTIVE" /\ call' = "none" /\ step' = "idle"
      /\ UNCHANGED <<fed, input, committed, pcm, pcmStart, interval, emitted>>
  BY DEF Moonshine!FeedEnds, MoonshineCounts, Padding
<1>2. {fed, input, emitted, lastDecode, interval} \subseteq Nat
  BY DEF MoonshineCounts
<1>3. interval > 0 /\ lastDecode <= emitted
  BY <1>1 DEF MoonshineBuffer
<1>4. /\ fed < (emitted + RightContext + 1) * Moonshine!Spf
      /\ lastDecode' \in Nat /\ lastDecode' <= emitted
      /\ emitted - lastDecode' < interval
  <2>1. CASE step = "arrived" /\ ~Moonshine!FlushDue /\ UNCHANGED lastDecode
    <3>1. emitted - lastDecode < interval
      BY <1>1, <2>1 DEF MoonshineBuffer
    <3> DEFINE S == Moonshine!Spf
               T == Moonshine!Stable
    <3>2. T \in Int /\ fed < (T + RightContext + 1) * S
      BY <1>1, StableIs
    <3>3. T <= emitted
      BY <1>2, <2>1, <3>2 DEF Moonshine!FlushDue
    <3>4. S \in Nat \ {0} /\ RightContext \in Nat
      BY MoonshineGeometry
    <3> HIDE DEF S, T
    <3>5. (T + RightContext + 1) * S <= (emitted + RightContext + 1) * S
      BY <1>2, <3>2, <3>3, <3>4, Scaled
    <3>6. (T + RightContext + 1) * S \in Int /\ (emitted + RightContext + 1) * S \in Int
      BY <1>2, <3>2, <3>4
    <3>7. fed < (emitted + RightContext + 1) * S
      BY <1>2, <3>2, <3>5, <3>6
    <3> QED  BY <1>2, <1>3, <2>1, <3>1, <3>7 DEF S
  <2>2. CASE step = "flushed" /\ lastDecode' = IF Moonshine!DecodeDue THEN emitted
                                               ELSE lastDecode
    <3>1. fed < (emitted + RightContext + 1) * Moonshine!Spf
      BY <1>1, <2>2 DEF MoonshineBuffer
    <3>2. CASE Moonshine!DecodeDue
      BY <1>2, <1>3, <2>2, <3>1, <3>2
    <3>3. CASE ~Moonshine!DecodeDue
      <4>1. emitted - lastDecode < interval
        BY <1>2, <1>3, <3>3 DEF Moonshine!DecodeDue
      <4> QED  BY <1>2, <1>3, <2>2, <3>1, <3>3, <4>1
    <3> QED  BY <3>2, <3>3
  <2> QED  BY <2>1, <2>2 DEF Moonshine!FeedEnds
<1>5. MoonshineCounts'
  BY <1>1, <1>4 DEF MoonshineCounts
<1>6. MoonshineBuffer'
  BY <1>1, <1>4 DEF MoonshineBuffer, Padding
<1> QED  BY <1>1, <1>5, <1>6 DEF MoonshineKept, Moonshine!TailDecoded

\* Finalize pads the buffer and encodes all of it.
LEMMA MoonshineFinalFlush ==
  ASSUME MoonshineCounts, MoonshineBuffer, Moonshine!FinalizeFlushes
  PROVE  MoonshineKept'
<1> DEFINE all == (CeilDiv(fed, FrameLen) * FrameLen) \div Moonshine!Spf
<1>1. /\ stream = "ACTIVE" /\ call = "finalize" /\ step = "arrived"
      /\ stream' = "ACTIVE" /\ call' = "finalize" /\ step' = "flushed"
      /\ pcm' = Moonshine!Padded
      /\ emitted' = IF Moonshine!Total > emitted THEN Moonshine!Total ELSE emitted
      /\ UNCHANGED <<fed, input, committed, pcmStart, interval, lastDecode>>
  BY DEF Moonshine!FinalizeFlushes, MoonshineCounts
<1>2. {fed, input, committed, pcmStart, emitted, lastDecode, interval} \subseteq Nat
  BY DEF MoonshineCounts
<1>3. /\ Moonshine!Padded \in Nat
      /\ Moonshine!Total = all /\ emitted <= all /\ all \in Nat
  BY <1>1, TotalIsAll DEF Padding
<1>4. input = fed /\ interval > 0 /\ lastDecode <= emitted
  BY <1>1 DEF MoonshineBuffer
<1> HIDE DEF all
<1>5. emitted' = all
  BY <1>1, <1>2, <1>3
<1>6. MoonshineCounts'
  BY <1>1, <1>2, <1>3, <1>5 DEF MoonshineCounts
<1>7. lastDecode' <= emitted'
  BY <1>1, <1>2, <1>3, <1>4, <1>5
<1>8. MoonshineBuffer'
  BY <1>1, <1>4, <1>5, <1>7 DEF MoonshineBuffer, Padding, all
<1> QED  BY <1>1, <1>6, <1>8 DEF MoonshineKept, Moonshine!TailDecoded

\* A stream finishes with its audio encoded and decoded.
LEMMA MoonshineFinishes ==
  ASSUME MoonshineCounts, MoonshineBuffer,
         Moonshine!FinalizeEmpty \/ Moonshine!FinalizeEnds
  PROVE  MoonshineKept'
<1>1. /\ stream = "ACTIVE" /\ call = "finalize"
      /\ stream' = "FINISHED" /\ call' = "none" /\ step' = "idle"
      /\ committed' = input
      /\ UNCHANGED <<path, fed, input, pcm, pcmStart, interval, emitted>>
  BY DEF Moonshine!FinalizeEmpty, Moonshine!FinalizeEnds, Moonshine!Finishes,
         MoonshineCounts
<1>2. {fed, input, pcm, pcmStart, emitted, lastDecode, interval} \subseteq Nat
  BY DEF MoonshineCounts
<1>3. lastDecode' = emitted /\ emitted = (CeilDiv(input, FrameLen) * FrameLen) \div Moonshine!Spf
  <2>1. CASE Moonshine!FinalizeEnds
    BY <1>1, <2>1 DEF Moonshine!FinalizeEnds, MoonshineBuffer, Padding
  <2>2. CASE Moonshine!FinalizeEmpty
    <3> DEFINE S == Moonshine!Spf
    <3>1. /\ pcm = 0 /\ pcmStart = 0 /\ step = "arrived" /\ lastDecode' = lastDecode
      BY <2>2 DEF Moonshine!FinalizeEmpty
    <3>2. /\ input = fed /\ pcmStart + pcm = fed /\ emitted * S <= fed
          /\ lastDecode <= emitted
      BY <1>1, <3>1 DEF MoonshineBuffer, Padding
    <3>3. S \in Nat \ {0} /\ FrameLen \in Nat \ {0}
      BY MoonshineGeometry
    <3> HIDE DEF S
    <3>4. input = 0 /\ emitted * S <= 0
      BY <1>2, <3>1, <3>2
    <3>5. emitted <= 0 \div S /\ 0 \div S = 0
      BY <1>2, <3>3, <3>4, FitsQuotient
    <3>6. emitted = 0 /\ lastDecode = 0
      BY <1>2, <3>2, <3>5
    <3>7. CeilDiv(0, FrameLen) = 0
      <4>1. 0 + FrameLen - 1 \in Int /\ 0 * FrameLen <= 0 + FrameLen - 1
            /\ 0 + FrameLen - 1 < (0 + 1) * FrameLen
        BY <3>3
      <4>2. (0 + FrameLen - 1) \div FrameLen = 0
        BY <3>3, <4>1, QuotientIs
      <4> QED  BY <4>2 DEF CeilDiv
    <3>8. CeilDiv(input, FrameLen) * FrameLen = 0
      BY <3>3, <3>4, <3>7
    <3> QED  BY <3>1, <3>5, <3>6, <3>8 DEF S
  <2> QED  BY <2>1, <2>2
<1>4. MoonshineCounts'
  BY <1>1, <1>2, <1>3 DEF MoonshineCounts
<1>5. Moonshine!TailDecoded'
  BY <1>1, <1>3, SharedOperators DEF Moonshine!TailDecoded
<1> QED  BY <1>1, <1>4, <1>5 DEF MoonshineKept, MoonshineBuffer

\* The steps that begin, end or interrupt a stream.
LEMMA MoonshineTurns ==
  ASSUME MoonshineKept, path = "moonshine", path' = path,
         \/ Moonshine!Begin \/ Moonshine!Finalize \/ Moonshine!Fails
         \/ Moonshine!FeedAborts \/ Moonshine!Reset
  PROVE  MoonshineKept'
<1>1. MoonshineCounts /\ MoonshineBuffer
  BY DEF MoonshineKept
<1>2. {fed, input, committed, pcm, pcmStart, emitted, lastDecode, interval} \subseteq Nat
  BY <1>1 DEF MoonshineCounts
<1>3. CASE Moonshine!Begin
  <2>1. /\ call = "none" /\ step = "idle"
    BY <1>1, <1>3 DEF Moonshine!Begin, Moonshine!Begins, MoonshineCounts
  <2>2. /\ stream' = "ACTIVE" /\ call' = "none" /\ step' = "idle"
        /\ fed' = 0 /\ input' = 0 /\ committed' = 0 /\ pcm' = 0 /\ pcmStart' = 0
        /\ interval' \in Throttles /\ lastDecode' = 0 /\ emitted' = 0
    BY <1>3, <2>1 DEF Moonshine!Begin, Moonshine!Begins
  <2>3. interval' \in Nat \ {0}
    BY <2>2, MoonshineAssumption
  <2>4. MoonshineCounts'
    BY <2>2, <2>3 DEF MoonshineCounts
  <2> DEFINE S == Moonshine!Spf
  <2>5. S \in Nat \ {0} /\ RightContext \in Nat
        /\ LeftContext \in Nat /\ FrontPad \in Nat
    BY MoonshineGeometry
  <2> HIDE DEF S
  <2>6. NonNeg(0 - (LeftContext + FrontPad)) = 0
    <3>1. 0 - (LeftContext + FrontPad) \in Int
      BY <2>5
    <3> QED  BY <2>5, <3>1, NonNegIs
  <2>7. 0 * S = 0 /\ (0 + RightContext + 1) * S \in Nat /\ 0 < (0 + RightContext + 1) * S
    <3>1. 0 + RightContext + 1 \in Nat \ {0}
      BY <2>5
    <3>2. (0 + RightContext + 1) * S = RightContext * S + S
      BY <2>5
    <3>3. RightContext * S \in Nat
      BY <2>5
    <3> QED  BY <2>5, <3>2, <3>3
  <2>8. NonNeg(emitted' - (LeftContext + FrontPad)) * S = 0
    BY <2>2, <2>6, <2>7
  <2>9. MoonshineBuffer'
    BY <2>2, <2>3, <2>7, <2>8 DEF MoonshineBuffer, Padding, S
  <2> QED  BY <2>2, <2>4, <2>9 DEF MoonshineKept, Moonshine!TailDecoded
<1>4. CASE Moonshine!Finalize
  <2>1. /\ stream = "ACTIVE" /\ call = "none" /\ step = "idle"
        /\ stream' = "ACTIVE" /\ call' = "finalize" /\ step' = "arrived"
        /\ UNCHANGED <<fed, input, committed, pcm, pcmStart, interval, lastDecode,
                      emitted>>
    BY <1>1, <1>4 DEF Moonshine!Finalize, Moonshine!FinalizeStarts, MoonshineCounts
  <2>2. MoonshineCounts'
    BY <1>2, <2>1 DEF MoonshineCounts
  <2>3. MoonshineBuffer'
    BY <1>1, <2>1 DEF MoonshineBuffer, Padding
  <2> QED  BY <2>1, <2>2, <2>3 DEF MoonshineKept, Moonshine!TailDecoded
<1>5. CASE Moonshine!Fails
  <2>1. /\ stream = "ACTIVE"
        /\ stream' = "FAILED" /\ call' = "none" /\ step' = "idle"
        /\ UNCHANGED <<fed, input, committed, pcmStart, interval, lastDecode, emitted>>
    BY <1>1, <1>5 DEF Moonshine!Fails, Moonshine!HookFails, MoonshineCounts
  <2>2. pcm' \in Nat
    <3>1. FrameLen \in Nat \ {0} /\ pcm \in Nat
      BY <1>2, MoonshineGeometry
    <3>2. CeilDiv(pcm, FrameLen) \in Nat
      BY <3>1, RoundedUp
    <3>3. Moonshine!Padded \in Nat
      BY <3>1, <3>2, SharedOperators DEF Moonshine!Padded
    <3> QED  BY <1>5, <3>1, <3>3 DEF Moonshine!Fails
  <2>3. MoonshineCounts'
    BY <1>2, <2>1, <2>2 DEF MoonshineCounts
  <2> QED  BY <2>1, <2>3, MoonshineStops
<1>6. CASE Moonshine!FeedAborts
  <2>1. /\ stream' = "FAILED" /\ call = "none" /\ call' = "none"
        /\ UNCHANGED <<fed, input, committed, pcm, pcmStart>>
        /\ UNCHANGED <<step, interval, lastDecode, emitted>>
    BY <1>6 DEF Moonshine!FeedAborts, Moonshine!AbortsAtOnce, Moonshine!moonshineVars
  <2>2. MoonshineCounts'
    BY <1>1, <2>1 DEF MoonshineCounts
  <2> QED  BY <2>1, <2>2, MoonshineStops
<1>7. CASE Moonshine!Reset
  <2>1. /\ stream' = "IDLE" /\ call = "none" /\ call' = "none"
        /\ fed' = 0 /\ input' = 0 /\ committed' = 0 /\ pcm' = 0 /\ pcmStart' = 0
        /\ lastDecode' = 0 /\ emitted' = 0 /\ UNCHANGED <<step, interval>>
    BY <1>7 DEF Moonshine!Reset, Moonshine!Resets
  <2>2. MoonshineCounts'
    BY <1>1, <2>1 DEF MoonshineCounts
  <2> QED  BY <2>1, <2>2, MoonshineStops
<1> QED  BY <1>3, <1>4, <1>5, <1>6, <1>7

\* What the hooks of moonshine do.
LEMMA MoonshineSteps ==
  ASSUME MoonshineKept, path = "moonshine", path' = path, path \in Paths,
         Moonshine!MoonshineNext
  PROVE  MoonshineKept'
<1>1. MoonshineCounts /\ MoonshineBuffer
  BY DEF MoonshineKept
<1>2. CASE \E n \in Feeds[path] : Moonshine!Feed(n)
  BY <1>1, <1>2, MoonshineFeeds
<1>3. CASE Moonshine!FeedFlushes
  BY <1>1, <1>3, MoonshineFlushes
<1>4. CASE Moonshine!FeedEnds
  BY <1>1, <1>4, MoonshineFeedEnds
<1>5. CASE Moonshine!FinalizeFlushes
  BY <1>1, <1>5, MoonshineFinalFlush
<1>6. CASE Moonshine!FinalizeEmpty \/ Moonshine!FinalizeEnds
  BY <1>1, <1>6, MoonshineFinishes
<1>7. CASE \/ Moonshine!Begin \/ Moonshine!Finalize \/ Moonshine!Fails
           \/ Moonshine!FeedAborts \/ Moonshine!Reset
  BY <1>7, MoonshineTurns
<1> QED  BY <1>2, <1>3, <1>4, <1>5, <1>6, <1>7 DEF Moonshine!MoonshineNext

\* What a window that is about to be encoded reads.
LEMMA MoonshineWindowClean ==
  ASSUME MoonshineKept
  PROVE  Moonshine!FramesClean
<1> DEFINE last  == call = "finalize"
           upto  == IF last THEN Moonshine!Total ELSE Moonshine!Stable
           heard == pcmStart + IF last THEN Moonshine!Padded ELSE pcm
           S     == Moonshine!Spf
<1> SUFFICES ASSUME path = "moonshine", call # "none", step = "arrived"
             PROVE  /\ Moonshine!SliceStart * S >= pcmStart
                    /\ \/ Moonshine!SliceStart = 0
                       \/ 4 * (Moonshine!WinStart - Moonshine!SliceStart) >= 12
                    /\ \A f \in emitted .. upto - 1 :
                         /\ Moonshine!WinStart <= NonNeg(f - LeftContext)
                         /\ last \/ (f + RightContext + 1) * S <= heard
  BY SharedOperators DEF Moonshine!FramesClean, Moonshine!ConvReach
<1>1. MoonshineCounts /\ MoonshineBuffer /\ stream = "ACTIVE" /\ ~Padding
  BY DEF MoonshineKept, MoonshineCounts, Padding
<1>2. emitted \in Nat /\ pcmStart \in Nat /\ fed \in Nat
  BY <1>1 DEF MoonshineCounts
<1>3. S \in Nat \ {0} /\ RightContext \in Nat /\ FrontPad \in Nat
      /\ LeftContext \in Nat /\ FrontPad >= 3
  BY MoonshineGeometry
<1>4. Moonshine!SliceStart * S = pcmStart
  BY <1>1, <1>2, WindowBegins DEF MoonshineBuffer
<1>5. \/ Moonshine!SliceStart = 0
      \/ 4 * (Moonshine!WinStart - Moonshine!SliceStart) >= 12
  BY <1>2, <1>3, WindowBegins
<1>6. ASSUME NEW f \in emitted .. upto - 1
      PROVE  /\ Moonshine!WinStart <= NonNeg(f - LeftContext)
             /\ last \/ (f + RightContext + 1) * S <= heard
  <2>1. upto \in Int
    BY <1>1, TotalIsAll, StableIs
  <2> HIDE DEF upto
  <2>2. f \in Nat /\ emitted <= f /\ f + 1 <= upto
    BY <1>2, <2>1
  <2>3. Moonshine!WinStart <= NonNeg(f - LeftContext)
    <3>1. Moonshine!WinStart = NonNeg(emitted - LeftContext)
      BY <1>2, WindowBegins
    <3>2. /\ NonNeg(emitted - LeftContext) =
               IF emitted - LeftContext >= 0 THEN emitted - LeftContext ELSE 0
          /\ NonNeg(f - LeftContext) =
               IF f - LeftContext >= 0 THEN f - LeftContext ELSE 0
      BY <1>2, <1>3, <2>2, NonNegIs
    <3> QED  BY <1>2, <1>3, <2>2, <3>1, <3>2
  <2>4. ASSUME ~last  PROVE (f + RightContext + 1) * S <= heard
    <3>1. heard = fed /\ upto = Moonshine!Stable
      BY <1>1, <2>4 DEF MoonshineBuffer, upto
    <3>2. (upto + RightContext) * S <= fed
      BY <1>1, <3>1, StableIs
    <3> HIDE DEF heard, S
    <3>3. (f + RightContext + 1) * S <= (upto + RightContext) * S
      BY <1>3, <2>1, <2>2, Scaled
    <3>4. (f + RightContext + 1) * S \in Int /\ (upto + RightContext) * S \in Int
      BY <1>3, <2>1, <2>2
    <3> QED  BY <1>2, <3>1, <3>2, <3>3, <3>4
  <2> QED  BY <2>3, <2>4
<1>7. Moonshine!SliceStart * S >= pcmStart
  BY <1>2, <1>4
<1> HIDE DEF last, upto, heard, S
<1> QED  BY <1>5, <1>6, <1>7

\* What waits between two calls.
LEMMA MoonshineBacklog ==
  ASSUME MoonshineKept
  PROVE  Moonshine!BacklogBounded
<1> SUFFICES ASSUME path = "moonshine", stream = "ACTIVE", call = "none"
             PROVE  /\ committed = emitted * Moonshine!Spf
                    /\ input - committed < (RightContext + 1) * Moonshine!Spf
                    /\ pcm < (LeftContext + FrontPad + RightContext + 1) * Moonshine!Spf
                    /\ emitted - lastDecode < interval
  BY DEF Moonshine!BacklogBounded
<1> DEFINE S == Moonshine!Spf
           back == LeftContext + FrontPad
           from == NonNeg(emitted - back)
<1>1. {fed, pcm, emitted} \subseteq Nat /\ step # "flushed"
  BY DEF MoonshineKept, MoonshineCounts
<1>2. /\ input = fed /\ pcmStart + pcm = fed
      /\ committed = emitted * S /\ emitted * S <= fed
      /\ pcmStart = from * S
      /\ fed < (emitted + RightContext + 1) * S
      /\ emitted - lastDecode < interval
  BY <1>1 DEF MoonshineKept, MoonshineBuffer, Padding
<1>3. S \in Nat \ {0} /\ RightContext \in Nat /\ back \in Nat
  BY MoonshineGeometry
<1>6. LeftContext + FrontPad + RightContext + 1 = back + RightContext + 1
  OBVIOUS
<1> HIDE DEF S, back
<1>4. from \in Nat /\ emitted - back <= from
  <2>1. emitted - back \in Int
    BY <1>1, <1>3
  <2> QED  BY <1>1, <1>3, <2>1, NonNegIs
<1> HIDE DEF from
<1>5. (emitted + RightContext + 1) * S = emitted * S + (RightContext + 1) * S
  BY <1>1, <1>3
<1>7. (emitted + RightContext + 1) * S <= (from + back + RightContext + 1) * S
  <2>1. emitted + RightContext + 1 <= from + back + RightContext + 1
    BY <1>1, <1>3, <1>4
  <2> QED  BY <1>1, <1>3, <1>4, <2>1, Scaled
<1>8. (from + back + RightContext + 1) * S = from * S + (back + RightContext + 1) * S
  BY <1>3, <1>4
<1>9. /\ emitted * S \in Int /\ (RightContext + 1) * S \in Int /\ from * S \in Int
      /\ (back + RightContext + 1) * S \in Int
      /\ (emitted + RightContext + 1) * S \in Int
      /\ (from + back + RightContext + 1) * S \in Int
  BY <1>1, <1>3, <1>4
<1>10. input - committed < (RightContext + 1) * S
  BY <1>1, <1>2, <1>5, <1>9
<1>11. pcm < (back + RightContext + 1) * S
  <2>1. fed < from * S + (back + RightContext + 1) * S
    BY <1>1, <1>2, <1>7, <1>8, <1>9
  <2>2. pcm = fed - from * S
    BY <1>1, <1>2, <1>9
  <2> QED  BY <1>1, <1>9, <2>1, <2>2
<1> QED  BY <1>2, <1>6, <1>10, <1>11 DEF S

-----------------------------------------------------------------------------
(* A parakeet stream *)

\* Both ways count all audio that was fed.
ParakeetBuffer ==
  /\ {fed, input, committed, pcm, pcmStart} \subseteq Nat
  /\ geom \in Parakeet!Menu \cup {Parakeet!NoContext}
  /\ call \in {"none", "feed", "finalize"}
  /\ stream = "ACTIVE" \/ call = "none"
  /\ stream = "ACTIVE" =>
       /\ geom \in Parakeet!Menu
       /\ input = fed /\ pcmStart + pcm = fed

\* The audio behind consumed is enough for the chunks taken, what is erased was
\* history of none that is still to come, and the time of the next token is the
\* time of the next mel frame.
CachedCursors ==
  /\ {consumed, frameOffset} \subseteq Nat
  /\ firstChunk \in BOOLEAN
  /\ stream = "ACTIVE" =>
       /\ firstChunk => consumed = 0
       /\ \E k \in Nat : pcmStart = k * Hop
       /\ consumed = 0 \/ (consumed + Parakeet!Margin - 1) * Hop <= fed
       /\ pcmStart = 0 \/ pcmStart <= Parakeet!KeepFrom
       /\ frameOffset = (consumed + Subsampling - 1) \div Subsampling
       /\ call # "feed" =>
            /\ committed = consumed * Hop
            /\ Parakeet!KeepFrom - Hop < pcmStart
            /\ fed < (consumed + Parakeet!Advance + Parakeet!Margin - 1) * Hop

\* What a parakeet stream with caches keeps.
CachedKept ==
  path = "cached" => ParakeetBuffer /\ CachedCursors /\ Parakeet!TailDecoded

\* The window is whole frames of what has been read, and what is decoded ends
\* before its right context.
WindowPlaced ==
  IF initialized
    THEN /\ \E a \in 0 .. geom.left : ctx.left = a * Parakeet!Frame
         /\ ctx.chunk = geom.chunk * Parakeet!Frame
         /\ ctx.right = geom.right * Parakeet!Frame
         /\ ctx.left + ctx.chunk + ctx.right <= nextRead
         /\ decoded + ctx.right = nextRead
    ELSE ctx = Parakeet!NoContext /\ nextRead = 0 /\ decoded = 0

\* Between two calls no step is due, and the frames decoded are whole frames of
\* the audio decoded.
BufferedCursors ==
  /\ {frameOffset, nextRead, decoded, ctx.left, ctx.chunk, ctx.right} \subseteq Nat
  /\ initialized \in BOOLEAN
  /\ stream = "ACTIVE" =>
       /\ pcmStart = 0 /\ nextRead <= pcm /\ committed <= fed
       /\ WindowPlaced
       /\ frameOffset * Parakeet!Frame = decoded
       /\ call # "feed" => ~Parakeet!BufferedDue

\* What a parakeet stream over a sliding window keeps.
BufferedKept ==
  path = "buffered" => ParakeetBuffer /\ BufferedCursors /\ Parakeet!TailDecoded

\* The constants of parakeet.
LEMMA ParakeetGeometry ==
  /\ Hop \in Nat \ {0} /\ Pad \in Nat \ {0} /\ PreEncodeCache \in Nat \ {0}
  /\ Subsampling = 8 /\ SamplingFirst = 1 /\ Drop \in Nat
  /\ Parakeet!Frame = 8 * Hop /\ Parakeet!Frame \in Nat \ {0}
  /\ Parakeet!Margin \in Nat \ {0}
  /\ Pad <= Parakeet!Margin * Hop
<1>1. {Hop, Pad, PreEncodeCache, Drop} \subseteq Nat \ {0} /\ Subsampling = 8
      /\ SamplingFirst = 1
  BY GeometryAssumption, ParakeetAssumption
<1>2. Parakeet!Margin = CeilDiv(Pad, Hop)
  BY DEF Parakeet!Margin, CeilDiv
<1>3. CeilDiv(Pad, Hop) \in Nat /\ Pad <= CeilDiv(Pad, Hop) * Hop
  BY <1>1, RoundedUp
<1>4. CeilDiv(Pad, Hop) # 0
  <2>1. 0 * Hop = 0
    BY <1>1
  <2> QED  BY <1>1, <1>3, <2>1
<1> QED  BY <1>1, <1>2, <1>3, <1>4 DEF Parakeet!Frame

\* What a stream may have chosen.
LEMMA ChosenGeometry ==
  ASSUME geom \in Parakeet!Menu, path \in {"cached", "buffered"}
  PROVE  geom.left \in Nat /\ geom.right \in Nat /\ geom.chunk \in Nat \ {0}
<1>1. geom \in CachedMenu \cup BufferedMenu
  BY DEF Parakeet!Menu
<1>2. {geom.left, geom.right} \subseteq Nat /\ geom.chunk \in Nat \ {0}
  BY <1>1, GeometryAssumption
<1> QED  BY <1>2

-----------------------------------------------------------------------------
(* Frames *)

\* Eight mel frames more make one encoder frame more.
LEMMA EightIsOne ==
  ASSUME NEW t \in Nat, NEW k \in Nat
  PROVE  Parakeet!EncFrames(t + 8 * k, TRUE) = Parakeet!EncFrames(t, TRUE) + k
<1> DEFINE c(n) == Parakeet!ConvOut(n, TRUE)
<1>1. ASSUME NEW n \in Nat, NEW j \in Nat
      PROVE  c(n) \in Nat /\ c(n + 2 * j) = c(n) + j
  BY DEF Parakeet!ConvOut
<1>2. Parakeet!EncFrames(t + 8 * k, TRUE) = c(c(c(t + 8 * k)))
      /\ Parakeet!EncFrames(t, TRUE) = c(c(c(t)))
  BY DEF Parakeet!EncFrames
<1>3. c(t + 8 * k) = c(t) + 4 * k /\ c(t) \in Nat
  <2>1. t + 8 * k = t + 2 * (4 * k) /\ 4 * k \in Nat
    OBVIOUS
  <2> HIDE DEF c
  <2> QED  BY <1>1, <2>1
<1>4. c(c(t) + 4 * k) = c(c(t)) + 2 * k /\ c(c(t)) \in Nat
  <2> HIDE DEF c
  <2>1. c(t) + 4 * k = c(t) + 2 * (2 * k) /\ 2 * k \in Nat
    BY <1>3
  <2> QED  BY <1>1, <1>3, <2>1
<1>5. c(c(c(t)) + 2 * k) = c(c(c(t))) + k
  <2> HIDE DEF c
  <2> QED  BY <1>1, <1>4
<1> HIDE DEF c
<1> QED  BY <1>2, <1>3, <1>4, <1>5

\* More mel frames make no fewer encoder frames.
LEMMA EncodesMore ==
  ASSUME NEW t \in Nat, NEW u \in Nat, t <= u
  PROVE  /\ Parakeet!EncFrames(t, TRUE) \in Nat /\ Parakeet!EncFrames(u, TRUE) \in Nat
         /\ Parakeet!EncFrames(t, TRUE) <= Parakeet!EncFrames(u, TRUE)
<1> DEFINE c(n) == Parakeet!ConvOut(n, TRUE)
<1>1. ASSUME NEW n \in Nat, NEW m \in Nat, n <= m
      PROVE  c(n) \in Nat /\ c(m) \in Nat /\ c(n) <= c(m)
  BY <1>1 DEF Parakeet!ConvOut
<1>2. Parakeet!EncFrames(t, TRUE) = c(c(c(t))) /\ Parakeet!EncFrames(u, TRUE) = c(c(c(u)))
  BY DEF Parakeet!EncFrames
<1> HIDE DEF c
<1>3. c(t) \in Nat /\ c(u) \in Nat /\ c(t) <= c(u)
  BY <1>1
<1>4. c(c(t)) \in Nat /\ c(c(u)) \in Nat /\ c(c(t)) <= c(c(u))
  BY <1>1, <1>3
<1> QED  BY <1>1, <1>2, <1>4

\* The first chunk of a cached stream makes a frame and its right context.
LEMMA FirstFrames ==
  ASSUME NEW r \in Nat
  PROVE  Parakeet!EncFrames(1 + 8 * r, TRUE) = 1 + r
<1>1. Parakeet!EncFrames(1, TRUE) = 1
  BY DEF Parakeet!EncFrames, Parakeet!ConvOut
<1>2. 1 \in Nat
  OBVIOUS
<1>3. Parakeet!EncFrames(1 + 8 * r, TRUE) = Parakeet!EncFrames(1, TRUE) + r
  BY <1>2, EightIsOne, Zenon
<1> QED  BY <1>1, <1>3, Zenon

\* The offline encoder rounds up.
LEMMA OfflineFrames ==
  ASSUME NEW t \in Nat \ {0}
  PROVE  /\ Parakeet!EncFrames(t, FALSE) \in Nat
         /\ t <= 8 * Parakeet!EncFrames(t, FALSE)
         /\ 8 * Parakeet!EncFrames(t, FALSE) < t + 8
<1> DEFINE c(n) == Parakeet!ConvOut(n, FALSE)
<1>1. ASSUME NEW n \in Nat \ {0}
      PROVE  c(n) \in Nat \ {0} /\ n <= 2 * c(n) /\ 2 * c(n) <= n + 1
  BY <1>1 DEF Parakeet!ConvOut
<1> DEFINE x == c(t)
           y == c(x)
           z == c(y)
<1>2. Parakeet!EncFrames(t, FALSE) = z
  BY DEF Parakeet!EncFrames
<1> HIDE DEF c
<1>3. x \in Nat \ {0} /\ t <= 2 * x /\ 2 * x <= t + 1
  BY <1>1
<1> HIDE DEF x
<1>4. y \in Nat \ {0} /\ x <= 2 * y /\ 2 * y <= x + 1
  BY <1>1, <1>3
<1> HIDE DEF y
<1>5. z \in Nat \ {0} /\ y <= 2 * z /\ 2 * z <= y + 1
  BY <1>1, <1>4
<1> HIDE DEF z
<1>6. t <= 8 * z /\ 8 * z < t + 8
  BY <1>3, <1>4, <1>5
<1> QED  BY <1>2, <1>5, <1>6

\* Whole frames and the mel frame at their end are one encoder frame more.
LEMMA WholeFrames ==
  ASSUME NEW m \in Nat
  PROVE  Parakeet!EncFrames(8 * m + 1, FALSE) = m + 1
<1> DEFINE t == 8 * m + 1
           e == Parakeet!EncFrames(t, FALSE)
<1>1. t \in Nat \ {0}
  OBVIOUS
<1> HIDE DEF t
<1>2. e \in Nat /\ t <= 8 * e /\ 8 * e < t + 8
  BY <1>1, OfflineFrames
<1> HIDE DEF e
<1>3. e = m + 1
  BY <1>2 DEF t
<1> QED  BY <1>3 DEF e, t

-----------------------------------------------------------------------------
(* The cached path *)

\* The cursors of a running cached stream, as numbers.
LEMMA CachedNumbers ==
  ASSUME ParakeetBuffer, CachedCursors, path = "cached", stream = "ACTIVE"
  PROVE  /\ fed \in Nat /\ pcm \in Nat /\ pcmStart \in Nat /\ consumed \in Nat
         /\ geom.right \in Nat
         /\ Parakeet!Advance \in Nat \ {0}
         /\ Parakeet!Prepend \in Nat
         /\ Parakeet!KeepFrom = (consumed - PreEncodeCache) * Hop - Pad
         /\ Parakeet!KeepFrom \in Int
<1>1. {fed, pcm, pcmStart, consumed} \subseteq Nat
  BY DEF ParakeetBuffer, CachedCursors
<1>2. geom.right \in Nat
  BY ChosenGeometry DEF ParakeetBuffer
<1>3. Parakeet!Advance \in Nat \ {0} /\ Parakeet!Prepend \in Nat
  BY <1>2, ParakeetGeometry DEF Parakeet!Advance, Parakeet!Prepend
<1>4. Parakeet!KeepFrom = (consumed - PreEncodeCache) * Hop - Pad
  BY DEF Parakeet!KeepFrom
<1>5. (consumed - PreEncodeCache) * Hop - Pad \in Int
  BY <1>1, ParakeetGeometry
<1> QED  BY <1>1, <1>2, <1>3, <1>4, <1>5

\* What has been taken has been heard.
LEMMA TakenIsHeard ==
  ASSUME ParakeetBuffer, CachedCursors, path = "cached", stream = "ACTIVE"
  PROVE  /\ consumed * Hop <= fed
         /\ pcmStart = 0 \/ pcmStart + PreEncodeCache * Hop + Pad <= consumed * Hop
         /\ pcm < Hop => pcmStart = 0 /\ consumed = 0
<1>1. /\ fed \in Nat /\ pcm \in Nat /\ pcmStart \in Nat /\ consumed \in Nat
      /\ Parakeet!KeepFrom = (consumed - PreEncodeCache) * Hop - Pad
  BY CachedNumbers
<1>2. /\ Hop \in Nat \ {0} /\ Pad \in Nat \ {0} /\ PreEncodeCache \in Nat \ {0}
      /\ Parakeet!Margin \in Nat \ {0}
  BY ParakeetGeometry
<1>3. consumed * Hop \in Nat /\ PreEncodeCache * Hop \in Nat
      /\ Hop <= PreEncodeCache * Hop
      /\ (consumed - PreEncodeCache) * Hop = consumed * Hop - PreEncodeCache * Hop
  <2>1. 1 * Hop <= PreEncodeCache * Hop
    BY <1>2, Scaled
  <2>2. 1 * Hop = Hop
    BY <1>2
  <2> QED  BY <1>1, <1>2, <2>1, <2>2
<1>4. consumed * Hop <= fed
  <2>1. CASE consumed = 0
    <3>1. 0 * Hop = 0
      BY <1>2
    <3> QED  BY <1>1, <2>1, <3>1
  <2>2. CASE (consumed + Parakeet!Margin - 1) * Hop <= fed
    <3>1. consumed * Hop <= (consumed + Parakeet!Margin - 1) * Hop
      BY <1>1, <1>2, Scaled
    <3>2. (consumed + Parakeet!Margin - 1) * Hop \in Int
      BY <1>1, <1>2
    <3> QED  BY <1>1, <1>3, <2>2, <3>1, <3>2
  <2> QED  BY <2>1, <2>2 DEF CachedCursors
<1>5. pcmStart = 0 \/ pcmStart + PreEncodeCache * Hop + Pad <= consumed * Hop
  <2>1. pcmStart = 0 \/ pcmStart <= consumed * Hop - PreEncodeCache * Hop - Pad
    BY <1>1, <1>3 DEF CachedCursors
  <2> QED  BY <1>1, <1>2, <1>3, <2>1
<1>6. ASSUME pcm < Hop  PROVE pcmStart = 0 /\ consumed = 0
  <2>1. pcmStart + pcm = fed
    BY DEF ParakeetBuffer
  <2>2. pcmStart = 0
    BY <1>1, <1>2, <1>3, <1>4, <1>5, <1>6, <2>1
  <2>3. consumed * Hop < 1 * Hop
    BY <1>1, <1>2, <1>3, <1>4, <1>6, <2>1, <2>2
  <2>4. consumed < 1
    BY <1>1, <1>2, <2>3, Unscaled
  <2> QED  BY <1>1, <2>2, <2>4
<1> QED  BY <1>4, <1>5, <1>6

\* The mel frames of the stream, when the buffer holds one.
LEMMA HeardIs ==
  ASSUME ParakeetBuffer, CachedCursors, path = "cached", stream = "ACTIVE"
  PROVE  /\ Parakeet!MelFrames(pcm) \in Nat
         /\ Parakeet!MelFrames(pcm) > 0 <=> pcm >= Hop
         /\ pcm >= Hop =>
              /\ Parakeet!Avail \in Nat
              /\ Parakeet!Avail = fed \div Hop + 1
              /\ (Parakeet!Avail - 1) * Hop <= fed
              /\ fed < Parakeet!Avail * Hop
<1>1. /\ fed \in Nat /\ pcm \in Nat /\ pcmStart \in Nat /\ consumed \in Nat /\ Hop \in Nat \ {0}
  BY CachedNumbers, ParakeetGeometry
<1>2. Parakeet!MelFrames(pcm) = IF pcm < Hop THEN 0 ELSE pcm \div Hop + 1
  BY DEF Parakeet!MelFrames
<1>3. pcm \div Hop \in Nat
  <2>1. 0 * Hop <= pcm
    BY <1>1
  <2>2. 0 <= pcm \div Hop /\ pcm \div Hop \in Int
    BY <1>1, <2>1, FitsQuotient, Quotient
  <2> QED  BY <2>2
<1>4. ASSUME pcm >= Hop
      PROVE  /\ Parakeet!Avail \in Nat
             /\ Parakeet!Avail = fed \div Hop + 1
             /\ (Parakeet!Avail - 1) * Hop <= fed
             /\ fed < Parakeet!Avail * Hop
  <2> DEFINE q == pcm \div Hop
  <2>1. PICK k \in Nat : pcmStart = k * Hop
    BY DEF CachedCursors
  <2>2. pcmStart \div Hop = k
    <3>1. k * Hop <= pcmStart /\ pcmStart < (k + 1) * Hop
      BY <1>1, <2>1
    <3> QED  BY <1>1, <3>1, QuotientIs
  <2>3. Parakeet!Avail = k + q + 1
    BY <1>1, <1>2, <1>3, <1>4, <2>2 DEF Parakeet!Avail
  <2>4. q \in Nat /\ q * Hop <= pcm /\ pcm < (q + 1) * Hop
    BY <1>1, <1>3, Quotient
  <2> HIDE DEF q
  <2>5. (k + q) * Hop = k * Hop + q * Hop
        /\ (k + q + 1) * Hop = k * Hop + (q + 1) * Hop
    BY <1>1, <2>4
  <2>6. k * Hop \in Nat /\ q * Hop \in Nat /\ (q + 1) * Hop \in Nat
    BY <1>1, <2>4
  <2>7. pcmStart + pcm = fed
    BY DEF ParakeetBuffer
  <2>8. (k + q) * Hop <= fed /\ fed < (k + q + 1) * Hop
    BY <1>1, <2>1, <2>4, <2>5, <2>6, <2>7
  <2>9. fed \div Hop = k + q
    BY <1>1, <2>4, <2>8, QuotientIs
  <2>10. Parakeet!Avail - 1 = k + q
    BY <2>3, <2>4
  <2> QED  BY <2>3, <2>4, <2>8, <2>9, <2>10
<1>5. /\ Parakeet!MelFrames(pcm) \in Nat
      /\ Parakeet!MelFrames(pcm) > 0 <=> pcm >= Hop
  BY <1>1, <1>2, <1>3
<1> QED  BY <1>4, <1>5

-----------------------------------------------------------------------------
(* The steps of the cached path *)

\* A chunk makes the encoder frames that its mel frames stand for.
LEMMA ChunkKeepsTime ==
  ASSUME ParakeetBuffer, CachedCursors, path = "cached", stream = "ACTIVE",
         Parakeet!EmitCached(Parakeet!Advance)
  PROVE  /\ frameOffset' \in Nat
         /\ frameOffset' = (consumed' + Subsampling - 1) \div Subsampling
<1> DEFINE r == geom.right
           made == Parakeet!EncFrames(Parakeet!Prepend + Parakeet!Advance, TRUE)
<1>1. /\ r \in Nat /\ consumed \in Nat /\ Subsampling = 8 /\ SamplingFirst = 1
      /\ PreEncodeCache \in Nat \ {0} /\ Drop \in Nat
  BY CachedNumbers, ParakeetGeometry
<1>2. /\ frameOffset' = frameOffset + made - (IF firstChunk THEN 0 ELSE Drop)
      /\ consumed' = consumed + Parakeet!Advance
  BY DEF Parakeet!EmitCached
<1>3. frameOffset = (consumed + 7) \div 8
  <2>1. frameOffset = (consumed + Subsampling - 1) \div Subsampling
    BY DEF CachedCursors
  <2> QED  BY <1>1, <2>1
<1>4. CASE firstChunk
  <2>1. consumed = 0
    BY <1>4 DEF CachedCursors
  <2>2. Parakeet!Prepend = 0 /\ Parakeet!Advance = 1 + 8 * r
    BY <1>1, <1>4 DEF Parakeet!Prepend, Parakeet!Advance
  <2> HIDE DEF r
  <2>3. Parakeet!Prepend + Parakeet!Advance = 1 + 8 * r
    BY <1>1, <2>2
  <2>4. made = 1 + r
    BY <1>1, <2>3, FirstFrames, Zenon
  <2> HIDE DEF made
  <2>5. frameOffset' = 1 + r /\ consumed' = 1 + 8 * r
    BY <1>1, <1>2, <1>3, <1>4, <2>1, <2>2, <2>4
  <2> QED  BY <1>1, <2>5
<1>5. CASE ~firstChunk
  <2>1. Parakeet!Prepend = PreEncodeCache /\ Parakeet!Advance = 8 + 8 * r
    BY <1>1, <1>5 DEF Parakeet!Prepend, Parakeet!Advance
  <2> HIDE DEF r
  <2>2. Parakeet!Prepend + Parakeet!Advance = PreEncodeCache + 8 * (r + 1) /\ r + 1 \in Nat
    BY <1>1, <2>1
  <2>3. made = Drop + (r + 1)
    <3>1. made = Parakeet!EncFrames(PreEncodeCache, TRUE) + (r + 1)
      BY <1>1, <2>2, EightIsOne, Zenon
    <3>2. Parakeet!EncFrames(PreEncodeCache, TRUE) = Drop
      BY ParakeetAssumption
    <3> QED  BY <3>1, <3>2, Zenon
  <2> HIDE DEF made
  <2>4. frameOffset' = (consumed + 7) \div 8 + r + 1 /\ consumed' = consumed + 8 + 8 * r
    BY <1>1, <1>2, <1>3, <1>5, <2>1, <2>3
  <2> QED  BY <1>1, <2>4
<1> QED  BY <1>4, <1>5

\* A chunk is taken when it and its margin are there.
LEMMA CachedChunks ==
  ASSUME ParakeetBuffer, CachedCursors, path = "cached", path' = path,
         Parakeet!FeedChunkCached
  PROVE  CachedKept'
<1> DEFINE M == Parakeet!Margin
           A == Parakeet!Advance
<1>1. /\ call = "feed" /\ stream = "ACTIVE" /\ Parakeet!CachedDue
      /\ UNCHANGED <<stream, call, fed, input, committed, pcm, pcmStart, geom>>
      /\ Parakeet!EmitCached(A)
      /\ consumed' = consumed + A /\ firstChunk' = FALSE
  BY DEF Parakeet!FeedChunkCached, Parakeet!cursors, Parakeet!EmitCached, ParakeetBuffer
<1>2. /\ fed \in Nat /\ pcm \in Nat /\ pcmStart \in Nat /\ consumed \in Nat
      /\ A \in Nat \ {0}
      /\ Parakeet!KeepFrom = (consumed - PreEncodeCache) * Hop - Pad
  BY <1>1, CachedNumbers
<1>3. Hop \in Nat \ {0} /\ Pad \in Nat \ {0} /\ PreEncodeCache \in Nat /\ M \in Nat \ {0}
  BY ParakeetGeometry
<1>4. /\ frameOffset' \in Nat
      /\ frameOffset' = (consumed' + Subsampling - 1) \div Subsampling
  BY <1>1, ChunkKeepsTime
<1>5. (consumed' + M - 1) * Hop <= fed
  <2>1. /\ Parakeet!Avail \in Nat /\ (Parakeet!Avail - 1) * Hop <= fed
        /\ Parakeet!Avail - consumed >= A + M
    BY <1>1, HeardIs DEF Parakeet!CachedDue
  <2> HIDE DEF A, M
  <2>2. consumed' + M - 1 <= Parakeet!Avail - 1 /\ consumed' \in Nat
    BY <1>1, <1>2, <1>3, <2>1
  <2>5. consumed' + M - 1 \in Int /\ Parakeet!Avail - 1 \in Int /\ Hop \in Nat
    BY <1>3, <2>1, <2>2
  <2>3. (consumed' + M - 1) * Hop <= (Parakeet!Avail - 1) * Hop
    BY <2>2, <2>5, Scaled
  <2>4. (consumed' + M - 1) * Hop \in Int /\ (Parakeet!Avail - 1) * Hop \in Int
    BY <1>3, <2>1, <2>2
  <2> QED  BY <1>2, <2>1, <2>3, <2>4
<1>6. pcmStart = 0 \/ pcmStart <= Parakeet!KeepFrom'
  <2> HIDE DEF A
  <2>1. (consumed - PreEncodeCache) * Hop <= (consumed' - PreEncodeCache) * Hop
    BY <1>1, <1>2, <1>3, Scaled
  <2>2. (consumed - PreEncodeCache) * Hop \in Int /\ (consumed' - PreEncodeCache) * Hop \in Int
    BY <1>1, <1>2, <1>3
  <2>3. Parakeet!KeepFrom' = (consumed' - PreEncodeCache) * Hop - Pad
    BY DEF Parakeet!KeepFrom
  <2>4. pcmStart = 0 \/ pcmStart <= Parakeet!KeepFrom
    BY <1>1 DEF CachedCursors
  <2> QED  BY <1>2, <1>3, <2>1, <2>2, <2>3, <2>4
<1>7. consumed' \in Nat
  <2> HIDE DEF A
  <2> QED  BY <1>1, <1>2
<1>8. ParakeetBuffer'
  BY <1>1 DEF ParakeetBuffer, Parakeet!Menu
<1>9. \E k \in Nat : pcmStart = k * Hop
  BY <1>1 DEF CachedCursors
<1>10. CachedCursors'
  <2> HIDE DEF A
  <2> QED  BY <1>1, <1>4, <1>5, <1>6, <1>7, <1>9 DEF CachedCursors, Parakeet!Margin, M
<1> QED  BY <1>1, <1>8, <1>10 DEF CachedKept, Parakeet!TailDecoded

\* The trim is whole hops, up to the history of the next chunk.
LEMMA CachedTrim ==
  ASSUME ParakeetBuffer, CachedCursors, path = "cached", stream = "ACTIVE"
  PROVE  /\ Parakeet!Trimmed \in Nat /\ Parakeet!Trimmed <= pcm
         /\ \E k \in Nat : pcmStart + Parakeet!Trimmed = k * Hop
         /\ \/ pcmStart + Parakeet!Trimmed = 0
            \/ pcmStart + Parakeet!Trimmed <= Parakeet!KeepFrom
         /\ Parakeet!KeepFrom - Hop < pcmStart + Parakeet!Trimmed
<1> DEFINE K == Parakeet!KeepFrom
           w == (K - pcmStart) \div Hop
<1>1. /\ fed \in Nat /\ pcm \in Nat /\ pcmStart \in Nat /\ consumed \in Nat /\ K \in Int
      /\ K = (consumed - PreEncodeCache) * Hop - Pad
      /\ pcmStart + pcm = fed
  BY CachedNumbers DEF ParakeetBuffer
<1>2. Hop \in Nat \ {0} /\ Pad \in Nat \ {0} /\ PreEncodeCache \in Nat
  BY ParakeetGeometry
<1>3. PICK k \in Nat : pcmStart = k * Hop
  BY DEF CachedCursors
<1>4. pcmStart = 0 \/ pcmStart <= K
  BY DEF CachedCursors
<1>5. Parakeet!Trimmed = IF K > pcmStart /\ w * Hop <= pcm THEN w * Hop ELSE 0
  BY DEF Parakeet!Trimmed
<1>6. K <= fed
  <2>1. consumed * Hop <= fed
    BY TakenIsHeard
  <2>2. (consumed - PreEncodeCache) * Hop <= consumed * Hop
    BY <1>1, <1>2, Scaled
  <2>3. (consumed - PreEncodeCache) * Hop \in Int /\ consumed * Hop \in Int
    BY <1>1, <1>2
  <2> QED  BY <1>1, <1>2, <2>1, <2>2, <2>3
<1> HIDE DEF K
<1>7. CASE K > pcmStart
  <2>1. K - pcmStart \in Int
    BY <1>1
  <2>2. w \in Int /\ w * Hop <= K - pcmStart /\ K - pcmStart < (w + 1) * Hop
    BY <1>2, <2>1, Quotient
  <2>3. w \in Nat
    <3>1. 0 * Hop <= K - pcmStart
      BY <1>1, <1>2, <1>7
    <3>2. 0 <= w
      BY <1>2, <2>1, <3>1, FitsQuotient
    <3> QED  BY <2>2, <3>2
  <2> HIDE DEF w
  <2>4. w * Hop \in Nat /\ (w + 1) * Hop = w * Hop + Hop /\ (k + w) * Hop = k * Hop + w * Hop
    BY <1>2, <2>3
  <2>5. w * Hop <= pcm
    BY <1>1, <1>6, <2>2, <2>4
  <2>6. Parakeet!Trimmed = w * Hop
    BY <1>5, <1>7, <2>5
  <2>7. pcmStart + Parakeet!Trimmed = (k + w) * Hop /\ k + w \in Nat
    BY <1>3, <2>3, <2>4, <2>6
  <2>8. /\ pcmStart + Parakeet!Trimmed <= K
        /\ K - Hop < pcmStart + Parakeet!Trimmed
    BY <1>1, <1>2, <2>2, <2>4, <2>6
  <2> QED  BY <2>4, <2>5, <2>6, <2>7, <2>8 DEF K
<1>8. CASE ~(K > pcmStart)
  <2>1. Parakeet!Trimmed = 0
    BY <1>5, <1>8
  <2>2. pcmStart + Parakeet!Trimmed = pcmStart
    BY <1>1, <2>1
  <2>3. K - Hop < pcmStart
    BY <1>1, <1>2, <1>8
  <2> QED  BY <1>1, <1>3, <1>4, <2>1, <2>2, <2>3 DEF K
<1> QED  BY <1>7, <1>8

\* When no chunk is due, less than a chunk and its margin waits.
LEMMA NotDueIsShort ==
  ASSUME ParakeetBuffer, CachedCursors, path = "cached", stream = "ACTIVE",
         ~Parakeet!CachedDue
  PROVE  fed < (consumed + Parakeet!Advance + Parakeet!Margin - 1) * Hop
<1> DEFINE M == Parakeet!Margin
           A == Parakeet!Advance
<1>1. /\ fed \in Nat /\ pcm \in Nat /\ consumed \in Nat /\ A \in Nat \ {0}
      /\ pcmStart + pcm = fed
  BY CachedNumbers DEF ParakeetBuffer
<1>2. Hop \in Nat \ {0} /\ M \in Nat \ {0}
  BY ParakeetGeometry
<1>3. CASE pcm < Hop
  <2>1. consumed = 0 /\ pcmStart = 0
    BY <1>3, TakenIsHeard
  <2> HIDE DEF A, M
  <2>2. 1 * Hop <= (consumed + A + M - 1) * Hop
    <3>1. 1 <= consumed + A + M - 1
      BY <1>1, <1>2
    <3> QED  BY <1>1, <1>2, <3>1, Scaled
  <2>3. 1 * Hop = Hop /\ (consumed + A + M - 1) * Hop \in Int
    BY <1>1, <1>2
  <2>4. fed < (consumed + A + M - 1) * Hop
    BY <1>1, <1>2, <1>3, <2>1, <2>2, <2>3
  <2> QED  BY <2>4 DEF A, M
<1>4. CASE pcm >= Hop
  <2>1. /\ Parakeet!Avail \in Nat /\ fed < Parakeet!Avail * Hop
        /\ Parakeet!MelFrames(pcm) > 0
    BY <1>4, HeardIs
  <2>2. ~(Parakeet!Avail - consumed >= A + M)
    BY <2>1 DEF Parakeet!CachedDue
  <2> HIDE DEF A, M
  <2>3. Parakeet!Avail <= consumed + A + M - 1
    BY <1>1, <1>2, <2>1, <2>2
  <2>4. Parakeet!Avail * Hop <= (consumed + A + M - 1) * Hop
    BY <1>1, <1>2, <2>1, <2>3, Scaled
  <2>5. Parakeet!Avail * Hop \in Int /\ (consumed + A + M - 1) * Hop \in Int
    BY <1>1, <1>2, <2>1
  <2>6. fed < (consumed + A + M - 1) * Hop
    BY <1>1, <2>1, <2>4, <2>5
  <2> QED  BY <2>6 DEF A, M
<1> QED  BY <1>1, <1>2, <1>3, <1>4

\* A feed ends with the trim.
LEMMA CachedFeedEnds ==
  ASSUME ParakeetBuffer, CachedCursors, path = "cached", path' = path,
         Parakeet!FeedEndsCached
  PROVE  CachedKept'
<1> DEFINE cut == Parakeet!Trimmed
<1>1. /\ call = "feed" /\ stream = "ACTIVE" /\ ~Parakeet!CachedDue /\ call' = "none"
      /\ pcm' = pcm - cut /\ pcmStart' = pcmStart + cut /\ committed' = consumed * Hop
      /\ UNCHANGED <<stream, fed, input, geom, frameOffset, consumed, firstChunk>>
  BY DEF Parakeet!FeedEndsCached, ParakeetBuffer, Parakeet!parakeetVars, Parakeet!cachedVars
<1>2. /\ fed \in Nat /\ pcm \in Nat /\ pcmStart \in Nat /\ consumed \in Nat
      /\ pcmStart + pcm = fed /\ Hop \in Nat
  BY <1>1, CachedNumbers, ParakeetGeometry DEF ParakeetBuffer
<1>3. /\ cut \in Nat /\ cut <= pcm
      /\ \E k \in Nat : pcmStart + cut = k * Hop
      /\ pcmStart + cut = 0 \/ pcmStart + cut <= Parakeet!KeepFrom
      /\ Parakeet!KeepFrom - Hop < pcmStart + cut
  BY <1>1, CachedTrim
<1>4. fed < (consumed + Parakeet!Advance + Parakeet!Margin - 1) * Hop
  BY <1>1, NotDueIsShort
<1> HIDE DEF cut
<1>5. Parakeet!KeepFrom' = Parakeet!KeepFrom /\ Parakeet!Advance' = Parakeet!Advance
      /\ Parakeet!Margin' = Parakeet!Margin
  BY <1>1 DEF Parakeet!KeepFrom, Parakeet!Advance, Parakeet!Margin
<1>6. /\ pcm' \in Nat /\ pcmStart' \in Nat /\ pcmStart' + pcm' = fed /\ committed' \in Nat
  BY <1>1, <1>2, <1>3
<1>7. ParakeetBuffer'
  BY <1>1, <1>6 DEF ParakeetBuffer, Parakeet!Menu
<1>8. CachedCursors'
  <2>1. /\ pcmStart' = 0 \/ pcmStart' <= Parakeet!KeepFrom'
        /\ Parakeet!KeepFrom' - Hop < pcmStart'
        /\ \E k \in Nat : pcmStart' = k * Hop
        /\ fed' < (consumed' + Parakeet!Advance' + Parakeet!Margin' - 1) * Hop
    BY <1>1, <1>3, <1>4, <1>5
  <2> QED  BY <1>1, <1>5, <2>1 DEF CachedCursors
<1> QED  BY <1>1, <1>7, <1>8 DEF CachedKept, Parakeet!TailDecoded

\* Finalize takes every mel frame that is left.
LEMMA CachedFinalizes ==
  ASSUME ParakeetBuffer, CachedCursors, path = "cached", path' = path,
         Parakeet!FinalizeCached
  PROVE  CachedKept'
<1>1. /\ call = "finalize" /\ stream = "ACTIVE" /\ stream' = "FINISHED" /\ call' = "none"
      /\ committed' = input /\ UNCHANGED <<fed, input, pcm, pcmStart, geom>>
  BY DEF Parakeet!FinalizeCached, Parakeet!Finishes, ParakeetBuffer
<1>2. /\ fed \in Nat /\ pcm \in Nat /\ pcmStart \in Nat /\ consumed \in Nat
      /\ pcmStart + pcm = fed /\ input = fed /\ Hop \in Nat \ {0}
      /\ PreEncodeCache \in Nat /\ Drop \in Nat /\ Parakeet!Margin \in Nat \ {0}
      /\ frameOffset \in Nat /\ firstChunk \in BOOLEAN
  BY <1>1, CachedNumbers, ParakeetGeometry DEF ParakeetBuffer, CachedCursors
<1>3. ParakeetBuffer'
  BY <1>1 DEF ParakeetBuffer, Parakeet!Menu
<1>4. CASE Parakeet!MelFrames(pcm) > 0 /\ Parakeet!Avail > consumed
  <2> DEFINE take == Parakeet!Avail - consumed
             made == Parakeet!EncFrames(Parakeet!Prepend + take, TRUE)
  <2>1. /\ frameOffset' = frameOffset + made - (IF firstChunk THEN 0 ELSE Drop)
        /\ consumed' = consumed + take /\ firstChunk' = FALSE
    BY <1>4 DEF Parakeet!FinalizeCached, Parakeet!EmitCached
  <2>2. /\ pcm >= Hop /\ Parakeet!Avail \in Nat /\ Parakeet!Avail = fed \div Hop + 1
    BY <1>1, <1>4, HeardIs
  <2>3. take \in Nat
    BY <1>2, <1>4, <2>2
  <2> HIDE DEF take
  <2>4. made \in Nat /\ (firstChunk \/ Drop <= made)
    <3>1. CASE firstChunk
      <4>1. Parakeet!Prepend + take \in Nat
        BY <2>3, <3>1 DEF Parakeet!Prepend
      <4>2. Parakeet!Prepend + take <= Parakeet!Prepend + take
        BY <4>1
      <4>3. made \in Nat
        BY <4>1, <4>2, EncodesMore, Zenon
      <4> QED  BY <3>1, <4>3
    <3>2. CASE ~firstChunk
      <4>1. Parakeet!Prepend = PreEncodeCache
        BY <3>2 DEF Parakeet!Prepend
      <4>2. /\ PreEncodeCache + take \in Nat
            /\ PreEncodeCache <= PreEncodeCache + take
        BY <1>2, <2>3
      <4>3. /\ Parakeet!EncFrames(PreEncodeCache + take, TRUE) \in Nat
            /\ Parakeet!EncFrames(PreEncodeCache, TRUE)
                 <= Parakeet!EncFrames(PreEncodeCache + take, TRUE)
        BY <1>2, <4>2, EncodesMore
      <4>4. Drop = Parakeet!EncFrames(PreEncodeCache, TRUE)
        BY ParakeetAssumption
      <4>5. made = Parakeet!EncFrames(PreEncodeCache + take, TRUE)
        BY <4>1
      <4> QED  BY <4>3, <4>4, <4>5
    <3> QED  BY <1>2, <3>1, <3>2
  <2> HIDE DEF made
  <2>5. frameOffset' \in Nat
    BY <1>2, <2>1, <2>4
  <2>6. consumed' = Parakeet!Avail
    BY <1>2, <2>1, <2>2 DEF take
  <2>7. CachedCursors'
    BY <1>1, <2>1, <2>2, <2>5, <2>6 DEF CachedCursors
  <2>8. input' >= Hop => consumed' = Parakeet!MelFrames(input')
    BY <1>1, <1>2, <2>2, <2>6 DEF Parakeet!MelFrames
  <2> QED  BY <1>3, <2>7, <2>8 DEF CachedKept, Parakeet!TailDecoded
<1>5. CASE ~(Parakeet!MelFrames(pcm) > 0 /\ Parakeet!Avail > consumed)
  <2>1. UNCHANGED <<frameOffset, consumed, firstChunk>>
    BY <1>5 DEF Parakeet!FinalizeCached
  <2>2. pcm < Hop
    <3>1. SUFFICES ASSUME pcm >= Hop  PROVE FALSE
      BY <1>2
    <3>2. /\ Parakeet!Avail \in Nat /\ fed < Parakeet!Avail * Hop
          /\ Parakeet!MelFrames(pcm) > 0
      BY <1>1, <3>1, HeardIs
    <3>3. consumed * Hop <= fed
      BY <1>1, TakenIsHeard
    <3>4. consumed * Hop \in Int /\ Parakeet!Avail * Hop \in Int
      BY <1>2, <3>2
    <3>5. consumed * Hop < Parakeet!Avail * Hop
      BY <1>2, <3>2, <3>3, <3>4
    <3>6. consumed < Parakeet!Avail
      BY <1>2, <3>2, <3>5, Unscaled
    <3> QED  BY <1>2, <1>5, <3>2, <3>6
  <2>3. fed < Hop
    <3>1. pcmStart = 0
      BY <1>1, <2>2, TakenIsHeard
    <3> QED  BY <1>2, <2>2, <3>1
  <2>4. CachedCursors'
    BY <1>1, <1>2, <2>1 DEF CachedCursors
  <2>5. ~(input' >= Hop)
    BY <1>1, <1>2, <2>3
  <2> QED  BY <1>3, <2>4, <2>5 DEF CachedKept, Parakeet!TailDecoded
<1> QED  BY <1>4, <1>5

-----------------------------------------------------------------------------
(* The steps that begin, feed, end or interrupt a stream, on either way *)

\* What was fed is a count.
LEMMA FeedsAreCounts ==
  ASSUME path \in Paths, NEW n \in Feeds[path]
  PROVE  n \in Nat \ {0}
BY GeometryAssumption

\* Between the steps of a family nothing of the audio is lost count of.
LEMMA ParakeetTurns ==
  ASSUME ParakeetBuffer, path' = path, path \in Paths,
         \/ \E g \in Parakeet!Menu : Parakeet!Begin(g)
         \/ \E n \in Feeds[path] : Parakeet!Feed(n)
         \/ Parakeet!Finalize \/ Parakeet!Fails \/ Parakeet!Reset
  PROVE  ParakeetBuffer'
<1>1. /\ {fed, input, committed, pcm, pcmStart} \subseteq Nat
      /\ geom \in Parakeet!Menu \cup {Parakeet!NoContext}
  BY DEF ParakeetBuffer
<1>2. Parakeet!Menu' = Parakeet!Menu
  BY DEF Parakeet!Menu
<1>3. CASE \E g \in Parakeet!Menu : Parakeet!Begin(g)
  <2>1. /\ stream' = "ACTIVE" /\ call = "none" /\ call' = "none" /\ geom' \in Parakeet!Menu
        /\ fed' = 0 /\ input' = 0 /\ committed' = 0 /\ pcm' = 0 /\ pcmStart' = 0
    BY <1>3 DEF Parakeet!Begin, Parakeet!Begins, ParakeetBuffer
  <2> QED  BY <1>2, <2>1 DEF ParakeetBuffer, Parakeet!NoContext
<1>4. CASE \E n \in Feeds[path] : Parakeet!Feed(n)
  <2>1. PICK n \in Feeds[path] : Parakeet!Feed(n)
    BY <1>4
  <2>2. n \in Nat
    BY FeedsAreCounts
  <2>3. /\ stream = "ACTIVE" /\ stream' = "ACTIVE" /\ call' = "feed" /\ geom' = geom
        /\ fed' = fed + n /\ input' = input + n /\ pcm' = pcm + n
        /\ UNCHANGED <<committed, pcmStart>>
    BY <2>1 DEF Parakeet!Feed, Parakeet!Appends, Parakeet!parakeetVars
  <2>4. {fed', input', committed', pcm', pcmStart'} \subseteq Nat
    BY <1>1, <2>2, <2>3
  <2>5. geom' \in Parakeet!Menu' /\ input' = fed' /\ pcmStart' + pcm' = fed'
    BY <1>1, <1>2, <2>2, <2>3 DEF ParakeetBuffer
  <2> QED  BY <2>3, <2>4, <2>5 DEF ParakeetBuffer
<1>5. CASE Parakeet!Finalize
  <2>1. /\ stream = "ACTIVE" /\ stream' = "ACTIVE" /\ call' = "finalize" /\ geom' = geom
        /\ UNCHANGED <<fed, input, committed, pcm, pcmStart>>
    BY <1>5 DEF Parakeet!Finalize, Parakeet!FinalizeStarts, Parakeet!parakeetVars
  <2> QED  BY <1>1, <1>2, <2>1 DEF ParakeetBuffer
<1>6. CASE Parakeet!Fails
  <2>1. /\ stream' = "FAILED" /\ call' = "none"
        /\ UNCHANGED <<fed, input, committed, pcm, pcmStart, geom>>
    BY <1>6 DEF Parakeet!Fails, Parakeet!HookFails
  <2> QED  BY <1>1, <1>2, <2>1 DEF ParakeetBuffer
<1>7. CASE Parakeet!Reset
  <2>1. /\ stream' = "IDLE" /\ call' = "none" /\ pcmStart' = pcmStart
        /\ fed' = 0 /\ input' = 0 /\ committed' = 0 /\ pcm' = 0 /\ geom' = geom
    BY <1>7 DEF Parakeet!Reset, Parakeet!Resets, ParakeetBuffer, Parakeet!parakeetVars
  <2> QED  BY <1>1, <1>2, <2>1 DEF ParakeetBuffer
<1> QED  BY <1>3, <1>4, <1>5, <1>6, <1>7

\* The same steps of a cached stream.
LEMMA CachedTurns ==
  ASSUME CachedKept, path = "cached", path' = path, path \in Paths,
         \/ Parakeet!BeginCached \/ \E n \in Feeds[path] : Parakeet!Feed(n)
         \/ Parakeet!Finalize \/ Parakeet!FailsCached \/ Parakeet!Reset
  PROVE  CachedKept'
<1>1. ParakeetBuffer /\ CachedCursors
  BY DEF CachedKept
<1>2. consumed \in Nat /\ frameOffset \in Nat /\ firstChunk \in BOOLEAN
  BY <1>1 DEF CachedCursors
<1>3. /\ Hop \in Nat \ {0} /\ Pad \in Nat \ {0} /\ PreEncodeCache \in Nat \ {0}
      /\ Subsampling = 8 /\ SamplingFirst = 1 /\ Parakeet!Margin \in Nat \ {0}
      /\ Parakeet!Margin' = Parakeet!Margin
  BY ParakeetGeometry DEF Parakeet!Margin
<1>4. CASE Parakeet!BeginCached
  <2>1. \E g \in Parakeet!Menu : Parakeet!Begin(g)
    BY <1>4 DEF Parakeet!BeginCached, Parakeet!Menu
  <2>2. ParakeetBuffer'
    BY <1>1, <2>1, ParakeetTurns
  <2>3. /\ stream' = "ACTIVE" /\ call' = "none" /\ consumed' = 0 /\ firstChunk' = TRUE
        /\ fed' = 0 /\ committed' = 0 /\ pcmStart' = 0 /\ frameOffset' = 0
        /\ geom' \in CachedMenu
    BY <1>1, <1>4 DEF Parakeet!BeginCached, Parakeet!Begin, Parakeet!Begins, ParakeetBuffer
  <2>4. geom'.right \in Nat
    <3>1. {geom'.left, geom'.right} \subseteq Nat
      BY <2>3, GeometryAssumption
    <3> QED  BY <3>1
  <2> DEFINE ahead == 0 + Parakeet!Advance' + Parakeet!Margin - 1
  <2>5. ahead \in Nat \ {0}
    <3>1. Parakeet!Advance' = 1 + 8 * geom'.right
      BY <1>3, <2>3 DEF Parakeet!Advance
    <3> QED  BY <1>3, <2>4, <3>1
  <2>6. Parakeet!KeepFrom' = (0 - PreEncodeCache) * Hop - Pad
    BY <2>3 DEF Parakeet!KeepFrom
  <2>7. (0 - PreEncodeCache) * Hop <= 0 * Hop /\ 0 * Hop = 0
        /\ (0 - PreEncodeCache) * Hop \in Int
    BY <1>3, Scaled
  <2>8. Parakeet!KeepFrom' - Hop < 0
    BY <1>3, <2>6, <2>7
  <2>9. 0 < ahead * Hop
    <3> HIDE DEF ahead
    <3>1. 1 * Hop <= ahead * Hop /\ 1 * Hop = Hop /\ ahead * Hop \in Int
      BY <1>3, <2>5, Scaled
    <3> QED  BY <1>3, <3>1
  <2>10. (0 + Subsampling - 1) \div Subsampling = 0
    BY <1>3
  <2>11. CachedCursors'
    BY <1>3, <2>3, <2>7, <2>8, <2>9, <2>10 DEF CachedCursors
  <2> QED  BY <2>2, <2>3, <2>11 DEF CachedKept, Parakeet!TailDecoded
<1>5. CASE \E n \in Feeds[path] : Parakeet!Feed(n)
  <2>1. PICK n \in Feeds[path] : Parakeet!Feed(n)
    BY <1>5
  <2>2. n \in Nat
    BY FeedsAreCounts
  <2>3. /\ stream = "ACTIVE" /\ stream' = "ACTIVE" /\ call' = "feed" /\ fed' = fed + n
        /\ UNCHANGED <<geom, frameOffset, consumed, firstChunk, pcmStart>>
    BY <2>1 DEF Parakeet!Feed, Parakeet!Appends, Parakeet!parakeetVars, Parakeet!cachedVars
  <2>4. ParakeetBuffer'
    BY <1>1, <1>5, ParakeetTurns
  <2>5. fed \in Nat /\ (consumed + Parakeet!Margin - 1) * Hop \in Int
    BY <1>1, <1>2, <1>3 DEF ParakeetBuffer
  <2>6. consumed' = 0 \/ (consumed' + Parakeet!Margin' - 1) * Hop <= fed'
    BY <1>1, <1>3, <2>2, <2>3, <2>5 DEF CachedCursors
  <2>7. Parakeet!KeepFrom' = Parakeet!KeepFrom
    BY <2>3 DEF Parakeet!KeepFrom
  <2>8. CachedCursors'
    BY <1>1, <2>3, <2>6, <2>7 DEF CachedCursors
  <2> QED  BY <2>3, <2>4, <2>8 DEF CachedKept, Parakeet!TailDecoded
<1>6. CASE Parakeet!Finalize
  <2>1. /\ stream = "ACTIVE" /\ call = "none" /\ stream' = "ACTIVE" /\ call' = "finalize"
        /\ UNCHANGED <<fed, committed, pcmStart, geom, frameOffset, consumed, firstChunk>>
    BY <1>6 DEF Parakeet!Finalize, Parakeet!FinalizeStarts, Parakeet!parakeetVars,
                Parakeet!cachedVars
  <2>2. ParakeetBuffer'
    BY <1>1, <1>6, ParakeetTurns
  <2>3. Parakeet!KeepFrom' = Parakeet!KeepFrom /\ Parakeet!Advance' = Parakeet!Advance
    BY <2>1 DEF Parakeet!KeepFrom, Parakeet!Advance
  <2>4. CachedCursors'
    BY <1>1, <1>3, <2>1, <2>3 DEF CachedCursors
  <2> QED  BY <2>1, <2>2, <2>4 DEF CachedKept, Parakeet!TailDecoded
<1>7. CASE Parakeet!FailsCached
  <2>1. /\ Parakeet!Fails /\ stream' = "FAILED" /\ UNCHANGED <<frameOffset, consumed>>
        /\ firstChunk' \in BOOLEAN
    BY <1>2, <1>7 DEF Parakeet!FailsCached, Parakeet!Fails, Parakeet!HookFails
  <2>2. ParakeetBuffer'
    BY <1>1, <2>1, ParakeetTurns
  <2>3. CachedCursors'
    BY <1>2, <2>1 DEF CachedCursors
  <2> QED  BY <2>1, <2>2, <2>3 DEF CachedKept, Parakeet!TailDecoded
<1>8. CASE Parakeet!Reset
  <2>1. /\ stream' = "IDLE" /\ UNCHANGED <<frameOffset, consumed, firstChunk>>
    BY <1>8 DEF Parakeet!Reset, Parakeet!Resets, Parakeet!parakeetVars, Parakeet!cachedVars
  <2>2. ParakeetBuffer'
    BY <1>1, <1>8, ParakeetTurns
  <2>3. CachedCursors'
    BY <1>2, <2>1 DEF CachedCursors
  <2> QED  BY <2>1, <2>2, <2>3 DEF CachedKept, Parakeet!TailDecoded
<1> QED  BY <1>4, <1>5, <1>6, <1>7, <1>8

\* What the hooks of a cached stream do.
LEMMA CachedSteps ==
  ASSUME CachedKept, path = "cached", path' = path, path \in Paths,
         Parakeet!ParakeetNext
  PROVE  CachedKept'
<1>1. ParakeetBuffer /\ CachedCursors
  BY DEF CachedKept
<1>2. CASE Parakeet!FeedChunkCached
  BY <1>1, <1>2, CachedChunks
<1>3. CASE Parakeet!FeedEndsCached
  BY <1>1, <1>3, CachedFeedEnds
<1>4. CASE Parakeet!FinalizeCached
  BY <1>1, <1>4, CachedFinalizes
<1>5. CASE \/ Parakeet!BeginCached \/ \E n \in Feeds[path] : Parakeet!Feed(n)
           \/ Parakeet!Finalize \/ Parakeet!FailsCached \/ Parakeet!Reset
  BY <1>5, CachedTurns
<1>6. ~Parakeet!BeginBuffered /\ ~Parakeet!FeedChunkBuffered /\ ~Parakeet!FeedEndsBuffered
      /\ ~Parakeet!FinalizeBuffered /\ ~Parakeet!FailsBuffered
  BY DEF Parakeet!BeginBuffered, Parakeet!FeedChunkBuffered, Parakeet!FeedEndsBuffered,
         Parakeet!FinalizeBuffered, Parakeet!FailsBuffered
<1> QED  BY <1>2, <1>3, <1>4, <1>5, <1>6 DEF Parakeet!ParakeetNext

-----------------------------------------------------------------------------
(* What a cached stream promises *)

\* The frames of the next chunk, and its history, are in the buffer.
LEMMA CachedWindowClean ==
  ASSUME path \in {"cached", "buffered"}, CachedKept
  PROVE  Parakeet!FramesClean
<1> SUFFICES ASSUME path = "cached", stream = "ACTIVE"
             PROVE  /\ call = "feed" /\ Parakeet!CachedDue =>
                         \A f \in consumed - Parakeet!Prepend
                                    .. consumed + Parakeet!Advance - 1 :
                           f >= 0 => Parakeet!LeftClean(f) /\ Parakeet!RightClean(f)
                    /\ call = "finalize" =>
                         \A f \in consumed - Parakeet!Prepend .. Parakeet!Avail - 1 :
                           f >= 0 => Parakeet!LeftClean(f)
  BY DEF Parakeet!FramesClean
<1> DEFINE M == Parakeet!Margin
           A == Parakeet!Advance
<1>1. ParakeetBuffer /\ CachedCursors
  BY DEF CachedKept
<1>2. /\ fed \in Nat /\ pcm \in Nat /\ pcmStart \in Nat /\ consumed \in Nat
      /\ pcmStart + pcm = fed /\ A \in Nat \ {0}
      /\ Parakeet!KeepFrom = (consumed - PreEncodeCache) * Hop - Pad
  BY <1>1, CachedNumbers DEF ParakeetBuffer
<1>3. Hop \in Nat \ {0} /\ Pad \in Nat \ {0} /\ PreEncodeCache \in Nat \ {0}
      /\ M \in Nat \ {0} /\ Pad <= M * Hop
  BY ParakeetGeometry
<1>4. Parakeet!Prepend \in Nat /\ Parakeet!Prepend <= PreEncodeCache
  BY <1>3 DEF Parakeet!Prepend
<1>5. ASSUME NEW f \in Int, consumed - Parakeet!Prepend <= f
      PROVE  Parakeet!LeftClean(f)
  <2>1. (consumed - PreEncodeCache) * Hop <= f * Hop
    BY <1>2, <1>3, <1>4, <1>5, Scaled
  <2>2. (consumed - PreEncodeCache) * Hop \in Int /\ f * Hop \in Int
    BY <1>2, <1>3
  <2>3. pcmStart = 0 \/ pcmStart <= Parakeet!KeepFrom
    BY <1>1 DEF CachedCursors
  <2> QED  BY <1>2, <1>3, <2>1, <2>2, <2>3 DEF Parakeet!LeftClean
<1>6. ASSUME Parakeet!CachedDue, NEW f \in Int, f <= consumed + A - 1
      PROVE  Parakeet!RightClean(f)
  <2>1. /\ Parakeet!Avail \in Nat /\ (Parakeet!Avail - 1) * Hop <= fed
        /\ Parakeet!Avail - consumed >= A + M
    BY <1>1, <1>6, HeardIs DEF Parakeet!CachedDue
  <2> HIDE DEF A, M
  <2>2. f + M <= Parakeet!Avail - 1
    BY <1>2, <1>3, <1>6, <2>1
  <2>3. (f + M) * Hop <= (Parakeet!Avail - 1) * Hop
    BY <1>3, <2>1, <2>2, Scaled
  <2>4. (f + M) * Hop = f * Hop + M * Hop /\ f * Hop \in Int /\ M * Hop \in Int
        /\ (Parakeet!Avail - 1) * Hop \in Int
    BY <1>3, <2>1
  <2> QED  BY <1>2, <1>3, <2>1, <2>3, <2>4 DEF Parakeet!RightClean
<1>7. Parakeet!Avail \in Int
  <2>1. Parakeet!MelFrames(pcm) \in Nat /\ pcmStart \div Hop \in Int
    BY <1>1, <1>2, <1>3, HeardIs, Quotient
  <2> QED  BY <2>1 DEF Parakeet!Avail
<1> HIDE DEF A
<1>8. \A f \in consumed - Parakeet!Prepend .. consumed + A - 1 :
        f \in Int /\ consumed - Parakeet!Prepend <= f /\ f <= consumed + A - 1
  BY <1>2, <1>4
<1>9. \A f \in consumed - Parakeet!Prepend .. Parakeet!Avail - 1 :
        f \in Int /\ consumed - Parakeet!Prepend <= f
  BY <1>2, <1>4, <1>7
<1> QED  BY <1>5, <1>6, <1>8, <1>9 DEF A

\* What waits between two calls, and the buffer that holds it.
LEMMA CachedBacklog ==
  ASSUME path \in {"cached", "buffered"}, CachedKept
  PROVE  Parakeet!BacklogBounded
<1> SUFFICES ASSUME path = "cached", stream = "ACTIVE", call = "none"
             PROVE  /\ input - committed < (Parakeet!Advance + Parakeet!Margin) * Hop
                    /\ pcm < (Parakeet!Advance + Parakeet!Margin + PreEncodeCache) * Hop + Pad
  BY DEF Parakeet!BacklogBounded
<1> DEFINE M == Parakeet!Margin
           A == Parakeet!Advance
<1>1. ParakeetBuffer /\ CachedCursors
  BY DEF CachedKept
<1>2. /\ fed \in Nat /\ pcm \in Nat /\ pcmStart \in Nat /\ consumed \in Nat
      /\ pcmStart + pcm = fed /\ input = fed /\ A \in Nat \ {0}
      /\ Parakeet!KeepFrom = (consumed - PreEncodeCache) * Hop - Pad
  BY <1>1, CachedNumbers DEF ParakeetBuffer
<1>3. Hop \in Nat \ {0} /\ Pad \in Nat \ {0} /\ PreEncodeCache \in Nat \ {0}
      /\ M \in Nat \ {0}
  BY ParakeetGeometry
<1>4. /\ committed = consumed * Hop
      /\ Parakeet!KeepFrom - Hop < pcmStart
      /\ fed < (consumed + A + M - 1) * Hop
  BY <1>1 DEF CachedCursors
<1> HIDE DEF A, M
<1>5. /\ (consumed + A + M - 1) * Hop = consumed * Hop + (A + M) * Hop - Hop
      /\ (consumed - PreEncodeCache) * Hop = consumed * Hop - PreEncodeCache * Hop
      /\ (A + M + PreEncodeCache) * Hop = (A + M) * Hop + PreEncodeCache * Hop
  BY <1>2, <1>3
<1>6. consumed * Hop \in Int /\ (A + M) * Hop \in Int /\ PreEncodeCache * Hop \in Int
  BY <1>2, <1>3
<1>7. input - committed < (A + M) * Hop
  BY <1>2, <1>3, <1>4, <1>5, <1>6
<1>8. pcm < (A + M + PreEncodeCache) * Hop + Pad
  BY <1>2, <1>3, <1>4, <1>5, <1>6
<1> QED  BY <1>7, <1>8 DEF A, M

-----------------------------------------------------------------------------
(* The buffered path *)

\* The cursors of a running buffered stream, as numbers: what moves left in the
\* window is whole frames, and what is new completes the right context.
LEMMA BufferedNumbers ==
  ASSUME ParakeetBuffer, BufferedCursors, path = "buffered", stream = "ACTIVE"
  PROVE  /\ geom.left \in Nat /\ geom.right \in Nat /\ geom.chunk \in Nat \ {0}
         /\ fed \in Nat /\ pcm = fed /\ input = fed
         /\ nextRead \in Nat /\ decoded \in Nat /\ frameOffset \in Nat
         /\ ctx.left \in Nat /\ ctx.chunk \in Nat /\ ctx.right \in Nat
         /\ Parakeet!NumNew \in Nat \ {0}
         /\ ctx.right + Parakeet!NumNew
              = (geom.chunk + geom.right) * Parakeet!Frame
         /\ ctx.left + ctx.chunk + ctx.right <= nextRead
         /\ decoded + ctx.right = nextRead
         /\ \E b \in Nat : ctx.left + ctx.chunk = b * Parakeet!Frame
         /\ ctx.left + ctx.chunk <= (geom.left + geom.chunk) * Parakeet!Frame
<1> DEFINE F == Parakeet!Frame
<1>1. geom.left \in Nat /\ geom.right \in Nat /\ geom.chunk \in Nat \ {0}
  BY ChosenGeometry DEF ParakeetBuffer
<1>2. /\ fed \in Nat /\ pcm \in Nat /\ pcmStart + pcm = fed /\ pcmStart = 0 /\ input = fed
      /\ nextRead \in Nat /\ decoded \in Nat /\ frameOffset \in Nat
      /\ ctx.left \in Nat /\ ctx.chunk \in Nat /\ ctx.right \in Nat
      /\ initialized \in BOOLEAN
  BY DEF ParakeetBuffer, BufferedCursors
<1>3. F \in Nat \ {0}
  BY ParakeetGeometry
<1>4. WindowPlaced
  BY DEF BufferedCursors
<1>5. Parakeet!NumNew = (geom.chunk + (IF initialized THEN 0 ELSE geom.right)) * F
  BY DEF Parakeet!NumNew
<1>6. CASE initialized
  <2>1. PICK a \in 0 .. geom.left : ctx.left = a * F
    BY <1>4, <1>6 DEF WindowPlaced
  <2>2. /\ ctx.chunk = geom.chunk * F /\ ctx.right = geom.right * F
        /\ ctx.left + ctx.chunk + ctx.right <= nextRead /\ decoded + ctx.right = nextRead
    BY <1>4, <1>6 DEF WindowPlaced
  <2>3. a \in Nat /\ a <= geom.left
    BY <1>1
  <2>4. Parakeet!NumNew = geom.chunk * F
    BY <1>1, <1>5, <1>6
  <2> HIDE DEF F
  <2>5. /\ (geom.chunk + geom.right) * F = geom.chunk * F + geom.right * F
        /\ (a + geom.chunk) * F = a * F + geom.chunk * F
        /\ (geom.left + geom.chunk) * F = geom.left * F + geom.chunk * F
        /\ geom.chunk * F \in Nat /\ geom.right * F \in Nat /\ geom.left * F \in Nat
        /\ a * F \in Nat
    BY <1>1, <1>3, <2>3
  <2>6. a * F <= geom.left * F
    BY <1>1, <1>3, <2>3, Scaled
  <2>7. geom.chunk * F # 0
    <3>1. 1 * F <= geom.chunk * F /\ 1 * F = F
      BY <1>1, <1>3, Scaled
    <3> QED  BY <1>3, <3>1
  <2>8. ctx.left + ctx.chunk = (a + geom.chunk) * F /\ a + geom.chunk \in Nat
    BY <1>1, <2>1, <2>2, <2>3, <2>5
  <2>9. ctx.left + ctx.chunk <= (geom.left + geom.chunk) * F
    BY <2>1, <2>2, <2>5, <2>6
  <2>10. Parakeet!NumNew \in Nat \ {0}
         /\ ctx.right + Parakeet!NumNew = (geom.chunk + geom.right) * F
    BY <2>2, <2>4, <2>5, <2>7
  <2> QED  BY <1>1, <1>2, <2>2, <2>8, <2>9, <2>10 DEF F
<1>7. CASE ~initialized
  <2>1. ctx = Parakeet!NoContext /\ nextRead = 0 /\ decoded = 0
    BY <1>4, <1>7 DEF WindowPlaced
  <2>2. ctx.left = 0 /\ ctx.chunk = 0 /\ ctx.right = 0
    BY <2>1 DEF Parakeet!NoContext
  <2>3. Parakeet!NumNew = (geom.chunk + geom.right) * F
    BY <1>5, <1>7
  <2> HIDE DEF F
  <2>4. 1 * F <= (geom.chunk + geom.right) * F /\ 1 * F = F
        /\ (geom.chunk + geom.right) * F \in Nat /\ 0 * F = 0
        /\ (geom.left + geom.chunk) * F \in Nat
    BY <1>1, <1>3, Scaled
  <2>5. Parakeet!NumNew \in Nat \ {0}
        /\ ctx.right + Parakeet!NumNew = (geom.chunk + geom.right) * F
    BY <1>3, <2>2, <2>3, <2>4
  <2>6. ctx.left + ctx.chunk = 0 * F /\ 0 \in Nat
        /\ ctx.left + ctx.chunk <= (geom.left + geom.chunk) * F
    BY <2>2, <2>4
  <2> QED  BY <1>1, <1>2, <2>1, <2>2, <2>5, <2>6 DEF F
<1> QED  BY <1>2, <1>6, <1>7

\* What a step that is not the last makes of the window,
LEMMA ChunkAdds ==
  ASSUME NEW n
  PROVE  /\ Parakeet!AddFrames(n, FALSE).left =
              (ctx.left + ctx.chunk)
                - Max({0, (ctx.left + ctx.chunk) + (ctx.right + n)
                            - (geom.left + geom.chunk + geom.right) * Parakeet!Frame})
         /\ Parakeet!AddFrames(n, FALSE).chunk = geom.chunk * Parakeet!Frame
         /\ Parakeet!AddFrames(n, FALSE).right = (ctx.right + n) - geom.chunk * Parakeet!Frame
BY SharedOperators DEF Parakeet!AddFrames

\* and what the last one makes of it.
LEMMA LastAdds ==
  ASSUME NEW n
  PROVE  /\ Parakeet!AddFrames(n, TRUE).left =
              (ctx.left + ctx.chunk)
                - Max({0, (ctx.left + ctx.chunk) + (ctx.right + n)
                            - (geom.left + geom.chunk + geom.right) * Parakeet!Frame})
         /\ Parakeet!AddFrames(n, TRUE).chunk = ctx.right + n
         /\ Parakeet!AddFrames(n, TRUE).right = (ctx.right + n) - (ctx.right + n)
BY SharedOperators DEF Parakeet!AddFrames

\* The window after a step that is not the last.
LEMMA ChunkAdded ==
  ASSUME ParakeetBuffer, BufferedCursors, path = "buffered", stream = "ACTIVE"
  PROVE  LET c == Parakeet!AddFrames(Parakeet!NumNew, FALSE)  IN
         /\ \E a \in 0 .. geom.left : c.left = a * Parakeet!Frame
         /\ c.chunk = geom.chunk * Parakeet!Frame
         /\ c.right = geom.right * Parakeet!Frame
         /\ c.left + c.chunk + c.right <= nextRead + Parakeet!NumNew
         /\ c.left \in Nat /\ c.chunk \in Nat /\ c.right \in Nat
<1> DEFINE c == Parakeet!AddFrames(Parakeet!NumNew, FALSE)
           F == Parakeet!Frame
           n == Parakeet!NumNew
           l == geom.left
           k == geom.chunk
           r == geom.right
           old == ctx.left + ctx.chunk
           room == (l + k + r) * F
           extra == Max({0, old + (ctx.right + n) - room})
<1>1. /\ l \in Nat /\ r \in Nat /\ k \in Nat \ {0} /\ nextRead \in Nat
      /\ ctx.left \in Nat /\ ctx.chunk \in Nat /\ ctx.right \in Nat /\ n \in Nat \ {0}
      /\ ctx.right + n = (k + r) * F
      /\ ctx.left + ctx.chunk + ctx.right <= nextRead
  BY BufferedNumbers
<1>2. PICK b \in Nat : old = b * F
  BY BufferedNumbers
<1>3. F \in Nat \ {0}
  BY ParakeetGeometry
<1>4. /\ c.left = old - extra
      /\ c.chunk = k * F
      /\ c.right = (ctx.right + n) - k * F
  BY ChunkAdds, Zenon
<1> HIDE DEF c, F, n, l, k, r, old
<1>5. /\ (k + r) * F = k * F + r * F /\ (l + k + r) * F = l * F + k * F + r * F
      /\ k * F \in Nat /\ r * F \in Nat /\ l * F \in Nat /\ b * F \in Nat
  BY <1>1, <1>3
<1>6. c.right = r * F
  <2> HIDE DEF extra, room
  <2>1. ctx.right + n = k * F + r * F
    BY <1>1, <1>5, Zenon
  <2>2. c.right = (k * F + r * F) - k * F
    BY <1>4, <2>1, Zenon
  <2> QED  BY <1>5, <2>2
<1>7. extra = Max({0, b * F - l * F})
  <2>1. old + (ctx.right + n) - room = b * F - l * F
    BY <1>1, <1>2, <1>5
  <2> QED  BY <2>1
<1>8. extra = IF b * F - l * F > 0 THEN b * F - l * F ELSE 0
  <2>1. Max({0, b * F - l * F}) = IF 0 >= b * F - l * F THEN 0 ELSE b * F - l * F
    BY <1>5, MaxOfTwo
  <2> QED  BY <1>5, <1>7, <2>1
<1> HIDE DEF extra
<1>9. \E a \in 0 .. l : c.left = a * F /\ a * F <= b * F
  <2>1. CASE b <= l
    <3>1. b * F <= l * F
      BY <1>1, <1>3, <2>1, Scaled
    <3>2. c.left = b * F
      BY <1>1, <1>2, <1>3, <1>4, <1>5, <1>8, <3>1
    <3> QED  BY <1>1, <1>3, <1>5, <2>1, <3>2
  <2>2. CASE ~(b <= l)
    <3>1. l * F <= b * F
      BY <1>1, <1>3, <2>2, Scaled
    <3>2. c.left = l * F
      BY <1>1, <1>2, <1>3, <1>4, <1>5, <1>8, <3>1
    <3> QED  BY <1>1, <1>3, <1>5, <3>1, <3>2
  <2> QED  BY <2>1, <2>2
<1>10. PICK a \in 0 .. l : c.left = a * F /\ a * F <= b * F
  BY <1>9
<1>11. a * F \in Nat
  BY <1>1, <1>3
<1>12. c.left + c.chunk + c.right <= nextRead + n
  BY <1>1, <1>2, <1>4, <1>5, <1>6, <1>10, <1>11 DEF old
<1> QED  BY <1>4, <1>5, <1>6, <1>10, <1>11, <1>12 DEF c, F, n, l, k, r

\* The window of the last step.
LEMMA LastAdded ==
  ASSUME ParakeetBuffer, BufferedCursors, path = "buffered", stream = "ACTIVE",
         NEW d \in Nat, d < Parakeet!NumNew
  PROVE  LET c == Parakeet!AddFrames(d, TRUE)  IN
         /\ c.left \in Nat /\ c.chunk \in Nat /\ c.right = 0
         /\ c.chunk = ctx.right + d
         /\ c.left + c.chunk <= nextRead + d
<1> DEFINE c == Parakeet!AddFrames(d, TRUE)
           F == Parakeet!Frame
           n == Parakeet!NumNew
           l == geom.left
           k == geom.chunk
           r == geom.right
           old == ctx.left + ctx.chunk
           room == (l + k + r) * F
           extra == Max({0, old + (ctx.right + d) - room})
<1>1. /\ l \in Nat /\ r \in Nat /\ k \in Nat \ {0} /\ nextRead \in Nat
      /\ ctx.left \in Nat /\ ctx.chunk \in Nat /\ ctx.right \in Nat /\ n \in Nat \ {0}
      /\ ctx.right + n = (k + r) * F
      /\ ctx.left + ctx.chunk + ctx.right <= nextRead
  BY BufferedNumbers
<1>3. F \in Nat \ {0}
  BY ParakeetGeometry
<1>4. /\ c.left = old - extra
      /\ c.chunk = ctx.right + d
      /\ c.right = (ctx.right + d) - (ctx.right + d)
  BY LastAdds, Zenon
<1>5. d < n
  OBVIOUS
<1>2. old \in Nat /\ old = ctx.left + ctx.chunk
  BY <1>1
<1> HIDE DEF c, F, n, l, k, r, old
<1>6. /\ (k + r) * F = k * F + r * F /\ (l + k + r) * F = l * F + (k + r) * F
      /\ k * F \in Nat /\ r * F \in Nat /\ l * F \in Nat /\ room \in Int
  BY <1>1, <1>3
<1>7. extra = IF old + (ctx.right + d) - room > 0
                THEN old + (ctx.right + d) - room ELSE 0
  <2>1. old + (ctx.right + d) - room \in Int
    BY <1>1, <1>2, <1>6
  <2> HIDE DEF room
  <2>2. extra = IF 0 >= old + (ctx.right + d) - room THEN 0
                  ELSE old + (ctx.right + d) - room
    BY <2>1, MaxOfTwo
  <2> HIDE DEF extra
  <2> QED  BY <1>1, <1>2, <1>6, <2>1, <2>2
<1> HIDE DEF extra
<1>8. c.left \in Nat /\ c.left <= old
  <2>1. CASE old + (ctx.right + d) - room > 0
    <3>1. c.left = l * F + ((k + r) * F - (ctx.right + d))
      BY <1>1, <1>2, <1>4, <1>6, <1>7, <2>1
    <3>2. ctx.right + d < (k + r) * F
      BY <1>1, <1>5
    <3> QED  BY <1>1, <1>2, <1>4, <1>6, <1>7, <2>1, <3>1, <3>2
  <2>2. CASE ~(old + (ctx.right + d) - room > 0)
    BY <1>1, <1>2, <1>4, <1>7, <2>2
  <2> QED  BY <2>1, <2>2
<1>9. c.right = 0
  BY <1>1, <1>4
<1>10. c.left + c.chunk <= nextRead + d
  BY <1>1, <1>2, <1>4, <1>8
<1>11. c.left \in Nat /\ c.chunk \in Nat /\ c.chunk = ctx.right + d
  BY <1>1, <1>4, <1>8
<1> HIDE DEF room
<1> QED  BY <1>9, <1>10, <1>11, Zenon DEF c

\* The mel frames of whole frames, and what they make.
LEMMA WholeWindow ==
  ASSUME NEW m \in Nat \ {0}
  PROVE  Parakeet!EncFrames(Parakeet!MelFrames(m * Parakeet!Frame), FALSE) = m + 1
<1>1. Hop \in Nat \ {0} /\ Parakeet!Frame = 8 * Hop
  BY ParakeetGeometry
<1>2. m * Parakeet!Frame = (8 * m) * Hop
  BY <1>1
<1> DEFINE w == (8 * m) * Hop
<1>3. w \in Nat /\ w >= Hop
  <2>1. 1 * Hop <= (8 * m) * Hop /\ 1 * Hop = Hop
    BY <1>1, Scaled
  <2>2. (8 * m) * Hop \in Nat
    BY <1>1
  <2> QED  BY <1>1, <2>1, <2>2
<1>4. w \div Hop = 8 * m
  <2>1. (8 * m) * Hop <= w /\ w < (8 * m + 1) * Hop /\ 8 * m \in Int
    BY <1>1
  <2> HIDE DEF w
  <2> QED  BY <1>1, <1>3, <2>1, QuotientIs
<1> HIDE DEF w
<1>5. Parakeet!MelFrames(w) = 8 * m + 1
  BY <1>1, <1>3, <1>4 DEF Parakeet!MelFrames
<1>6. Parakeet!EncFrames(8 * m + 1, FALSE) = m + 1
  BY WholeFrames
<1>7. Parakeet!MelFrames(m * Parakeet!Frame) = 8 * m + 1
  BY <1>2, <1>5, Zenon DEF w
<1> QED  BY <1>6, <1>7, Zenon

\* A step that is not the last decodes the chunk, from where the one before ended.
LEMMA ChunkDecodes ==
  ASSUME ParakeetBuffer, BufferedCursors, path = "buffered", stream = "ACTIVE"
  PROVE  LET c == Parakeet!AddFrames(Parakeet!NumNew, FALSE)
         IN  /\ Parakeet!ToDecode(c, FALSE) = geom.chunk
             /\ Parakeet!DecodeStart(c, Parakeet!NumNew) = decoded
             /\ Parakeet!WindowStart(c, Parakeet!NumNew) >= 0
             /\ decoded + geom.chunk * Parakeet!Frame + geom.right * Parakeet!Frame
                  = nextRead + Parakeet!NumNew
<1> DEFINE c == Parakeet!AddFrames(Parakeet!NumNew, FALSE)
           F == Parakeet!Frame
           n == Parakeet!NumNew
           k == geom.chunk
           r == geom.right
<1>1. /\ geom.left \in Nat /\ r \in Nat /\ k \in Nat \ {0} /\ nextRead \in Nat
      /\ decoded \in Nat /\ ctx.right \in Nat /\ n \in Nat \ {0}
      /\ ctx.right + n = (k + r) * F
      /\ decoded + ctx.right = nextRead
  BY BufferedNumbers
<1>2. F \in Nat \ {0}
  BY ParakeetGeometry
<1>3. /\ c.chunk = k * F /\ c.right = r * F
      /\ c.left + c.chunk + c.right <= nextRead + n
  BY ChunkAdded
<1>4. PICK a \in 0 .. geom.left : c.left = a * F
  BY ChunkAdded
<1>5. Parakeet!ToDecode(c, FALSE) =
        Max({0, Min({c.chunk \div F,
                     Parakeet!EncFrames(Parakeet!MelFrames(c.left + c.chunk + c.right), FALSE)
                       - c.left \div F})})
  BY SharedOperators DEF Parakeet!ToDecode, Parakeet!LeftFrames, Parakeet!Window
<1>6. /\ Parakeet!WindowStart(c, n) = nextRead + (n - (c.left + c.chunk + c.right))
      /\ Parakeet!DecodeStart(c, n) = Parakeet!WindowStart(c, n) + (c.left \div F) * F
  BY DEF Parakeet!DecodeStart, Parakeet!WindowStart, Parakeet!LeftFrames, Parakeet!Window
<1> HIDE DEF c, F, n, k, r
<1>7. a \in Nat /\ a * F \in Nat /\ k * F \in Nat /\ r * F \in Nat
      /\ (k + r) * F = k * F + r * F
      /\ (a + k + r) * F = a * F + k * F + r * F /\ a + k + r \in Nat \ {0}
  BY <1>1, <1>2
<1>8. c.left \div F = a /\ c.chunk \div F = k
  <2>1. \A x \in Nat : x * F \in Int /\ x * F <= x * F /\ x * F < (x + 1) * F
    BY <1>2
  <2>2. \A x \in Nat : (x * F) \div F = x
    BY <1>2, <2>1, QuotientIs
  <2> QED  BY <1>1, <1>3, <1>4, <1>7, <2>2
<1>9. Parakeet!EncFrames(Parakeet!MelFrames(c.left + c.chunk + c.right), FALSE) = a + k + r + 1
  <2>1. c.left + c.chunk + c.right = (a + k + r) * F
    BY <1>3, <1>4, <1>7
  <2>2. Parakeet!EncFrames(Parakeet!MelFrames((a + k + r) * F), FALSE) = (a + k + r) + 1
    BY <1>7, WholeWindow, Zenon DEF F
  <2> QED  BY <2>1, <2>2
<1>10. Parakeet!ToDecode(c, FALSE) = k
  <2>1. Parakeet!ToDecode(c, FALSE) = Max({0, Min({k, (a + k + r + 1) - a})})
    BY <1>5, <1>8, <1>9
  <2>2. (a + k + r + 1) - a = k + r + 1
    BY <1>1, <1>7
  <2>3. Min({k, k + r + 1}) = k
    BY <1>1, MinOfTwo
  <2>4. Max({0, k}) = k
    BY <1>1, MaxOfTwo
  <2> QED  BY <2>1, <2>2, <2>3, <2>4
<1>11. decoded + k * F + r * F = nextRead + n
  BY <1>1, <1>2, <1>7
<1>12. Parakeet!DecodeStart(c, n) = decoded
  BY <1>1, <1>3, <1>4, <1>6, <1>7, <1>8, <1>11
<1>13. Parakeet!WindowStart(c, n) >= 0
  BY <1>1, <1>3, <1>4, <1>6, <1>7
<1> QED  BY <1>10, <1>11, <1>12, <1>13 DEF c, F, n, k, r

\* The last step decodes all behind the left context, beyond the end of the audio,
\* from less than a frame before where the step before ended.
LEMMA LastDecodes ==
  ASSUME ParakeetBuffer, BufferedCursors, path = "buffered", stream = "ACTIVE",
         NEW d \in Nat, d < Parakeet!NumNew
  PROVE  LET c == Parakeet!AddFrames(d, TRUE)
         IN  /\ Parakeet!WindowStart(c, d) >= 0
             /\ Parakeet!DecodeStart(c, d) \in Int
             /\ Parakeet!DecodeStart(c, d) <= decoded
             /\ decoded - Parakeet!DecodeStart(c, d) < Parakeet!Frame
             /\ Parakeet!MelFrames(Parakeet!Window(c)) > 0 =>
                  /\ Parakeet!ToDecode(c, TRUE) \in Nat \ {0}
                  /\ Parakeet!DecodeStart(c, d)
                       + Parakeet!ToDecode(c, TRUE) * Parakeet!Frame > nextRead + d
<1> DEFINE c == Parakeet!AddFrames(d, TRUE)
           F == Parakeet!Frame
           w == c.left + c.chunk
           q == c.left \div F
<1>1. /\ nextRead \in Nat /\ decoded \in Nat /\ ctx.right \in Nat
      /\ decoded + ctx.right = nextRead
  BY BufferedNumbers
<1>2. F \in Nat \ {0} /\ Hop \in Nat \ {0} /\ F = 8 * Hop
  BY ParakeetGeometry
<1>3. /\ c.left \in Nat /\ c.chunk \in Nat /\ c.right = 0
      /\ c.chunk = ctx.right + d
      /\ w <= nextRead + d
  BY LastAdded
<1>4. /\ Parakeet!Window(c) = c.left + c.chunk + c.right
      /\ Parakeet!WindowStart(c, d) = nextRead + (d - Parakeet!Window(c))
      /\ Parakeet!DecodeStart(c, d) = Parakeet!WindowStart(c, d) + q * F
  BY DEF Parakeet!DecodeStart, Parakeet!WindowStart, Parakeet!LeftFrames, Parakeet!Window
<1>5. Parakeet!ToDecode(c, TRUE) =
        Max({0, Parakeet!EncFrames(Parakeet!MelFrames(Parakeet!Window(c)), FALSE) - q})
  BY SharedOperators DEF Parakeet!ToDecode, Parakeet!LeftFrames
<1> HIDE DEF c, F
<1>6. w \in Nat /\ Parakeet!Window(c) = w
  BY <1>3, <1>4
<1>7. q \in Nat /\ q * F <= c.left /\ c.left < (q + 1) * F
  <2>1. 0 * F <= c.left
    BY <1>2, <1>3
  <2>2. c.left \in Int /\ 0 \in Int
    BY <1>3
  <2>3. 0 <= q
    BY <1>2, <2>1, <2>2, FitsQuotient
  <2>4. q \in Int /\ q * F <= c.left /\ c.left < (q + 1) * F
    BY <1>2, <2>2, Quotient
  <2> HIDE DEF q
  <2> QED  BY <2>3, <2>4
<1> HIDE DEF q
<1>8. q * F \in Nat /\ (q + 1) * F = q * F + F
  BY <1>2, <1>7
<1>9. /\ Parakeet!WindowStart(c, d) = (nextRead + d) - w
      /\ Parakeet!WindowStart(c, d) >= 0
  BY <1>1, <1>3, <1>4, <1>6
<1>10. /\ Parakeet!DecodeStart(c, d) = ((nextRead + d) - w) + q * F
       /\ Parakeet!DecodeStart(c, d) = decoded - (c.left - q * F)
       /\ Parakeet!DecodeStart(c, d) \in Int
  <2>1. Parakeet!DecodeStart(c, d) = ((nextRead + d) - w) + q * F
    BY <1>1, <1>4, <1>6, <1>8, <1>9
  <2>2. ((nextRead + d) - w) + q * F = decoded - (c.left - q * F)
    BY <1>1, <1>3, <1>8
  <2> HIDE DEF w
  <2>3. ((nextRead + d) - w) + q * F \in Int
    BY <1>1, <1>6, <1>8
  <2> QED  BY <2>1, <2>2, <2>3
<1>11. /\ Parakeet!DecodeStart(c, d) <= decoded
       /\ decoded - Parakeet!DecodeStart(c, d) < F
  BY <1>1, <1>2, <1>3, <1>7, <1>8, <1>10
<1>12. ASSUME Parakeet!MelFrames(Parakeet!Window(c)) > 0
       PROVE  /\ Parakeet!ToDecode(c, TRUE) \in Nat \ {0}
              /\ Parakeet!DecodeStart(c, d) + Parakeet!ToDecode(c, TRUE) * F > nextRead + d
  <2> HIDE DEF w
  <2> DEFINE t == w \div Hop + 1
             e == Parakeet!EncFrames(t, FALSE)
  <2>1. Parakeet!MelFrames(w) = t /\ t \in Nat \ {0} /\ w < t * Hop
    <3>1. ~(w < Hop)
      BY <1>6, <1>12 DEF Parakeet!MelFrames
    <3>2. Parakeet!MelFrames(w) = t
      BY <3>1 DEF Parakeet!MelFrames
    <3>3. 0 * Hop <= w
      BY <1>2, <1>6
    <3>4. w \div Hop \in Nat /\ w < (w \div Hop + 1) * Hop
      BY <1>2, <1>6, <3>3, Quotient, FitsQuotient
    <3> QED  BY <3>2, <3>4
  <2>2. Parakeet!ToDecode(c, TRUE) = Max({0, e - q})
    BY <1>5, <1>6, <2>1
  <2> HIDE DEF t
  <2>3. e \in Nat /\ t <= 8 * e
    BY <2>1, OfflineFrames
  <2> HIDE DEF e
  <2>4. w < e * F
    <3>1. t * Hop <= (8 * e) * Hop
      BY <1>2, <2>1, <2>3, Scaled
    <3>2. (8 * e) * Hop = e * F /\ t * Hop \in Int /\ e * F \in Int
      BY <1>2, <2>1, <2>3
    <3> QED  BY <1>6, <2>1, <3>1, <3>2
  <2>5. q < e
    <3>1. q * F < e * F
      <4>1. c.left <= w
        BY <1>3 DEF w
      <4>2. e * F \in Int
        BY <1>2, <2>3
      <4> QED  BY <1>3, <1>6, <1>7, <1>8, <2>4, <4>1, <4>2
    <3> QED  BY <1>2, <1>7, <2>3, <3>1, Unscaled
  <2>6. Parakeet!ToDecode(c, TRUE) = e - q
    <3>1. Max({0, e - q}) = e - q
      BY <1>7, <2>3, <2>5, MaxOfTwo
    <3> QED  BY <2>2, <3>1
  <2>7. (e - q) * F = e * F - q * F /\ e * F \in Int
    BY <1>2, <1>7, <2>3
  <2>8. (((nextRead + d) - w) + q * F) + (e - q) * F > nextRead + d
    BY <1>1, <1>6, <1>8, <2>4, <2>7
  <2>9. e - q \in Nat \ {0}
    BY <1>7, <2>3, <2>5
  <2>10. Parakeet!DecodeStart(c, d) + Parakeet!ToDecode(c, TRUE) * F
           = (((nextRead + d) - w) + q * F) + (e - q) * F
    BY <1>10, <2>6, Zenon
  <2> QED  BY <2>6, <2>8, <2>9, <2>10
<1> QED  BY <1>9, <1>10, <1>11, <1>12 DEF c, F

\* A step is taken when the audio of its window is there.
LEMMA BufferedChunks ==
  ASSUME ParakeetBuffer, BufferedCursors, path = "buffered", path' = path,
         Parakeet!FeedChunkBuffered
  PROVE  BufferedKept'
<1> DEFINE n == Parakeet!NumNew
           k == geom.chunk
           r == geom.right
           F == Parakeet!Frame
           c == Parakeet!AddFrames(n, FALSE)
<1>1. /\ call = "feed" /\ stream = "ACTIVE" /\ nextRead + n <= pcm
      /\ UNCHANGED <<stream, call, fed, input, committed, pcm, pcmStart, geom>>
      /\ ctx' = c /\ nextRead' = nextRead + n /\ initialized' = TRUE
      /\ frameOffset' = frameOffset + Parakeet!ToDecode(c, FALSE)
      /\ decoded' = IF Parakeet!ToDecode(c, FALSE) = 0 THEN decoded
                      ELSE Parakeet!DecodeStart(c, n) + Parakeet!ToDecode(c, FALSE) * F
  BY DEF Parakeet!FeedChunkBuffered, Parakeet!EmitBuffered, Parakeet!cursors,
         Parakeet!BufferedDue, ParakeetBuffer
<1>2. /\ geom.left \in Nat /\ r \in Nat /\ k \in Nat \ {0} /\ nextRead \in Nat
      /\ decoded \in Nat /\ frameOffset \in Nat /\ n \in Nat \ {0}
  BY <1>1, BufferedNumbers
<1>3. F \in Nat \ {0} /\ F' = F
  BY ParakeetGeometry DEF Parakeet!Frame
<1>4. /\ \E a \in 0 .. geom.left : c.left = a * F
      /\ c.chunk = k * F /\ c.right = r * F
      /\ c.left + c.chunk + c.right <= nextRead + n
      /\ c.left \in Nat /\ c.chunk \in Nat /\ c.right \in Nat
  BY <1>1, ChunkAdded
<1>5. /\ Parakeet!ToDecode(c, FALSE) = k
      /\ Parakeet!DecodeStart(c, n) = decoded
      /\ decoded + k * F + r * F = nextRead + n
  BY <1>1, ChunkDecodes
<1>6. frameOffset * F = decoded /\ pcmStart = 0 /\ committed <= fed
  BY <1>1 DEF BufferedCursors
<1> HIDE DEF n, k, r, F, c
<1>7. k * F \in Nat /\ r * F \in Nat
  BY <1>2, <1>3
<1>8. frameOffset' = frameOffset + k /\ decoded' = decoded + k * F
  BY <1>1, <1>2, <1>5
<1>9. /\ frameOffset' \in Nat /\ nextRead' \in Nat /\ decoded' \in Nat
      /\ ctx'.left \in Nat /\ ctx'.chunk \in Nat /\ ctx'.right \in Nat
  <2>1. frameOffset' \in Nat /\ decoded' \in Nat
    BY <1>2, <1>7, <1>8
  <2>2. nextRead' \in Nat
    BY <1>1, <1>2
  <2>3. ctx' = c
    BY <1>1
  <2> QED  BY <1>4, <2>1, <2>2, <2>3
<1>10. frameOffset' * F = decoded'
  <2>1. (frameOffset + k) * F = frameOffset * F + k * F
    BY <1>2, <1>3
  <2> QED  BY <1>6, <1>8, <2>1
<1>11. decoded' + ctx'.right = nextRead'
  BY <1>1, <1>2, <1>4, <1>5, <1>7, <1>8
<1>12. WindowPlaced'
  <2>1. /\ \E a \in 0 .. geom'.left : ctx'.left = a * F'
        /\ ctx'.chunk = geom'.chunk * F' /\ ctx'.right = geom'.right * F'
        /\ ctx'.left + ctx'.chunk + ctx'.right <= nextRead'
    BY <1>1, <1>3, <1>4 DEF k, r
  <2> QED  BY <1>1, <1>11, <2>1 DEF WindowPlaced, F
<1>13. ParakeetBuffer'
  BY <1>1 DEF ParakeetBuffer, Parakeet!Menu
<1>14. BufferedCursors'
  <2>1. frameOffset' * Parakeet!Frame' = decoded'
    BY <1>3, <1>10 DEF F
  <2>2. nextRead' <= pcm' /\ pcmStart' = 0 /\ committed' <= fed' /\ call' = "feed"
        /\ initialized' = TRUE
    BY <1>1, <1>6
  <2> QED  BY <1>9, <1>12, <2>1, <2>2 DEF BufferedCursors
<1> QED  BY <1>1, <1>13, <1>14 DEF BufferedKept, Parakeet!TailDecoded

\* A feed ends when the next step would read beyond the audio.
LEMMA BufferedFeedEnds ==
  ASSUME ParakeetBuffer, BufferedCursors, path = "buffered", path' = path,
         Parakeet!FeedEndsBuffered
  PROVE  BufferedKept'
<1>1. /\ call = "feed" /\ stream = "ACTIVE" /\ ~Parakeet!BufferedDue /\ call' = "none"
      /\ committed' \in {committed, nextRead}
      /\ UNCHANGED <<stream, fed, input, pcm, pcmStart, geom, frameOffset, nextRead, ctx,
                    initialized, decoded>>
  BY DEF Parakeet!FeedEndsBuffered, ParakeetBuffer, Parakeet!parakeetVars,
         Parakeet!bufferedVars
<1>2. committed' \in Nat /\ committed' <= fed
  <2>1. /\ committed \in Nat /\ nextRead \in Nat /\ committed <= fed /\ nextRead <= pcm
        /\ pcm = fed
    BY <1>1, BufferedNumbers DEF ParakeetBuffer, BufferedCursors
  <2> QED  BY <1>1, <2>1
<1>3. ParakeetBuffer'
  BY <1>1, <1>2 DEF ParakeetBuffer, Parakeet!Menu
<1>4. Parakeet!BufferedDue' = Parakeet!BufferedDue /\ WindowPlaced' = WindowPlaced
  BY <1>1 DEF Parakeet!BufferedDue, Parakeet!NumNew, WindowPlaced, Parakeet!NoContext
<1>5. BufferedCursors'
  BY <1>1, <1>2, <1>4 DEF BufferedCursors
<1> QED  BY <1>1, <1>3, <1>5 DEF BufferedKept, Parakeet!TailDecoded

\* What has not been read when finalize is called is less than a step.
LEMMA LessThanAStep ==
  ASSUME ParakeetBuffer, BufferedCursors, path = "buffered", stream = "ACTIVE",
         call = "finalize"
  PROVE  pcm - nextRead \in Nat /\ pcm - nextRead < Parakeet!NumNew
<1>1. /\ nextRead \in Nat /\ pcm \in Nat /\ Parakeet!NumNew \in Nat
  BY BufferedNumbers
<1>2. nextRead <= pcm /\ ~Parakeet!BufferedDue
  BY DEF BufferedCursors
<1>3. ~(nextRead + Parakeet!NumNew <= pcm)
  BY <1>2 DEF Parakeet!BufferedDue
<1> QED  BY <1>1, <1>2, <1>3

\* Finalize reads what is left, or leaves the right context of the last window.
LEMMA BufferedFinalizes ==
  ASSUME ParakeetBuffer, BufferedCursors, path = "buffered", path' = path,
         Parakeet!FinalizeBuffered
  PROVE  BufferedKept'
<1>1. /\ call = "finalize" /\ stream = "ACTIVE" /\ stream' = "FINISHED" /\ call' = "none"
      /\ committed' = input /\ UNCHANGED <<fed, input, pcm, pcmStart, geom>>
  BY DEF Parakeet!FinalizeBuffered, Parakeet!Finishes, ParakeetBuffer
<1>2. /\ fed \in Nat /\ pcm = fed /\ input = fed /\ nextRead \in Nat /\ decoded \in Nat
      /\ frameOffset \in Nat /\ nextRead <= pcm /\ initialized \in BOOLEAN
      /\ {ctx.left, ctx.chunk, ctx.right} \subseteq Nat
  BY <1>1, BufferedNumbers DEF BufferedCursors
<1>3. Hop \in Nat \ {0} /\ Parakeet!Frame \in Nat \ {0}
  BY ParakeetGeometry
<1>4. ParakeetBuffer'
  BY <1>1, <1>2 DEF ParakeetBuffer, Parakeet!Menu
<1>5. CASE nextRead < pcm
  <2> DEFINE d == pcm - nextRead
             c == Parakeet!AddFrames(d, TRUE)
             n == Parakeet!ToDecode(c, TRUE)
             s == Parakeet!DecodeStart(c, d)
  <2>1. /\ ctx' = c /\ nextRead' = nextRead + d /\ initialized' = TRUE
        /\ frameOffset' = frameOffset + n
        /\ decoded' = IF n = 0 THEN decoded ELSE s + n * Parakeet!Frame
        /\ Parakeet!MelFrames(Parakeet!Window(c)) > 0
    BY <1>5 DEF Parakeet!FinalizeBuffered, Parakeet!EmitBuffered
  <2>2. d \in Nat /\ d < Parakeet!NumNew
    BY <1>1, LessThanAStep
  <2> HIDE DEF d
  <2>3. c.left \in Nat /\ c.chunk \in Nat /\ c.right = 0
    BY <1>1, <2>2, LastAdded
  <2>4. /\ s \in Int
        /\ n \in Nat \ {0} /\ s + n * Parakeet!Frame > nextRead + d
    BY <1>1, <2>1, <2>2, LastDecodes
  <2> HIDE DEF c, n, s
  <2>5. nextRead + d = fed
    BY <1>2 DEF d
  <2>6. frameOffset' \in Nat /\ nextRead' \in Nat
    BY <1>2, <2>1, <2>4, <2>5
  <2>7. decoded' \in Nat /\ decoded' >= input'
    <3>1. n * Parakeet!Frame \in Int
      BY <1>3, <2>4
    <3> QED  BY <1>1, <1>2, <2>1, <2>4, <2>5, <3>1
  <2>8. BufferedCursors'
    BY <1>1, <2>1, <2>3, <2>6, <2>7 DEF BufferedCursors
  <2> QED  BY <1>4, <2>7, <2>8 DEF BufferedKept, Parakeet!TailDecoded
<1>6. CASE ~(nextRead < pcm)
  <2>1. UNCHANGED <<frameOffset, nextRead, ctx, initialized, decoded>>
    BY <1>6 DEF Parakeet!FinalizeBuffered, Parakeet!bufferedVars
  <2>2. nextRead = fed
    BY <1>2, <1>6
  <2>3. BufferedCursors'
    BY <1>1, <1>2, <2>1 DEF BufferedCursors
  <2>4. ASSUME input' >= Hop  PROVE decoded' + geom'.right * Parakeet!Frame' = input'
    <3>1. initialized
      BY <1>1, <1>2, <1>3, <2>2, <2>4 DEF BufferedCursors, WindowPlaced
    <3>2. decoded + ctx.right = nextRead /\ ctx.right = geom.right * Parakeet!Frame
      BY <1>1, <3>1 DEF BufferedCursors, WindowPlaced
    <3> QED  BY <1>1, <1>2, <2>1, <2>2, <3>2 DEF Parakeet!Frame
  <2> QED  BY <1>1, <1>2, <1>4, <2>1, <2>2, <2>3, <2>4 DEF BufferedKept, Parakeet!TailDecoded
<1> QED  BY <1>5, <1>6

\* The steps that begin, feed, end or interrupt a buffered stream.
LEMMA BufferedTurns ==
  ASSUME BufferedKept, path = "buffered", path' = path, path \in Paths,
         \/ Parakeet!BeginBuffered \/ \E n \in Feeds[path] : Parakeet!Feed(n)
         \/ Parakeet!Finalize \/ Parakeet!FailsBuffered \/ Parakeet!Reset
  PROVE  BufferedKept'
<1>1. ParakeetBuffer /\ BufferedCursors
  BY DEF BufferedKept
<1>2. /\ {frameOffset, nextRead, decoded, ctx.left, ctx.chunk, ctx.right} \subseteq Nat
      /\ initialized \in BOOLEAN
  BY <1>1 DEF BufferedCursors
<1>3. Parakeet!Frame \in Nat \ {0} /\ Parakeet!Frame' = Parakeet!Frame
  BY ParakeetGeometry DEF Parakeet!Frame
<1>4. CASE Parakeet!BeginBuffered
  <2>1. \E g \in Parakeet!Menu : Parakeet!Begin(g)
    BY <1>4 DEF Parakeet!BeginBuffered, Parakeet!Menu
  <2>2. ParakeetBuffer'
    BY <1>1, <2>1, ParakeetTurns
  <2>3. /\ stream' = "ACTIVE" /\ call' = "none" /\ fed' = 0 /\ committed' = 0
        /\ pcm' = 0 /\ pcmStart' = 0 /\ frameOffset' = 0
        /\ nextRead' = 0 /\ ctx' = Parakeet!NoContext /\ initialized' = FALSE
        /\ decoded' = 0 /\ geom' \in BufferedMenu
    BY <1>1, <1>4 DEF Parakeet!BeginBuffered, Parakeet!Begin, Parakeet!Begins, ParakeetBuffer
  <2>4. ctx'.left = 0 /\ ctx'.chunk = 0 /\ ctx'.right = 0
    BY <2>3 DEF Parakeet!NoContext
  <2>5. ~Parakeet!BufferedDue'
    <3>1. {geom'.left, geom'.right} \subseteq Nat /\ geom'.chunk \in Nat \ {0}
      BY <2>3, GeometryAssumption
    <3>2. Parakeet!NumNew' = (geom'.chunk + geom'.right) * Parakeet!Frame
      BY <1>3, <2>3 DEF Parakeet!NumNew
    <3> DEFINE more == geom'.chunk + geom'.right
    <3>3. more \in Nat \ {0}
      BY <3>1
    <3> HIDE DEF more
    <3>4. 1 * Parakeet!Frame <= more * Parakeet!Frame /\ 1 * Parakeet!Frame = Parakeet!Frame
          /\ more * Parakeet!Frame \in Int
      BY <1>3, <3>3, Scaled
    <3>5. more * Parakeet!Frame > 0
      BY <1>3, <3>4
    <3>6. Parakeet!NumNew' = more * Parakeet!Frame
      BY <3>2 DEF more
    <3> QED  BY <2>3, <3>4, <3>5, <3>6 DEF Parakeet!BufferedDue
  <2>6. 0 * Parakeet!Frame' = 0
    BY <1>3
  <2>7. WindowPlaced'
    BY <2>3 DEF WindowPlaced, Parakeet!NoContext
  <2>8. BufferedCursors'
    <3>1. {frameOffset', nextRead', decoded', ctx'.left, ctx'.chunk, ctx'.right} \subseteq Nat
      <4>1. frameOffset' = 0 /\ nextRead' = 0 /\ decoded' = 0
        BY <2>3
      <4> QED  BY <2>4, <4>1
    <3>3. initialized' \in BOOLEAN
      BY <2>3
    <3>2. frameOffset' * Parakeet!Frame' = decoded' /\ pcmStart' = 0 /\ nextRead' <= pcm'
          /\ committed' <= fed'
      BY <2>3, <2>6
    <3> QED  BY <2>5, <2>7, <3>1, <3>2, <3>3 DEF BufferedCursors
  <2> QED  BY <2>2, <2>3, <2>8 DEF BufferedKept, Parakeet!TailDecoded
<1>5. CASE \E n \in Feeds[path] : Parakeet!Feed(n)
  <2>1. PICK n \in Feeds[path] : Parakeet!Feed(n)
    BY <1>5
  <2>2. n \in Nat
    BY FeedsAreCounts
  <2>3. /\ stream = "ACTIVE" /\ stream' = "ACTIVE" /\ call' = "feed" /\ fed' = fed + n
        /\ pcm' = pcm + n
        /\ UNCHANGED <<geom, committed, frameOffset, pcmStart, nextRead, ctx, initialized,
                      decoded>>
    BY <2>1 DEF Parakeet!Feed, Parakeet!Appends, Parakeet!parakeetVars, Parakeet!bufferedVars
  <2>4. ParakeetBuffer'
    BY <1>1, <1>5, ParakeetTurns
  <2>5. /\ fed \in Nat /\ pcm \in Nat /\ committed \in Nat /\ nextRead \in Nat
        /\ nextRead <= pcm /\ committed <= fed
    BY <1>1, <1>2, <2>3 DEF ParakeetBuffer, BufferedCursors
  <2>6. nextRead' <= pcm' /\ committed' <= fed'
    BY <2>2, <2>3, <2>5
  <2>7. WindowPlaced' = WindowPlaced
    BY <2>3 DEF WindowPlaced, Parakeet!NoContext, Parakeet!Frame
  <2>8. BufferedCursors'
    BY <1>1, <1>3, <2>3, <2>6, <2>7 DEF BufferedCursors
  <2> QED  BY <2>3, <2>4, <2>8 DEF BufferedKept, Parakeet!TailDecoded
<1>6. CASE Parakeet!Finalize
  <2>1. /\ stream = "ACTIVE" /\ call = "none" /\ stream' = "ACTIVE" /\ call' = "finalize"
        /\ UNCHANGED <<fed, committed, pcm, pcmStart, geom, frameOffset, nextRead, ctx,
                      initialized, decoded>>
    BY <1>6 DEF Parakeet!Finalize, Parakeet!FinalizeStarts, Parakeet!parakeetVars,
                Parakeet!bufferedVars
  <2>2. ParakeetBuffer'
    BY <1>1, <1>6, ParakeetTurns
  <2>3. Parakeet!BufferedDue' = Parakeet!BufferedDue /\ WindowPlaced' = WindowPlaced
    BY <2>1 DEF Parakeet!BufferedDue, Parakeet!NumNew, WindowPlaced, Parakeet!NoContext,
                Parakeet!Frame
  <2>4. BufferedCursors'
    BY <1>1, <1>3, <2>1, <2>3 DEF BufferedCursors
  <2> QED  BY <2>1, <2>2, <2>4 DEF BufferedKept, Parakeet!TailDecoded
<1>7. CASE Parakeet!FailsBuffered
  <2>1. /\ Parakeet!Fails /\ stream = "ACTIVE" /\ stream' = "FAILED"
        /\ UNCHANGED <<frameOffset, nextRead, initialized, decoded>>
    BY <1>1, <1>7 DEF Parakeet!FailsBuffered, Parakeet!Fails, Parakeet!HookFails,
                      ParakeetBuffer
  <2>2. ParakeetBuffer'
    BY <1>1, <2>1, ParakeetTurns
  <2>3. ctx'.left \in Nat /\ ctx'.chunk \in Nat /\ ctx'.right \in Nat
    <3>1. CASE ctx' = ctx
      BY <1>2, <3>1
    <3>2. CASE ctx' = Parakeet!AddFrames(Parakeet!NumNew, FALSE)
      BY <1>1, <2>1, <3>2, ChunkAdded
    <3>3. CASE call = "finalize" /\ ctx' = Parakeet!AddFrames(pcm - nextRead, TRUE)
      <4>1. pcm - nextRead \in Nat /\ pcm - nextRead < Parakeet!NumNew
        BY <1>1, <2>1, <3>3, LessThanAStep
      <4> DEFINE d == pcm - nextRead
                 c == Parakeet!AddFrames(d, TRUE)
      <4> HIDE DEF d
      <4>2. c.left \in Nat /\ c.chunk \in Nat /\ c.right = 0
        BY <1>1, <2>1, <4>1, LastAdded DEF d
      <4>3. ctx' = c
        BY <3>3 DEF d
      <4> HIDE DEF c
      <4> QED  BY <4>2, <4>3
    <3> QED  BY <1>7, <3>1, <3>2, <3>3 DEF Parakeet!FailsBuffered
  <2>4. BufferedCursors'
    BY <1>2, <2>1, <2>3 DEF BufferedCursors
  <2> QED  BY <2>1, <2>2, <2>4 DEF BufferedKept, Parakeet!TailDecoded
<1>8. CASE Parakeet!Reset
  <2>1. /\ stream' = "IDLE"
        /\ UNCHANGED <<frameOffset, nextRead, ctx, initialized, decoded>>
    BY <1>8 DEF Parakeet!Reset, Parakeet!Resets, Parakeet!parakeetVars, Parakeet!bufferedVars
  <2>2. ParakeetBuffer'
    BY <1>1, <1>8, ParakeetTurns
  <2>3. BufferedCursors'
    BY <1>2, <2>1 DEF BufferedCursors
  <2> QED  BY <2>1, <2>2, <2>3 DEF BufferedKept, Parakeet!TailDecoded
<1> QED  BY <1>4, <1>5, <1>6, <1>7, <1>8

\* What the hooks of a buffered stream do.
LEMMA BufferedSteps ==
  ASSUME BufferedKept, path = "buffered", path' = path, path \in Paths,
         Parakeet!ParakeetNext
  PROVE  BufferedKept'
<1>1. ParakeetBuffer /\ BufferedCursors
  BY DEF BufferedKept
<1>2. CASE Parakeet!FeedChunkBuffered
  BY <1>1, <1>2, BufferedChunks
<1>3. CASE Parakeet!FeedEndsBuffered
  BY <1>1, <1>3, BufferedFeedEnds
<1>4. CASE Parakeet!FinalizeBuffered
  BY <1>1, <1>4, BufferedFinalizes
<1>5. CASE \/ Parakeet!BeginBuffered \/ \E n \in Feeds[path] : Parakeet!Feed(n)
           \/ Parakeet!Finalize \/ Parakeet!FailsBuffered \/ Parakeet!Reset
  BY <1>5, BufferedTurns
<1>6. ~Parakeet!BeginCached /\ ~Parakeet!FeedChunkCached /\ ~Parakeet!FeedEndsCached
      /\ ~Parakeet!FinalizeCached /\ ~Parakeet!FailsCached
  BY DEF Parakeet!BeginCached, Parakeet!FeedChunkCached, Parakeet!FeedEndsCached,
         Parakeet!FinalizeCached, Parakeet!FailsCached
<1> QED  BY <1>2, <1>3, <1>4, <1>5, <1>6 DEF Parakeet!ParakeetNext

\* The steps of the buffered path lie in the audio and follow each other.
LEMMA BufferedTiles ==
  ASSUME path \in {"cached", "buffered"}, BufferedKept
  PROVE  Parakeet!ChunksTile
<1> DEFINE last    == call = "finalize"
           num_new == IF last THEN pcm - nextRead ELSE Parakeet!NumNew
           c       == Parakeet!AddFrames(num_new, last)
           start   == Parakeet!DecodeStart(c, num_new)
<1> SUFFICES ASSUME path = "buffered", stream = "ACTIVE",
                    (call = "feed" /\ Parakeet!BufferedDue) \/ (last /\ nextRead < pcm)
             PROVE  /\ Parakeet!WindowStart(c, num_new) >= 0
                    /\ start <= decoded
                    /\ decoded - start < IF last THEN Parakeet!Frame ELSE 1
  BY Zenon DEF Parakeet!ChunksTile
<1>1. ParakeetBuffer /\ BufferedCursors
  BY DEF BufferedKept
<1>2. decoded \in Nat
  BY <1>1, BufferedNumbers
<1>3. CASE last
  <2> DEFINE d == pcm - nextRead
  <2>1. num_new = d /\ last = TRUE
    BY <1>3
  <2>2. d \in Nat /\ d < Parakeet!NumNew
    BY <1>1, <1>3, LessThanAStep
  <2>3. /\ Parakeet!WindowStart(Parakeet!AddFrames(d, TRUE), d) >= 0
        /\ Parakeet!DecodeStart(Parakeet!AddFrames(d, TRUE), d) <= decoded
        /\ decoded - Parakeet!DecodeStart(Parakeet!AddFrames(d, TRUE), d) < Parakeet!Frame
    <3> HIDE DEF d
    <3> QED  BY <1>1, <2>2, LastDecodes
  <2>4. c = Parakeet!AddFrames(d, TRUE)
    <3> HIDE DEF d, num_new, last
    <3> QED  BY <2>1
  <2>5. start = Parakeet!DecodeStart(Parakeet!AddFrames(d, TRUE), d)
        /\ Parakeet!WindowStart(c, num_new)
             = Parakeet!WindowStart(Parakeet!AddFrames(d, TRUE), d)
    <3> HIDE DEF d, num_new, last, c
    <3> QED  BY <2>1, <2>4
  <2> HIDE DEF d, num_new, c, start
  <2> QED  BY <1>3, <2>3, <2>5
<1>4. CASE ~last
  <2>1. num_new = Parakeet!NumNew /\ last = FALSE
    BY <1>4
  <2>2. /\ Parakeet!WindowStart(Parakeet!AddFrames(Parakeet!NumNew, FALSE),
                                Parakeet!NumNew) >= 0
        /\ Parakeet!DecodeStart(Parakeet!AddFrames(Parakeet!NumNew, FALSE),
                                Parakeet!NumNew) = decoded
    BY <1>1, ChunkDecodes
  <2>3. c = Parakeet!AddFrames(Parakeet!NumNew, FALSE)
    <3> HIDE DEF num_new, last
    <3> QED  BY <2>1
  <2>4. start = decoded /\ Parakeet!WindowStart(c, num_new) >= 0
    <3> HIDE DEF num_new, last, c
    <3> QED  BY <2>1, <2>2, <2>3
  <2> HIDE DEF num_new, c, start
  <2> QED  BY <1>2, <1>4, <2>4
<1> QED  BY <1>3, <1>4

-----------------------------------------------------------------------------
(* The steps of every family *)

\* No step changes the model.
LEMMA PathStays ==
  ASSUME [Next]_vars
  PROVE  path' = path
<1>1. CASE UNCHANGED vars
  BY <1>1 DEF vars, cursors
<1>2. CASE Parakeet!ParakeetNext
  <2>1. CASE Parakeet!BeginCached \/ Parakeet!BeginBuffered \/ Parakeet!Reset
    BY <2>1 DEF Parakeet!BeginCached, Parakeet!BeginBuffered, Parakeet!Begin,
                Parakeet!Begins, Parakeet!Reset, Parakeet!Resets
  <2>2. CASE \E n \in Feeds[path] : Parakeet!Feed(n)
    BY <2>2 DEF Parakeet!Feed, Parakeet!Appends
  <2>3. CASE \/ Parakeet!FeedChunkCached \/ Parakeet!FeedEndsCached
             \/ Parakeet!FeedChunkBuffered \/ Parakeet!FeedEndsBuffered
    BY <2>3 DEF Parakeet!FeedChunkCached, Parakeet!FeedEndsCached, Parakeet!cursors,
                Parakeet!FeedChunkBuffered, Parakeet!FeedEndsBuffered
  <2>4. CASE \/ Parakeet!Finalize \/ Parakeet!FinalizeCached
             \/ Parakeet!FinalizeBuffered
    BY <2>4 DEF Parakeet!Finalize, Parakeet!FinalizeStarts, Parakeet!Finishes,
                Parakeet!FinalizeCached, Parakeet!FinalizeBuffered
  <2>5. CASE Parakeet!FailsCached \/ Parakeet!FailsBuffered
    BY <2>5 DEF Parakeet!FailsCached, Parakeet!FailsBuffered, Parakeet!Fails,
                Parakeet!HookFails
  <2> QED  BY <1>2, <2>1, <2>2, <2>3, <2>4, <2>5 DEF Parakeet!ParakeetNext
<1>3. CASE Moonshine!MoonshineNext
  <2>1. CASE Moonshine!Begin \/ Moonshine!Reset
    BY <2>1 DEF Moonshine!Begin, Moonshine!Begins, Moonshine!Reset, Moonshine!Resets
  <2>2. CASE \E n \in Feeds[path] : Moonshine!Feed(n)
    BY <2>2 DEF Moonshine!Feed, Moonshine!Appends
  <2>3. CASE \/ Moonshine!FeedFlushes \/ Moonshine!FeedEnds
             \/ Moonshine!FinalizeFlushes
    BY <2>3 DEF Moonshine!FeedFlushes, Moonshine!FeedEnds, Moonshine!FinalizeFlushes
  <2>4. CASE \/ Moonshine!Finalize \/ Moonshine!FinalizeEmpty
             \/ Moonshine!FinalizeEnds
    BY <2>4 DEF Moonshine!Finalize, Moonshine!FinalizeStarts, Moonshine!Finishes,
                Moonshine!FinalizeEmpty, Moonshine!FinalizeEnds
  <2>5. CASE Moonshine!Fails \/ Moonshine!FeedAborts
    BY <2>5 DEF Moonshine!Fails, Moonshine!HookFails, Moonshine!FeedAborts,
                Moonshine!AbortsAtOnce
  <2> QED  BY <1>3, <2>1, <2>2, <2>3, <2>4, <2>5 DEF Moonshine!MoonshineNext
<1>4. CASE Voxtral!VoxtralNext
  <2>1. CASE Voxtral!Begin \/ Voxtral!Reset
    BY <2>1 DEF Voxtral!Begin, Voxtral!Begins, Voxtral!Reset, Voxtral!Resets
  <2>2. CASE \E n \in Feeds[path] : Voxtral!Feed(n)
    BY <2>2 DEF Voxtral!Feed, Voxtral!Appends
  <2>3. CASE \/ Voxtral!ComputeMel \/ Voxtral!EncodeBatch \/ Voxtral!ReadPrompt
             \/ Voxtral!DecodeToken \/ Voxtral!Publish \/ Voxtral!FeedEnds
    BY <2>3 DEF Voxtral!ComputeMel, Voxtral!EncodeBatch, Voxtral!ReadPrompt,
                Voxtral!DecodeToken, Voxtral!Publish, Voxtral!FeedEnds,
                Voxtral!cursors
  <2>4. CASE Voxtral!Finalize \/ Voxtral!FinalizeEnds
    BY <2>4 DEF Voxtral!Finalize, Voxtral!FinalizeStarts, Voxtral!Finishes,
                Voxtral!FinalizeEnds
  <2>5. CASE Voxtral!Fails \/ Voxtral!Aborts
    BY <2>5 DEF Voxtral!Fails, Voxtral!HookFails, Voxtral!Aborts,
                Voxtral!AbortsAtOnce
  <2> QED  BY <1>4, <2>1, <2>2, <2>3, <2>4, <2>5 DEF Voxtral!VoxtralNext
<1> QED  BY <1>1, <1>2, <1>3, <1>4 DEF Next
===============================================================================
