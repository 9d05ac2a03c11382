-------------------------- MODULE StreamChunkProofs --------------------------
(***************************************************************************)
(* What a stream of any family keeps, for every geometry that the comments *)
(* of the families allow.  First voxtral: its encoder's ring never loses a *)
(* frame that is still attended to, its three units of time agree, and its *)
(* windows, its backlog and its end are as promised.  Then the properties  *)
(* of StreamChunks, from these and from what CursorProofs says of          *)
(* moonshine and parakeet.                                                 *)
(***************************************************************************)
EXTENDS CursorProofs

-----------------------------------------------------------------------------
(* Arithmetic *)

\* The smaller one of two numbers.
LEMMA VoxtralMin ==
  ASSUME NEW a \in Int, NEW b \in Int
  PROVE  /\ Voxtral!Min({a, b}) \in {a, b}
         /\ Voxtral!Min({a, b}) <= a
         /\ Voxtral!Min({a, b}) <= b
BY MinOfTwo, SharedOperators

\* The larger one of two numbers.
LEMMA VoxtralMax ==
  ASSUME NEW a \in Int, NEW b \in Int
  PROVE  /\ Voxtral!Max({a, b}) \in {a, b}
         /\ Voxtral!Max({a, b}) >= a
         /\ Voxtral!Max({a, b}) >= b
BY MaxOfTwo, SharedOperators

\* What NonNeg returns.
LEMMA VoxtralNonNeg ==
  ASSUME NEW a \in Int
  PROVE  /\ Voxtral!NonNeg(a) \in Nat
         /\ Voxtral!NonNeg(a) >= a
         /\ a >= 0 => Voxtral!NonNeg(a) = a
         /\ a <= 0 => Voxtral!NonNeg(a) = 0
BY NonNegIs, SharedOperators

-----------------------------------------------------------------------------
(* The ring of voxtral's encoder *)

\* The frames that the ring holds are the last ones, each at its position; it
\* holds all of them, or at least the encoder's window.
RingKept ==
  /\ {toEncode, encDone, absBase} \subseteq Nat
  /\ slot \in 0 .. RingSlots
  /\ absBase + slot = encDone
  /\ absBase = 0 \/ EncWindow <= slot
  /\ DOMAIN ring = 0 .. RingSlots - 1
  /\ \A s \in 0 .. slot - 1 : ring[s] = absBase + s

\* What the ring's invariant speaks of.
ringVars == <<toEncode, encDone, ring, slot, absBase>>

\* The part of the assumptions that the ring needs.
LEMMA Geometry ==
  /\ {RingSlots, EncWindow, MaxBatch} \subseteq Nat \ {0}
  /\ MaxBatch + EncWindow <= RingSlots
BY VoxtralAssumption

\* A batch is part of what is to be encoded, and no more than the ring's reserve.
LEMMA BatchBounded ==
  ASSUME RingKept
  PROVE  /\ Voxtral!Batch \in Nat
         /\ Voxtral!Batch <= MaxBatch
         /\ Voxtral!Batch <= toEncode
<1>1. toEncode \in Nat /\ MaxBatch \in Nat
  BY Geometry DEF RingKept
<1>2. /\ Voxtral!Min({toEncode, MaxBatch}) \in {toEncode, MaxBatch}
      /\ Voxtral!Min({toEncode, MaxBatch}) <= toEncode
      /\ Voxtral!Min({toEncode, MaxBatch}) <= MaxBatch
  BY <1>1, VoxtralMin
<1> QED  BY <1>1, <1>2 DEF Voxtral!Batch

\* Making room keeps what the invariant says of the ring, and leaves room.
LEMMA RoomKept ==
  ASSUME RingKept
  PROVE  /\ Voxtral!Room.slot \in Nat
         /\ Voxtral!Room.base \in Nat
         /\ Voxtral!Room.slot + Voxtral!Batch <= RingSlots
         /\ Voxtral!Room.base + Voxtral!Room.slot = encDone
         /\ Voxtral!Room.base = 0 \/ EncWindow <= Voxtral!Room.slot
         /\ DOMAIN Voxtral!Room.ring = 0 .. RingSlots - 1
         /\ \A s \in 0 .. Voxtral!Room.slot - 1 :
              Voxtral!Room.ring[s] = Voxtral!Room.base + s
<1> DEFINE B == Voxtral!Batch
<1>1. /\ B \in Nat /\ B <= MaxBatch
      /\ slot \in Nat /\ absBase \in Nat
      /\ absBase + slot = encDone
      /\ slot <= RingSlots
  BY BatchBounded, Geometry DEF RingKept
<1> HIDE DEF B
<1>2. CASE ~(slot + B > RingSlots)
  <2>1. Voxtral!Room = [ring |-> ring, slot |-> slot, base |-> absBase]
    BY <1>2 DEF Voxtral!Room, B
  <2> QED  BY <1>1, <1>2, <2>1, Geometry DEF RingKept, B
<1>3. CASE slot + B > RingSlots
  <2>1. EncWindow < slot
    BY <1>1, <1>3, Geometry
  <2>2. Voxtral!Min({slot, EncWindow}) = EncWindow
    <3>1. slot \in Int /\ EncWindow \in Int
      BY <1>1, Geometry
    <3>2. /\ Voxtral!Min({slot, EncWindow}) \in {slot, EncWindow}
          /\ Voxtral!Min({slot, EncWindow}) <= EncWindow
      BY <3>1, VoxtralMin
    <3> QED  BY <2>1, <3>1, <3>2
  <2>3. Voxtral!Room = Voxtral!Compacted
    BY <1>3 DEF Voxtral!Room, B
  <2>4. /\ Voxtral!Room.slot = EncWindow
        /\ Voxtral!Room.base = absBase + slot - EncWindow
        /\ Voxtral!Room.ring =
             [s \in DOMAIN ring |->
                IF s < EncWindow THEN ring[slot - EncWindow + s] ELSE ring[s]]
    BY <2>2, <2>3 DEF Voxtral!Compacted
  <2>5. \A s \in 0 .. EncWindow - 1 :
          Voxtral!Room.ring[s] = absBase + slot - EncWindow + s
    <3> SUFFICES ASSUME NEW s \in 0 .. EncWindow - 1
                 PROVE  Voxtral!Room.ring[s] = absBase + slot - EncWindow + s
      OBVIOUS
    <3> EncWindow \in Nat /\ EncWindow <= RingSlots /\ RingSlots \in Nat
      <4>1. {RingSlots, EncWindow, MaxBatch} \subseteq Nat
        BY Geometry
      <4> QED  BY <4>1, Geometry
    <3>1. s \in DOMAIN ring
      BY DEF RingKept
    <3>4. slot - EncWindow + s \in 0 .. slot - 1
      BY <1>1, <2>1
    <3>2. ring[slot - EncWindow + s] = absBase + (slot - EncWindow + s)
      BY <3>4 DEF RingKept
    <3>3. Voxtral!Room.ring[s] = ring[slot - EncWindow + s]
      BY <2>4, <3>1, Geometry
    <3> QED  BY <1>1, <3>2, <3>3, Geometry
  <2>6. DOMAIN Voxtral!Room.ring = 0 .. RingSlots - 1
    BY <2>4 DEF RingKept
  <2>7. /\ Voxtral!Room.slot \in Nat
        /\ Voxtral!Room.base \in Nat
        /\ Voxtral!Room.slot + B <= RingSlots
        /\ Voxtral!Room.base + Voxtral!Room.slot = encDone
        /\ EncWindow <= Voxtral!Room.slot
    BY <1>1, <2>1, <2>4, Geometry
  <2>8. \A s \in 0 .. Voxtral!Room.slot - 1 :
          Voxtral!Room.ring[s] = Voxtral!Room.base + s
    BY <2>4, <2>5
  <2> QED  BY <2>6, <2>7, <2>8 DEF B
<1> QED  BY <1>2, <1>3

-----------------------------------------------------------------------------
(* What a batch, a failure and a begin do to it *)

\* A batch is appended at the write position.
LEMMA EncodeKeeps ==
  ASSUME RingKept, Voxtral!EncodeBatch
  PROVE  RingKept'
<1> DEFINE B == Voxtral!Batch
           R == Voxtral!Room
<1>1. /\ R.slot \in Nat /\ R.base \in Nat /\ R.slot + B <= RingSlots
      /\ R.base + R.slot = encDone
      /\ R.base = 0 \/ EncWindow <= R.slot
      /\ \A s \in 0 .. R.slot - 1 : R.ring[s] = R.base + s
  BY RoomKept
<1>2. B \in Nat /\ B <= toEncode /\ toEncode \in Nat /\ encDone \in Nat
  BY BatchBounded DEF RingKept
<1>3. /\ ring' = [s \in DOMAIN ring |->
                    IF s \in R.slot .. R.slot + B - 1
                      THEN encDone + s - R.slot ELSE R.ring[s]]
      /\ slot' = R.slot + B
      /\ absBase' = R.base
      /\ encDone' = encDone + B
      /\ toEncode' = toEncode - B
  BY DEF Voxtral!EncodeBatch
<1>4. DOMAIN ring = 0 .. RingSlots - 1 /\ RingSlots \in Nat /\ EncWindow \in Nat
  BY Geometry DEF RingKept
<1> HIDE DEF B, R
<1>5. \A s \in 0 .. slot' - 1 : ring'[s] = absBase' + s
  <2> SUFFICES ASSUME NEW s \in 0 .. slot' - 1
               PROVE  ring'[s] = absBase' + s
    OBVIOUS
  <2>4. s \in 0 .. R.slot + B - 1 /\ absBase' = R.base
    <3>1. slot' = R.slot + B /\ absBase' = R.base
      BY <1>3, Zenon
    <3> QED  BY <1>1, <1>2, <3>1
  <2>1. s \in DOMAIN ring
    BY <1>1, <1>2, <1>4, <2>4
  <2>2. CASE s < R.slot
    BY <1>1, <1>2, <1>3, <2>1, <2>2, <2>4
  <2>3. CASE s >= R.slot
    <3>1. s \in R.slot .. R.slot + B - 1
      BY <1>1, <1>2, <2>3, <2>4
    <3>2. ring'[s] = encDone + s - R.slot
      BY <1>3, <2>1, <3>1
    <3> QED  BY <1>1, <1>2, <2>4, <3>2
  <2> QED  BY <1>1, <2>2, <2>3, <2>4
<1>6. /\ toEncode' \in Nat /\ encDone' \in Nat /\ absBase' \in Nat
      /\ slot' \in 0 .. RingSlots
      /\ absBase' + slot' = encDone'
      /\ absBase' = 0 \/ EncWindow <= slot'
  <2>1. toEncode' \in Nat /\ encDone' \in Nat /\ absBase' \in Nat
    BY <1>1, <1>2, <1>3
  <2>2. slot' \in 0 .. RingSlots
    BY <1>1, <1>2, <1>3, <1>4
  <2>3. absBase' + slot' = encDone'
    BY <1>1, <1>2, <1>3
  <2>4. absBase' = 0 \/ EncWindow <= slot'
    BY <1>1, <1>2, <1>3, <1>4
  <2> QED  BY <2>1, <2>2, <2>3, <2>4
<1>7. DOMAIN ring' = 0 .. RingSlots - 1
  BY <1>3, <1>4
<1> QED  BY <1>5, <1>6, <1>7 DEF RingKept

\* An encoder that fails may have made room.
LEMMA FailKeeps ==
  ASSUME RingKept, Voxtral!Fails
  PROVE  RingKept'
<1>1. toEncode' = toEncode /\ encDone' = encDone
  BY DEF Voxtral!Fails
<1>2. CASE ring' = ring /\ slot' = slot /\ absBase' = absBase
  BY <1>1, <1>2 DEF RingKept
<1>3. CASE /\ ring' = Voxtral!Room.ring
           /\ slot' = Voxtral!Room.slot
           /\ absBase' = Voxtral!Room.base
  <2>1. Voxtral!Batch \in Nat
    BY BatchBounded
  <2>2. slot' \in 0 .. RingSlots
    BY <1>3, <2>1, RoomKept, Geometry
  <2> QED  BY <1>1, <1>3, <2>2, RoomKept DEF RingKept
<1> QED  BY <1>2, <1>3 DEF Voxtral!Fails

\* A ring that was cleared.
LEMMA EmptyKeeps ==
  ASSUME toEncode = 0, encDone = 0, slot = 0, absBase = 0,
         ring = Voxtral!EmptyRing
  PROVE  RingKept
BY Geometry DEF RingKept, Voxtral!EmptyRing

\* A step that clears it.
LEMMA ClearKeeps ==
  ASSUME toEncode' = 0, encDone' = 0, slot' = 0, absBase' = 0,
         ring' = Voxtral!EmptyRing
  PROVE  RingKept'
BY Geometry DEF RingKept, Voxtral!EmptyRing

-----------------------------------------------------------------------------
(* Numbers *)

\* The cursors from which a voxtral stream computes its mel window are numbers.
CursorsAreInts ==
  /\ path \in Paths
  /\ path = "voxtral" => {pcm, pcmStart, melDone, delay} \subseteq Int

\* What ComputeMel computes is a number.
LEMMA WindowNumbers ==
  ASSUME CursorsAreInts, path = "voxtral"
  PROVE  /\ Voxtral!Erased \in Nat
         /\ Voxtral!MelReady \in Int
         /\ Voxtral!NewMel \in Int
<1>1. pcm \in Int /\ pcmStart \in Int /\ melDone \in Int /\ delay \in Int
  BY DEF CursorsAreInts
<1>2. /\ Hop \in Nat \ {0} /\ Win \in Nat /\ Down \in Nat \ {0}
      /\ MelPerTok \in Nat \ {0} /\ LeftTokens \in Nat /\ RightTokens \in Nat
  <2>1. /\ {Hop, Down} \subseteq Nat \ {0}
        /\ {Win, LeftTokens, RightTokens} \subseteq Nat
    BY GeometryAssumption, VoxtralAssumption
  <2>2. MelPerTok = 2 * Down
    BY VoxtralAssumption
  <2> QED  BY <2>1, <2>2
<1>3. Voxtral!RawPerTok \in Nat \ {0}
  BY <1>2 DEF Voxtral!RawPerTok
<1>4. Voxtral!Left \in Nat
  BY <1>2, <1>3 DEF Voxtral!Left
<1>5. Voxtral!MelOff \in Nat
  <2>1. melDone - Voxtral!Guard \in Int
    BY <1>1 DEF Voxtral!Guard
  <2> QED  BY <2>1, VoxtralNonNeg DEF Voxtral!MelOff
<1>6. Voxtral!WinSample \in Nat
  BY <1>2, <1>5 DEF Voxtral!WinSample
<1>7. Voxtral!Erased \in Nat
  <2>1. Voxtral!WinSample - Voxtral!Left - pcmStart \in Int
    BY <1>1, <1>4, <1>6
  <2> QED  BY <2>1, VoxtralNonNeg DEF Voxtral!Erased
<1>8. Voxtral!TotalAbs \in Int
  <2>1. Voxtral!Audio \in Int
    BY <1>1 DEF Voxtral!Audio
  <2>2. Voxtral!CeilDiv(Voxtral!Audio, Voxtral!RawPerTok) \in Int
    BY <1>3, <2>1 DEF Voxtral!CeilDiv
  <2> DEFINE pads == Voxtral!CeilDiv(Voxtral!Audio, Voxtral!RawPerTok)
             raw == Voxtral!RawPerTok
  <2>3. pads * raw \in Int
    BY <1>3, <2>2
  <2>4. (delay + RightTokens) * raw \in Int
    BY <1>1, <1>2, <1>3
  <2> QED  BY <1>4, <2>1, <2>3, <2>4 DEF Voxtral!TotalAbs
<1>9. Voxtral!MelReady \in Int
  <2> DEFINE shown == Voxtral!MelOff + (Voxtral!TotalAbs - Voxtral!WinSample) \div Hop
             whole == (Voxtral!TotalAbs - Win) \div Hop + 1
  <2>1. shown \in Int /\ whole \in Int
    BY <1>2, <1>5, <1>6, <1>8
  <2>2. Voxtral!NonNeg(whole) \in Int
    BY <2>1, VoxtralNonNeg
  <2>3. Voxtral!Min({Voxtral!NonNeg(whole), shown}) \in Int
    BY <2>1, <2>2, VoxtralMin
  <2>4. Voxtral!MelReady = shown
          \/ Voxtral!MelReady = Voxtral!Min({Voxtral!NonNeg(whole), shown})
    BY DEF Voxtral!MelReady
  <2> QED  BY <2>1, <2>3, <2>4
<1>10. Voxtral!NewMel \in Int
  BY <1>1, <1>2, <1>9 DEF Voxtral!NewMel
<1> QED  BY <1>7, <1>9, <1>10

\* Cursors stay numbers.
LEMMA IntsKept ==
  ASSUME CursorsAreInts, [Next]_vars
  PROVE  CursorsAreInts'
<1>5. path' \in Paths
  BY PathStays DEF CursorsAreInts
<1> SUFFICES ASSUME path' = "voxtral"
             PROVE  pcm' \in Int /\ pcmStart' \in Int /\ melDone' \in Int /\ delay' \in Int
  BY <1>5 DEF CursorsAreInts
<1>1. path = "voxtral"
  BY PathStays
<1>2. pcm \in Int /\ pcmStart \in Int /\ melDone \in Int /\ delay \in Int
  BY <1>1 DEF CursorsAreInts
<1>3. CASE UNCHANGED vars
  BY <1>2, <1>3 DEF vars, cursors, voxtralVars
<1>4. CASE Voxtral!VoxtralNext
  <2>1. CASE Voxtral!Begin
    <3>1. delay' \in Delays
      BY <2>1 DEF Voxtral!Begin
    <3>2. pcm' = 0 /\ pcmStart' = 0 /\ melDone' = 0
      BY <2>1 DEF Voxtral!Begin, Voxtral!Begins
    <3> QED  BY <3>1, <3>2, VoxtralAssumption
  <2>2. CASE Voxtral!Reset
    BY <2>2 DEF Voxtral!Reset, Voxtral!Resets
  <2>3. CASE \E n \in Feeds[path] : Voxtral!Feed(n)
    <3>1. PICK n \in Feeds[path] : Voxtral!Feed(n)
      BY <2>3
    <3>2. n \in Int
      <4>1. path \in Paths
        BY DEF CursorsAreInts
      <4> QED  BY <3>1, <4>1, GeometryAssumption
    <3>3. pcm' = pcm + n /\ pcmStart' = pcmStart /\ melDone' = melDone /\ delay' = delay
      BY <3>1 DEF Voxtral!Feed, Voxtral!Appends, Voxtral!throttleVars,
                  Voxtral!encoderVars
    <3> QED  BY <1>2, <3>2, <3>3
  <2>4. CASE Voxtral!ComputeMel
    <3>1. Voxtral!Erased \in Nat /\ Voxtral!NewMel \in Int
      BY <1>1, WindowNumbers
    <3>2. Voxtral!NonNeg(Voxtral!NewMel) \in Nat
      BY <3>1, VoxtralNonNeg
    <3>3. delay' = delay
      BY <2>4 DEF Voxtral!ComputeMel, Voxtral!throttleVars
    <3>4. \/ pcm' = pcm /\ pcmStart' = pcmStart
          \/ pcm' = pcm - Voxtral!Erased /\ pcmStart' = pcmStart + Voxtral!Erased
      BY <2>4 DEF Voxtral!ComputeMel
    <3>5. melDone' = melDone \/ melDone' = melDone + Voxtral!NonNeg(Voxtral!NewMel)
      BY <2>4 DEF Voxtral!ComputeMel
    <3> QED  BY <1>2, <3>1, <3>2, <3>3, <3>4, <3>5
  <2>5. CASE \/ Voxtral!EncodeBatch \/ Voxtral!ReadPrompt \/ Voxtral!DecodeToken
             \/ Voxtral!Publish \/ Voxtral!FeedEnds
    BY <1>2, <2>5 DEF Voxtral!EncodeBatch, Voxtral!ReadPrompt, Voxtral!DecodeToken,
       Voxtral!Publish, Voxtral!FeedEnds, Voxtral!cursors, Voxtral!throttleVars,
       Voxtral!encoderVars
  <2>6. CASE Voxtral!Finalize \/ Voxtral!FinalizeEnds
    BY <1>2, <2>6 DEF Voxtral!Finalize, Voxtral!FinalizeStarts, Voxtral!Finishes,
       Voxtral!FinalizeEnds, Voxtral!throttleVars, Voxtral!encoderVars
  <2>7. CASE Voxtral!Aborts
    BY <1>2, <2>7 DEF Voxtral!Aborts, Voxtral!AbortsAtOnce, Voxtral!voxtralVars,
       Voxtral!throttleVars, Voxtral!encoderVars
  <2>8. CASE Voxtral!Fails
    <3>1. Voxtral!Erased \in Nat
      BY <1>1, WindowNumbers
    <3>2. melDone' = melDone /\ delay' = delay
      BY <2>8 DEF Voxtral!Fails, Voxtral!throttleVars
    <3>3. \/ pcm' = pcm /\ pcmStart' = pcmStart
          \/ pcm' = pcm - Voxtral!Erased /\ pcmStart' = pcmStart + Voxtral!Erased
      BY <2>8 DEF Voxtral!Fails
    <3> QED  BY <1>2, <3>1, <3>2, <3>3
  <2> QED
    BY <1>4, <2>1, <2>2, <2>3, <2>4, <2>5, <2>6, <2>7, <2>8
    DEF Voxtral!VoxtralNext
<1> QED  BY <1>1, <1>3, <1>4 DEF Next

\* A window of mel frames gives a natural number of frames to encode.
LEMMA MelKeeps ==
  ASSUME RingKept, CursorsAreInts, path = "voxtral", Voxtral!ComputeMel
  PROVE  RingKept'
<1>1. UNCHANGED <<encDone, ring, slot, absBase>>
  BY DEF Voxtral!ComputeMel
<1>2. toEncode' \in Nat
  <2>1. CASE toEncode' = toEncode
    BY <2>1 DEF RingKept
  <2>2. CASE toEncode' = Voxtral!NonNeg(Voxtral!NewMel) \div 2
    <3>1. Voxtral!NonNeg(Voxtral!NewMel) \in Nat
      BY WindowNumbers, VoxtralNonNeg
    <3>2. \A n \in Nat : n \div 2 \in Nat
      OBVIOUS
    <3> QED  BY <2>2, <3>1, <3>2
  <2> QED  BY <2>1, <2>2 DEF Voxtral!ComputeMel
<1> QED  BY <1>1, <1>2 DEF RingKept

-----------------------------------------------------------------------------
(* The ring in every step *)

\* What another family does leaves the ring alone, and so do voxtral's other
\* steps, but for begin and reset, which clear it, and the start of a batch.
LEMMA NextKeeps ==
  ASSUME RingKept, CursorsAreInts, [Next]_vars
  PROVE  RingKept'
<1>1. ASSUME UNCHANGED ringVars  PROVE RingKept'
  BY <1>1 DEF ringVars, RingKept
<1>2. CASE UNCHANGED vars
  <2>1. UNCHANGED ringVars
    BY <1>2 DEF vars, voxtralVars, ringVars
  <2> QED  BY <1>1, <2>1
<1>3. CASE UNCHANGED voxtralVars
  <2>1. UNCHANGED ringVars
    BY <1>3 DEF voxtralVars, ringVars
  <2> QED  BY <1>1, <2>1
<1>4. CASE path = "voxtral" /\ Voxtral!VoxtralNext
  <2>1. CASE Voxtral!Begin
    <3>1. /\ toEncode' = 0 /\ encDone' = 0 /\ slot' = 0 /\ absBase' = 0
          /\ ring' = Voxtral!EmptyRing
      BY <2>1 DEF Voxtral!Begin
    <3> QED  BY <3>1, ClearKeeps
  <2>2. CASE Voxtral!Reset
    <3>1. /\ toEncode' = 0 /\ encDone' = 0 /\ slot' = 0 /\ absBase' = 0
          /\ ring' = Voxtral!EmptyRing
      BY <2>2 DEF Voxtral!Reset
    <3> QED  BY <3>1, ClearKeeps
  <2>3. CASE Voxtral!ComputeMel
    BY <1>4, <2>3, MelKeeps
  <2>4. CASE Voxtral!EncodeBatch
    BY <2>4, EncodeKeeps
  <2>5. CASE Voxtral!Fails
    BY <2>5, FailKeeps
  <2>6. CASE \E n \in Feeds[path] : Voxtral!Feed(n)
    <3>1. UNCHANGED ringVars
      BY <2>6 DEF Voxtral!Feed, Voxtral!encoderVars, ringVars
    <3> QED  BY <1>1, <3>1
  <2>7. CASE Voxtral!ReadPrompt \/ Voxtral!DecodeToken \/ Voxtral!Publish
    <3>1. UNCHANGED ringVars
      BY <2>7 DEF Voxtral!ReadPrompt, Voxtral!DecodeToken, Voxtral!Publish,
                  Voxtral!encoderVars, ringVars
    <3> QED  BY <1>1, <3>1
  <2>8. CASE Voxtral!FeedEnds \/ Voxtral!Finalize \/ Voxtral!FinalizeEnds
    <3>1. UNCHANGED ringVars
      BY <2>8 DEF Voxtral!FeedEnds, Voxtral!Finalize, Voxtral!FinalizeEnds,
                  Voxtral!encoderVars, ringVars
    <3> QED  BY <1>1, <3>1
  <2>9. CASE Voxtral!Aborts
    <3>1. UNCHANGED ringVars
      BY <2>9 DEF Voxtral!Aborts, Voxtral!voxtralVars, Voxtral!encoderVars, ringVars
    <3> QED  BY <1>1, <3>1
  <2> QED
    BY <1>4, <2>1, <2>2, <2>3, <2>4, <2>5, <2>6, <2>7, <2>8, <2>9
    DEF Voxtral!VoxtralNext
<1> QED  BY <1>2, <1>3, <1>4 DEF Next

-----------------------------------------------------------------------------
(* What the ring keeps *)

\* The keys of a batch that is about to be written are all in the slots that it
\* reads.
LEMMA WindowIsRead ==
  ASSUME RingKept,
         NEW q \in encDone .. encDone + Voxtral!Batch - 1,
         NEW key \in Voxtral!NonNeg(q - EncWindow + 1) .. q
  PROVE  key - Voxtral!Room.base \in
           Voxtral!ReadStart .. Voxtral!Room.slot + Voxtral!Batch - 1
<1> DEFINE B == Voxtral!Batch
           at == Voxtral!Room.slot
           base == Voxtral!Room.base
           back == Voxtral!NonNeg(q - EncWindow + 1)
<1>1. /\ at \in Nat /\ base \in Nat /\ base + at = encDone
      /\ base = 0 \/ EncWindow <= at
  BY RoomKept
<1>2. B \in Nat /\ encDone \in Nat /\ EncWindow \in Nat \ {0}
  BY BatchBounded, Geometry DEF RingKept
<1>3. q \in Int /\ encDone <= q /\ q <= encDone + B - 1
  BY <1>2
<1>4. back \in Nat /\ back >= q - EncWindow + 1
  BY <1>2, <1>3, VoxtralNonNeg
<1>5. Voxtral!ReadStart = Voxtral!NonNeg(at - (EncWindow - 1))
  BY DEF Voxtral!ReadStart
<1>6. /\ at >= EncWindow - 1 => Voxtral!ReadStart = at - (EncWindow - 1)
      /\ at <= EncWindow - 1 => Voxtral!ReadStart = 0
  <2>1. at - (EncWindow - 1) \in Int
    BY <1>1, <1>2
  <2> HIDE DEF at
  <2>2. /\ at - (EncWindow - 1) >= 0 =>
             Voxtral!NonNeg(at - (EncWindow - 1)) = at - (EncWindow - 1)
        /\ at - (EncWindow - 1) <= 0 =>
             Voxtral!NonNeg(at - (EncWindow - 1)) = 0
    BY <2>1, VoxtralNonNeg
  <2> QED  BY <1>1, <1>2, <1>5, <2>2
<1>7. key \in Int /\ back <= key /\ key <= q
  BY <1>3, <1>4
<1> HIDE DEF B, at, base, back
<1>8. key - base <= at + B - 1
  BY <1>1, <1>2, <1>3, <1>7
<1>9. Voxtral!ReadStart \in Int /\ Voxtral!ReadStart <= key - base
  <2>1. CASE at >= EncWindow - 1
    BY <1>1, <1>2, <1>3, <1>4, <1>6, <1>7, <2>1
  <2>2. CASE at < EncWindow - 1
    <3>1. base = 0 /\ Voxtral!ReadStart = 0
      BY <1>1, <1>2, <1>6, <2>2
    <3> QED  BY <1>4, <1>7, <3>1
  <2> QED  BY <1>1, <1>2, <2>1, <2>2
<1> QED  BY <1>1, <1>2, <1>7, <1>8, <1>9 DEF B, at, base

\* Whatever the window of the encoder, the ring and the batches are, as long as
\* a batch and a window fit into the ring: when a batch is written there is room
\* for it, and every frame that it attends to is in a slot that is read, at the
\* position that the mask takes that slot for.
THEOREM RingNeverLoses == Spec => []RingHoldsWindow
<1>1. Init => RingKept /\ CursorsAreInts
  <2>1. Init => RingKept
    BY EmptyKeeps DEF Init, Voxtral!VoxtralInit
  <2>2. Init => CursorsAreInts
    BY DEF Init, CursorsInit, Voxtral!VoxtralInit, CursorsAreInts
  <2> QED  BY <2>1, <2>2
<1>2. RingKept /\ CursorsAreInts /\ [Next]_vars => RingKept' /\ CursorsAreInts'
  BY NextKeeps, IntsKept
<1>3. RingKept => RingHoldsWindow
  <2> SUFFICES ASSUME RingKept
               PROVE  /\ Voxtral!Room.slot + Voxtral!Batch <= RingSlots
                      /\ Voxtral!Room.base + Voxtral!Room.slot = encDone
                      /\ \A s \in Voxtral!ReadStart .. Voxtral!Room.slot - 1 :
                           Voxtral!Room.ring[s] = Voxtral!Room.base + s
                      /\ \A q \in encDone .. encDone + Voxtral!Batch - 1 :
                           \A key \in Voxtral!NonNeg(q - EncWindow + 1) .. q :
                             key - Voxtral!Room.base \in
                               Voxtral!ReadStart .. Voxtral!Room.slot + Voxtral!Batch - 1
    BY Zenon DEF RingHoldsWindow, Voxtral!RingHoldsWindow
  <2>1. Voxtral!ReadStart \in Nat
    <3>1. Voxtral!Room.slot - (EncWindow - 1) \in Int
      BY RoomKept, Geometry
    <3> QED  BY <3>1, VoxtralNonNeg DEF Voxtral!ReadStart
  <2>2. \A s \in Voxtral!ReadStart .. Voxtral!Room.slot - 1 :
          Voxtral!Room.ring[s] = Voxtral!Room.base + s
    <3>1. \A s \in Voxtral!ReadStart .. Voxtral!Room.slot - 1 :
            s \in 0 .. Voxtral!Room.slot - 1
      BY <2>1, RoomKept
    <3> QED  BY <3>1, RoomKept
  <2> QED  BY <2>2, RoomKept, WindowIsRead
<1> QED  BY <1>1, <1>2, <1>3, PTL DEF Spec

-----------------------------------------------------------------------------
(* Three units of time *)

\* A multiple of d, divided by it.
LEMMA DivideMultiple ==
  ASSUME NEW d \in Nat \ {0}, NEW k \in Nat
  PROVE  (d * k) \div d = k
BY Z3

\* A number that leaves no remainder is a multiple.
LEMMA MultipleOf ==
  ASSUME NEW n \in Nat, NEW d \in Nat \ {0}, n % d = 0
  PROVE  \E k \in Nat : n = d * k
<1> DEFINE k == n \div d
<1>1. k \in Nat
  OBVIOUS
<1>2. n % d = n - d * k
  OBVIOUS
<1> QED  BY <1>1, <1>2

\* Whole tokens.
WholeTokens(n) == \E k \in Nat : n = Down * k

\* A batch of the largest size is whole tokens.
LEMMA DownPositive == Down \in Nat \ {0} /\ MaxBatch \in Nat /\ WholeTokens(MaxBatch)
<1>1. Down \in Nat \ {0} /\ MaxBatch \in Nat /\ MaxBatch % Down = 0
  <2>1. {Down, MaxBatch} \subseteq Nat \ {0}
    BY VoxtralAssumption
  <2> QED  BY <2>1, VoxtralAssumption
<1> QED  BY <1>1, MultipleOf DEF WholeTokens

\* A window holds whole tokens' worth of frames, two mel frames for each.
LEMMA WindowIsWhole ==
  ASSUME CursorsAreInts, path = "voxtral"
  PROVE  /\ WholeTokens(Voxtral!NonNeg(Voxtral!NewMel) \div 2)
         /\ Voxtral!NonNeg(Voxtral!NewMel) = 2 * (Voxtral!NonNeg(Voxtral!NewMel) \div 2)
<1> DEFINE k == (Voxtral!MelReady - melDone) \div (2 * Down)
<1>1. Voxtral!NewMel = k * 2 * Down
  BY DEF Voxtral!NewMel
<1>2. Down \in Nat \ {0} /\ Voxtral!MelReady \in Int /\ melDone \in Int
  BY DownPositive, WindowNumbers DEF CursorsAreInts
<1>3. k \in Int
  BY <1>2
<1> HIDE DEF k
<1>4. CASE k >= 0
  <2>1. Down * k \in Nat /\ k * 2 * Down = 2 * (Down * k)
    BY <1>2, <1>3, <1>4
  <2>2. Voxtral!NonNeg(Voxtral!NewMel) = 2 * (Down * k)
    <3>1. Voxtral!NewMel \in Int /\ Voxtral!NewMel >= 0
      BY <1>1, <2>1
    <3> QED  BY <1>1, <2>1, <3>1, VoxtralNonNeg
  <2>3. (2 * (Down * k)) \div 2 = Down * k
    BY <2>1, DivideMultiple
  <2> QED  BY <1>3, <1>4, <2>2, <2>3 DEF WholeTokens
<1>5. CASE k < 0
  <2>1. k * 2 * Down \in Int /\ k * 2 * Down <= 0
    BY <1>2, <1>3, <1>5
  <2>2. Voxtral!NonNeg(Voxtral!NewMel) = 0
    BY <1>1, <2>1, VoxtralNonNeg
  <2>3. 0 \div 2 = 0 /\ 0 = Down * 0
    BY <1>2
  <2> QED  BY <2>2, <2>3 DEF WholeTokens
<1> QED  BY <1>3, <1>4, <1>5

\* While a stream runs, its cursors name one point in time, and the steps of a
\* call leave nothing for the next one.
InTime ==
  /\ {toEncode, encDone, tokReady, decPos, audioBase, delay} \subseteq Nat
  /\ clamp \in Int
  /\ WholeTokens(toEncode)
  /\ melDone = 2 * (encDone + toEncode)
  /\ encDone = Down * tokReady
  /\ step = "encode" \/ toEncode = 0
  /\ audioBase <= decPos /\ decPos <= tokReady
  /\ promptDone \/ decPos = 0

\* It holds of every stream of voxtral that runs.
KeepsTime == path = "voxtral" /\ stream = "ACTIVE" => InTime

\* A stream begins with nothing done.
LEMMA BeginInTime ==
  ASSUME Voxtral!Begin
  PROVE  InTime'
<1>1. /\ melDone' = 0 /\ toEncode' = 0 /\ encDone' = 0 /\ tokReady' = 0
      /\ audioBase' = 0 /\ decPos' = 0 /\ clamp' = -1 /\ delay' \in Delays
  BY DEF Voxtral!Begin
<1>3. delay' \in Nat
  BY <1>1, VoxtralAssumption
<1>2. 0 = Down * 0
  BY DownPositive
<1> QED  BY <1>1, <1>2, <1>3 DEF InTime, WholeTokens

\* New mel frames become frames to encode, and nothing is rounded away.
LEMMA MelInTime ==
  ASSUME CursorsAreInts, path = "voxtral", InTime, Voxtral!ComputeMel
  PROVE  InTime'
<1>1. UNCHANGED <<encDone, tokReady, audioBase, decPos, promptDone, delay>>
  BY DEF Voxtral!ComputeMel, Voxtral!throttleVars
<1>5. clamp' \in Int
  <2>1. Voxtral!MelReady \in Int /\ Down \in Nat \ {0}
    BY WindowNumbers, DownPositive
  <2>2. ((Voxtral!MelReady - 2) \div 2 + 1) \div Down \in Int
    BY <2>1
  <2> QED  BY <2>2 DEF InTime, Voxtral!ComputeMel
<1>2. toEncode = 0
  BY DEF InTime, Voxtral!ComputeMel
<1>3. CASE step' # "encode" /\ UNCHANGED <<melDone, toEncode>>
  BY <1>1, <1>2, <1>3, <1>5 DEF InTime, WholeTokens
<1>4. CASE /\ melDone' = melDone + Voxtral!NonNeg(Voxtral!NewMel)
           /\ toEncode' = Voxtral!NonNeg(Voxtral!NewMel) \div 2
           /\ step' = IF Voxtral!NewMel > 0 THEN "encode" ELSE "decode"
  <2> DEFINE new == Voxtral!NonNeg(Voxtral!NewMel)
  <2>1. new \in Nat /\ Voxtral!NewMel \in Int
    BY WindowNumbers, VoxtralNonNeg
  <2>2. WholeTokens(new \div 2) /\ new = 2 * (new \div 2)
    BY WindowIsWhole
  <2>3. new \div 2 \in Nat
    BY <2>1
  <2>4. step' = "encode" \/ new = 0
    BY <1>4, <2>1, VoxtralNonNeg
  <2> HIDE DEF new
  <2>5. toEncode' = new \div 2 /\ melDone' = melDone + new
    BY <1>4 DEF new
  <2>6. step' = "encode" \/ toEncode' = 0
    BY <2>4, <2>5
  <2>7. melDone' = 2 * (encDone' + toEncode')
    <3>1. melDone = 2 * (encDone + 0) /\ encDone \in Nat
      BY <1>2 DEF InTime
    <3> QED  BY <1>1, <2>1, <2>2, <2>3, <2>5, <3>1
  <2>8. WholeTokens(toEncode')
    BY <2>2, <2>5
  <2>9. WholeTokens(toEncode)'
    BY <2>8 DEF WholeTokens
  <2> QED  BY <1>1, <1>5, <2>3, <2>5, <2>6, <2>7, <2>9 DEF InTime
<1> QED  BY <1>3, <1>4 DEF Voxtral!ComputeMel

\* A batch is whole tokens.
LEMMA EncodeInTime ==
  ASSUME InTime, Voxtral!EncodeBatch
  PROVE  InTime'
<1> DEFINE B == Voxtral!Batch
<1>1. /\ encDone' = encDone + B
      /\ tokReady' = tokReady + B \div Down
      /\ toEncode' = toEncode - B
      /\ step' = IF toEncode' = 0 THEN "decode" ELSE "encode"
      /\ UNCHANGED <<melDone, audioBase, promptDone, decPos, delay, clamp>>
  BY DEF Voxtral!EncodeBatch, Voxtral!decoderVars, Voxtral!throttleVars
<1>2. /\ toEncode \in Nat /\ encDone \in Nat /\ tokReady \in Nat /\ decPos \in Nat
      /\ MaxBatch \in Nat /\ Down \in Nat \ {0}
  BY DownPositive DEF InTime
<1>3. B \in {toEncode, MaxBatch} /\ B <= toEncode
  BY <1>2, VoxtralMin DEF Voxtral!Batch
<1>4. PICK k \in Nat : toEncode = Down * k
  BY DEF InTime, WholeTokens
<1>5. PICK b \in Nat : B = Down * b
  <2>1. WholeTokens(MaxBatch) /\ WholeTokens(toEncode)
    BY DownPositive DEF InTime
  <2>2. WholeTokens(B)
    BY <1>3, <2>1
  <2> QED  BY <2>2 DEF WholeTokens
<1> HIDE DEF B
<1>6. B \div Down = b
  BY <1>2, <1>5, DivideMultiple
<1>7. B \in Nat
  BY <1>2, <1>3
<1>8. b <= k
  <2>1. Down * b <= Down * k
    BY <1>3, <1>4, <1>5
  <2> QED  BY <1>2, <2>1
<1>9. WholeTokens(toEncode)'
  <2>1. k - b \in Nat
    BY <1>8
  <2>2. Down * (k - b) = Down * k - Down * b
    BY <1>2
  <2>3. toEncode' = Down * (k - b)
    BY <1>1, <1>4, <1>5, <2>2
  <2> QED  BY <2>1, <2>3 DEF WholeTokens
<1>10. toEncode' \in Nat /\ encDone' \in Nat /\ tokReady' \in Nat
  BY <1>1, <1>2, <1>3, <1>6, <1>7
<1>11. melDone' = 2 * (encDone' + toEncode')
  <2>1. melDone = 2 * (encDone + toEncode)
    BY DEF InTime
  <2>2. encDone' + toEncode' = encDone + toEncode
    BY <1>1, <1>2, <1>7
  <2> QED  BY <1>1, <2>1, <2>2
<1>12. encDone' = Down * tokReady'
  <2>1. encDone = Down * tokReady
    BY DEF InTime
  <2>2. Down * (tokReady + b) = Down * tokReady + Down * b
    BY <1>2
  <2> QED  BY <1>1, <1>5, <1>6, <2>1, <2>2
<1>13. decPos' <= tokReady'
  <2>1. decPos <= tokReady
    BY DEF InTime
  <2> QED  BY <1>1, <1>2, <1>6, <2>1
<1> QED  BY <1>1, <1>9, <1>10, <1>11, <1>12, <1>13 DEF InTime

\* A token is decoded of audio that has been encoded.
LEMMA TokenInTime ==
  ASSUME CursorsAreInts, path = "voxtral", InTime,
         \/ Voxtral!ReadPrompt \/ Voxtral!DecodeToken \/ Voxtral!Publish
  PROVE  InTime'
<1>1. UNCHANGED <<melDone, toEncode, encDone, tokReady, delay, clamp>>
  BY DEF Voxtral!ReadPrompt, Voxtral!DecodeToken, Voxtral!Publish,
         Voxtral!encoderVars, Voxtral!throttleVars
<1>2. step = "decode"
  BY DEF Voxtral!ReadPrompt, Voxtral!DecodeToken, Voxtral!Publish
<1>3. toEncode = 0 /\ WholeTokens(toEncode)'
  BY <1>1, <1>2 DEF InTime, WholeTokens
<1>4. tokReady \in Nat /\ decPos \in Nat /\ audioBase \in Nat
  BY DEF InTime
<1>5. /\ decPos' \in Nat /\ audioBase' \in Nat
      /\ audioBase' <= decPos' /\ decPos' <= tokReady
      /\ promptDone' \/ decPos' = 0
  <2>1. CASE Voxtral!ReadPrompt
    <3>1. /\ decPos' = Voxtral!Prompt /\ audioBase' = audioBase /\ promptDone'
          /\ ~promptDone /\ Voxtral!Prompt <= tokReady
      BY <2>1, <1>4 DEF Voxtral!ReadPrompt, Voxtral!PromptDue
    <3>2. audioBase = 0
      BY <1>4, <3>1 DEF InTime
    <3>3. Voxtral!Prompt \in Nat
      <4>1. delay \in Nat /\ LeftTokens \in Nat
        BY VoxtralAssumption DEF InTime
      <4> QED  BY <4>1 DEF Voxtral!Prompt
    <3> QED  BY <1>4, <3>1, <3>2, <3>3
  <2>2. CASE Voxtral!DecodeToken
    <3>1. /\ decPos' = decPos + 1 /\ audioBase' = audioBase /\ promptDone'
          /\ decPos < Voxtral!Cap
      BY <2>2 DEF Voxtral!DecodeToken, Voxtral!TokenDue
    <3>2. Voxtral!Cap \in Int /\ Voxtral!Cap <= tokReady
      <4>1. clamp \in Int /\ MaxPosition \in Nat
        BY VoxtralAssumption DEF InTime
      <4>2. Voxtral!Due \in Int /\ Voxtral!Due <= tokReady
        <5>1. /\ Voxtral!Min({tokReady, clamp}) \in Int
              /\ Voxtral!Min({tokReady, clamp}) <= tokReady
          <6>1. tokReady \in Int /\ clamp \in Int
            BY <1>4, <4>1
          <6>2. /\ Voxtral!Min({tokReady, clamp}) \in {tokReady, clamp}
                /\ Voxtral!Min({tokReady, clamp}) <= tokReady
            BY <6>1, VoxtralMin
          <6> QED  BY <6>1, <6>2
        <5>2. \/ Voxtral!Due = tokReady
              \/ Voxtral!Due = Voxtral!Min({tokReady, clamp})
          BY DEF Voxtral!Due
        <5> QED  BY <1>4, <5>1, <5>2
      <4>3. /\ Voxtral!Min({Voxtral!Due, MaxPosition}) \in Int
            /\ Voxtral!Min({Voxtral!Due, MaxPosition}) <= Voxtral!Due
        BY <4>1, <4>2, VoxtralMin
      <4> QED  BY <1>4, <4>2, <4>3 DEF Voxtral!Cap
    <3> QED  BY <1>4, <3>1, <3>2 DEF InTime
  <2>3. CASE Voxtral!Publish
    <3>1. UNCHANGED <<decPos, promptDone>>
      BY <2>3 DEF Voxtral!Publish
    <3>2. audioBase' = Voxtral!Max({audioBase, decPos})
      BY <2>3 DEF Voxtral!Publish
    <3>3. audioBase' = decPos
      <4>1. audioBase <= decPos
        BY DEF InTime
      <4>2. /\ Voxtral!Max({audioBase, decPos}) \in {audioBase, decPos}
            /\ Voxtral!Max({audioBase, decPos}) >= decPos
        BY <1>4, VoxtralMax
      <4> QED  BY <1>4, <3>2, <4>1, <4>2
    <3> QED  BY <1>4, <3>1, <3>3 DEF InTime
  <2> QED  BY <2>1, <2>2, <2>3
<1>6. step' = "encode" \/ toEncode' = 0
  BY <1>1, <1>3
<1> QED  BY <1>1, <1>3, <1>5, <1>6 DEF InTime

\* Between two calls the hook is nowhere.
IdleBetween == path = "voxtral" /\ call = "none" => step = "idle"

\* A call that returns leaves the hook, and one that begins enters it.
LEMMA IdleKept ==
  ASSUME IdleBetween, [Next]_vars
  PROVE  IdleBetween'
<1> SUFFICES ASSUME path' = "voxtral", call' = "none"
             PROVE  step' = "idle"
  BY DEF IdleBetween
<1>1. path = "voxtral"
  BY PathStays
<1>2. CASE UNCHANGED vars
  BY <1>1, <1>2 DEF vars, cursors, throttleVars, IdleBetween
<1>3. CASE Voxtral!VoxtralNext
  <2>1. CASE Voxtral!FeedEnds \/ Voxtral!FinalizeEnds \/ Voxtral!Fails
    BY <2>1 DEF Voxtral!FeedEnds, Voxtral!FinalizeEnds, Voxtral!Fails
  <2>2. CASE \/ \E n \in Feeds[path] : Voxtral!Feed(n)
             \/ Voxtral!Finalize
    <3>1. call' \in {"feed", "finalize"}
      BY <2>2 DEF Voxtral!Feed, Voxtral!Appends, Voxtral!Finalize,
                  Voxtral!FinalizeStarts
    <3> QED  BY <3>1
  <2>3. CASE Voxtral!Begin \/ Voxtral!Reset \/ Voxtral!Aborts
    <3>1. UNCHANGED <<call, step>>
      BY <2>3 DEF Voxtral!Begin, Voxtral!Begins, Voxtral!Reset, Voxtral!Resets,
                  Voxtral!Aborts, Voxtral!AbortsAtOnce, Voxtral!voxtralVars
    <3> QED  BY <1>1, <3>1 DEF IdleBetween
  <2>4. CASE \/ Voxtral!ComputeMel \/ Voxtral!EncodeBatch \/ Voxtral!ReadPrompt
             \/ Voxtral!DecodeToken \/ Voxtral!Publish
    <3>1. call' = call
      BY <2>4 DEF Voxtral!ComputeMel, Voxtral!EncodeBatch, Voxtral!ReadPrompt,
                  Voxtral!DecodeToken, Voxtral!Publish, Voxtral!cursors
    <3>2. step \in {"mel", "encode", "decode"}
      BY <2>4 DEF Voxtral!ComputeMel, Voxtral!EncodeBatch, Voxtral!ReadPrompt,
                  Voxtral!DecodeToken, Voxtral!Publish
    <3> QED  BY <1>1, <3>1, <3>2 DEF IdleBetween
  <2> QED  BY <1>3, <2>1, <2>2, <2>3, <2>4 DEF Voxtral!VoxtralNext
<1> QED  BY <1>1, <1>2, <1>3 DEF Next

\* Every step of a running stream keeps the time.
LEMMA TimeKept ==
  ASSUME CursorsAreInts, IdleBetween, KeepsTime, [Next]_vars
  PROVE  KeepsTime'
<1> SUFFICES ASSUME path' = "voxtral", stream' = "ACTIVE"
             PROVE  InTime'
  BY DEF KeepsTime
<1>1. path = "voxtral"
  BY PathStays
<1>2. CASE UNCHANGED vars
  <2>1. /\ UNCHANGED <<melDone, toEncode, encDone, tokReady, delay, clamp>>
        /\ UNCHANGED <<step, decPos, audioBase, promptDone, stream>>
    BY <1>2 DEF vars, cursors, throttleVars, voxtralVars
  <2> QED  BY <1>1, <2>1 DEF KeepsTime, InTime, WholeTokens
<1>3. CASE Voxtral!VoxtralNext
  <2>1. CASE Voxtral!Begin
    BY <2>1, BeginInTime
  <2>2. CASE Voxtral!Reset
    <3>1. stream' = "IDLE"
      BY <2>2 DEF Voxtral!Reset, Voxtral!Resets
    <3> QED  BY <3>1
  <2>3. CASE Voxtral!Fails \/ Voxtral!Aborts
    <3>1. stream' = "FAILED"
      BY <2>3 DEF Voxtral!Fails, Voxtral!HookFails, Voxtral!Aborts,
                  Voxtral!AbortsAtOnce
    <3> QED  BY <3>1
  <2>4. CASE Voxtral!FinalizeEnds
    <3>1. stream' = "FINISHED"
      BY <2>4 DEF Voxtral!FinalizeEnds, Voxtral!Finishes
    <3> QED  BY <3>1
  <2>5. CASE Voxtral!ComputeMel
    <3>1. stream = "ACTIVE"
      BY <2>5 DEF Voxtral!ComputeMel
    <3> QED  BY <1>1, <2>5, <3>1, MelInTime DEF KeepsTime
  <2>6. CASE Voxtral!EncodeBatch
    <3>1. stream = "ACTIVE"
      BY <2>6 DEF Voxtral!EncodeBatch, Voxtral!cursors
    <3> QED  BY <1>1, <2>6, <3>1, EncodeInTime DEF KeepsTime
  <2>7. CASE Voxtral!ReadPrompt \/ Voxtral!DecodeToken \/ Voxtral!Publish
    <3>1. stream = "ACTIVE"
      BY <2>7 DEF Voxtral!ReadPrompt, Voxtral!DecodeToken, Voxtral!Publish,
                  Voxtral!cursors
    <3> QED  BY <1>1, <2>7, <3>1, TokenInTime DEF KeepsTime
  <2>8. CASE \/ \E n \in Feeds[path] : Voxtral!Feed(n)
             \/ Voxtral!Finalize \/ Voxtral!FeedEnds
    <3>1. /\ UNCHANGED <<melDone, toEncode, encDone, tokReady, delay, clamp>>
          /\ UNCHANGED <<decPos, audioBase, promptDone, stream>>
      BY <2>8 DEF Voxtral!Feed, Voxtral!Appends, Voxtral!Finalize,
                  Voxtral!FinalizeStarts, Voxtral!FeedEnds, Voxtral!throttleVars,
                  Voxtral!encoderVars, Voxtral!decoderVars
    <3>3. step # "encode"
      BY <1>1, <2>8 DEF Voxtral!Feed, Voxtral!Appends, Voxtral!Finalize,
                  Voxtral!FinalizeStarts, Voxtral!FeedEnds, IdleBetween
    <3>2. toEncode = 0
      BY <1>1, <3>1, <3>3 DEF KeepsTime, InTime
    <3> QED  BY <1>1, <3>1, <3>2 DEF KeepsTime, InTime, WholeTokens
  <2> QED
    BY <1>3, <2>1, <2>2, <2>3, <2>4, <2>5, <2>6, <2>7, <2>8
    DEF Voxtral!VoxtralNext
<1> QED  BY <1>1, <1>2, <1>3 DEF Next

\* Whatever the geometry, and however the audio was fed: while a voxtral stream
\* runs, its mel frames, encoder frames and tokens count the same audio, no
\* token is decoded of audio that is not encoded, and the embeddings of no token
\* are released before it is decoded.
THEOREM CursorsAgree == Spec => []Voxtral!FramesKeepTime
<1> DEFINE Inv == CursorsAreInts /\ IdleBetween /\ KeepsTime
<1>1. Init => Inv
  BY DEF Init, CursorsInit, Voxtral!VoxtralInit, CursorsAreInts, KeepsTime,
         IdleBetween
<1>2. Inv /\ [Next]_vars => Inv'
  BY IntsKept, IdleKept, TimeKept
<1>3. Inv => Voxtral!FramesKeepTime
  BY DEF KeepsTime, InTime, Voxtral!FramesKeepTime
<1> QED  BY <1>1, <1>2, <1>3, PTL DEF Spec

-----------------------------------------------------------------------------
(* The audio of a voxtral stream *)

\* The sample where the mel window begins that computes frame m.
From(m) == NonNeg(m - 4) * Hop

\* The tokens of a whole stream.
AllTokens == LeftTokens + CeilDiv(fed, Voxtral!RawPerTok) + delay + RightTokens

\* Finalize has computed its window.
PastMel == call = "finalize" /\ step # "mel"

\* More than is ever left behind a call, and the largest feed.
Reach == (4 + MelPerTok) * Hop + Win
Most  == Max(Feeds[path])

\* The counters are counts, and the hook is where the call is.
VoxtralCounts ==
  /\ fed \in Nat /\ input \in Nat /\ committed \in Nat /\ pcm \in Nat
  /\ pcmStart \in Nat /\ interval \in Nat /\ lastDecode \in Nat
  /\ melDone \in Nat /\ tokReady \in Nat /\ audioBase \in Nat /\ decPos \in Nat
  /\ delay \in Delays \cup {-1} /\ clamp \in Nat \cup {-1}
  /\ promptDone \in BOOLEAN /\ eos \in BOOLEAN /\ truncated \in BOOLEAN
  /\ stream \in {"IDLE", "ACTIVE", "FINISHED", "FAILED"}
  /\ stream = "ACTIVE" \/ call = "none"
  /\ \/ call = "none" /\ step = "idle"
     \/ call = "feed" /\ step \in {"mel", "encode", "decode", "leave", "wait"}
     \/ call = "finalize" /\ step \in {"mel", "encode", "decode", "leave"}

\* The buffer ends where the stream ends, and no audio has been erased that a
\* later window reads; the mel frames lie in the audio, until finalize pads it.
VoxtralBuffer ==
  stream = "ACTIVE" =>
    /\ pcmStart + pcm = fed
    /\ committed = 0
    /\ delay \in Delays
    /\ pcmStart <= NonNeg(From(melDone) - Voxtral!Left)
    /\ \/ PastMel \/ melDone = 0
       \/ 4 <= melDone /\ (melDone - 1) * Hop + Win <= Voxtral!Left + fed

\* What a call that computes leaves behind is less than Reach.
VoxtralBacklog ==
  stream = "ACTIVE" /\ call # "finalize" =>
    /\ lastDecode < Reach + interval + Most
    /\ step \in {"idle", "wait"} => pcm - lastDecode < Max({1, interval})
    /\ step = "mel" => pcm > 0 /\ pcm - lastDecode < Max({1, interval}) + Most
    /\ step \in {"idle", "wait", "mel"} =>
         /\ melDone > 0 => Voxtral!Left + fed - melDone * Hop
                             < MelPerTok * Hop + Win + (pcm - lastDecode)
         /\ lastDecode = 0 \/ Voxtral!Left + fed - From(melDone)
                                < Reach + (pcm - lastDecode)
    /\ step \in {"encode", "decode", "leave"} =>
         /\ melDone > 0 =>
              Voxtral!Left + fed - melDone * Hop < MelPerTok * Hop + Win
         /\ Voxtral!Left + fed - From(melDone) < Reach
         /\ pcm < Reach + interval + Most

\* Every token that could be decoded has been, at the end of a call; finalize
\* has counted all tokens of the stream.
VoxtralText ==
  stream = "ACTIVE" =>
    /\ decPos <= MaxPosition
    /\ truncated => decPos = MaxPosition /\ decPos < tokReady
    /\ step \notin {"encode", "decode"} =>
         (promptDone /\ ~eos /\ ~truncated => decPos = tokReady)
    /\ PastMel => encDone + toEncode = Down * AllTokens /\ clamp = AllTokens
    /\ call = "finalize" /\ step = "leave" => promptDone

\* A finished stream was encoded and decoded to its end.
VoxtralEnd ==
  stream = "FINISHED" =>
    /\ tokReady = AllTokens
    /\ eos \/ truncated \/ decPos = tokReady
    /\ truncated => decPos = MaxPosition /\ decPos < tokReady

\* What a voxtral stream keeps.
VoxtralKept ==
  path = "voxtral" =>
    VoxtralCounts /\ VoxtralBuffer /\ VoxtralBacklog /\ VoxtralText /\ VoxtralEnd

-----------------------------------------------------------------------------
(* Windows *)

\* The constants of voxtral.
LEMMA VoxtralGeometry ==
  /\ Hop \in Nat \ {0} /\ Win \in Nat \ {0} /\ Down \in Nat \ {0}
  /\ MelPerTok \in Nat \ {0} /\ MelPerTok = 2 * Down
  /\ LeftTokens \in Nat \ {0} /\ RightTokens \in Nat \ {0}
  /\ MaxPosition \in Nat \ {0}
  /\ Win <= 8 * Hop
  /\ Voxtral!RawPerTok \in Nat \ {0} /\ Voxtral!RawPerTok = MelPerTok * Hop
  /\ Voxtral!Left \in Nat \ {0} /\ Voxtral!Left = LeftTokens * Voxtral!RawPerTok
  /\ Win <= Voxtral!Left
  /\ Reach \in Nat /\ Reach = 4 * Hop + Voxtral!RawPerTok + Win
<1>1. {Hop, Win, Down, LeftTokens, RightTokens, MaxPosition} \subseteq Nat \ {0}
  BY GeometryAssumption, VoxtralAssumption
<1>2. Hop \in Nat \ {0} /\ Win \in Nat \ {0} /\ Down \in Nat \ {0}
      /\ LeftTokens \in Nat \ {0} /\ RightTokens \in Nat \ {0}
      /\ MaxPosition \in Nat \ {0} /\ MelPerTok = 2 * Down /\ Win <= 2 * 4 * Hop
      /\ Win <= LeftTokens * MelPerTok * Hop
  BY <1>1, VoxtralAssumption
<1>3. MelPerTok \in Nat \ {0} /\ Win <= 8 * Hop
  BY <1>2
<1>4. MelPerTok * Hop \in Nat \ {0}
  BY <1>2, <1>3
<1>5. LeftTokens * MelPerTok * Hop = LeftTokens * (MelPerTok * Hop)
  BY <1>2, <1>3
<1>6. LeftTokens * (MelPerTok * Hop) \in Nat \ {0}
  BY <1>2, <1>4
<1>7. (4 + MelPerTok) * Hop = 4 * Hop + MelPerTok * Hop
  BY <1>2, <1>3
<1> QED
  BY <1>2, <1>3, <1>4, <1>5, <1>6, <1>7 DEF Voxtral!RawPerTok, Voxtral!Left, Reach

\* Where windows begin.
LEMMA FromIs ==
  ASSUME NEW m \in Nat
  PROVE  /\ From(m) \in Nat
         /\ m * Hop \in Nat
         /\ m <= 4 => From(m) = 0
         /\ m >= 4 => From(m) + 4 * Hop = m * Hop
         /\ From(m) <= m * Hop
<1>1. Hop \in Nat \ {0}
  BY VoxtralGeometry
<1>2. NonNeg(m - 4) = IF m - 4 >= 0 THEN m - 4 ELSE 0
  BY NonNegIs
<1>3. m * Hop \in Nat
  BY <1>1
<1>4. CASE m >= 4
  <2>1. NonNeg(m - 4) = m - 4
    BY <1>2, <1>4
  <2>2. (m - 4) * Hop + 4 * Hop = m * Hop /\ (m - 4) * Hop \in Nat
    BY <1>1, <1>4
  <2>3. m = 4 => (m - 4) * Hop = 0
    BY <1>1
  <2> QED  BY <1>1, <1>3, <1>4, <2>1, <2>2, <2>3 DEF From
<1>5. CASE m < 4
  <2>1. NonNeg(m - 4) = 0 /\ 0 * Hop = 0
    BY <1>1, <1>2, <1>5
  <2> QED  BY <1>3, <1>5, <2>1 DEF From
<1> QED  BY <1>4, <1>5

\* A later frame has a later window.
LEMMA FromMore ==
  ASSUME NEW m \in Nat, NEW n \in Nat, m <= n
  PROVE  From(m) <= From(n)
<1>1. Hop \in Nat \ {0}
  BY VoxtralGeometry
<1>2. NonNeg(m - 4) = IF m - 4 >= 0 THEN m - 4 ELSE 0
  BY NonNegIs
<1>3. NonNeg(n - 4) = IF n - 4 >= 0 THEN n - 4 ELSE 0
  BY NonNegIs
<1>4. NonNeg(m - 4) \in Nat /\ NonNeg(n - 4) \in Nat /\ NonNeg(m - 4) <= NonNeg(n - 4)
  BY <1>2, <1>3
<1> QED  BY <1>1, <1>4, Scaled DEF From

\* The largest feed.
LEMMA MostIs ==
  ASSUME path \in Paths
  PROVE  /\ Most \in Nat \ {0}
         /\ \A n \in Feeds[path] : n \in Nat \ {0} /\ n <= Most
<1> DEFINE S == Feeds[path]
           largest(x) == x \in S /\ \A y \in S : x >= y
<1>1. PICK most \in S : \A n \in S : n <= most
  BY GeometryAssumption
<1>2. S \subseteq Nat \ {0}
  BY GeometryAssumption
<1>3. largest(most)
  BY <1>1, <1>2
<1>4. largest(CHOOSE x : largest(x))
  BY <1>3, Zenon
<1>5. Max(S) = CHOOSE x : largest(x)
  BY Zenon DEF Max
<1>6. largest(Most)
  BY <1>4, <1>5 DEF Most
<1> QED  BY <1>2, <1>6

\* The operators of the window, in a stream that runs.
LEMMA WindowIs ==
  ASSUME VoxtralCounts
  PROVE  /\ Voxtral!MelOff \in Nat /\ Voxtral!MelOff = NonNeg(melDone - 4)
         /\ Voxtral!WinSample = From(melDone) /\ Voxtral!WinSample \in Nat
         /\ Voxtral!MelOff * Hop = Voxtral!WinSample
<1>1. melDone \in Nat
  BY DEF VoxtralCounts
<1>2. NonNeg(melDone - 4) = IF melDone - 4 >= 0 THEN melDone - 4 ELSE 0
  BY <1>1, NonNegIs
<1>3. Voxtral!MelOff = NonNeg(melDone - 4)
  BY SharedOperators DEF Voxtral!MelOff, Voxtral!Guard
<1>4. Voxtral!WinSample = From(melDone)
  BY <1>3 DEF Voxtral!WinSample, From
<1>5. NonNeg(melDone - 4) \in Nat
  BY <1>1, <1>2
<1> QED  BY <1>1, <1>3, <1>4, <1>5, FromIs DEF From

\* What is erased was read for the last time: it is there, and what remains
\* reaches back to the window.
LEMMA ErasedIs ==
  ASSUME VoxtralCounts, VoxtralBuffer, stream = "ACTIVE", ~PastMel
  PROVE  /\ From(melDone) < Voxtral!Left + fed
         /\ Voxtral!Erased \in Nat /\ Voxtral!Erased <= pcm
         /\ pcmStart + Voxtral!Erased <= NonNeg(From(melDone) - Voxtral!Left)
         /\ pcm - Voxtral!Erased <= Voxtral!Left + fed - From(melDone)
<1> DEFINE L == Voxtral!Left
           F == From(melDone)
<1>1. L \in Nat \ {0} /\ Hop \in Nat \ {0} /\ Win \in Nat \ {0}
  BY VoxtralGeometry
<1>2. melDone \in Nat /\ pcm \in Nat /\ pcmStart \in Nat /\ fed \in Nat
  BY DEF VoxtralCounts
<1>3. /\ F \in Nat /\ melDone * Hop \in Nat
      /\ melDone <= 4 => F = 0
      /\ melDone >= 4 => F + 4 * Hop = melDone * Hop
  BY <1>2, FromIs
<1>4. /\ pcmStart + pcm = fed
      /\ pcmStart <= NonNeg(F - L)
      /\ melDone = 0 \/ (4 <= melDone /\ (melDone - 1) * Hop + Win <= L + fed)
  BY DEF VoxtralBuffer
<1>5. Voxtral!Erased = NonNeg(F - L - pcmStart)
  BY WindowIs, SharedOperators DEF Voxtral!Erased
<1>6. (melDone - 1) * Hop = melDone * Hop - Hop
  BY <1>1, <1>2
<1> HIDE DEF L, F
<1>7. F < L + fed
  BY <1>1, <1>2, <1>3, <1>4, <1>6
<1>8. NonNeg(F - L) = IF F - L >= 0 THEN F - L ELSE 0
  BY <1>1, <1>3, NonNegIs
<1>9. F - L - pcmStart \in Int
  BY <1>1, <1>2, <1>3
<1>10. NonNeg(F - L - pcmStart)
         = IF F - L - pcmStart >= 0 THEN F - L - pcmStart ELSE 0
  BY <1>9, NonNegIs
<1>11. /\ Voxtral!Erased \in Nat /\ Voxtral!Erased <= pcm
       /\ pcmStart + Voxtral!Erased <= NonNeg(F - L)
       /\ pcm - Voxtral!Erased <= L + fed - F
  BY <1>1, <1>2, <1>3, <1>4, <1>5, <1>7, <1>8, <1>10
<1> QED  BY <1>7, <1>11 DEF L, F

\* In a feed, the frames that are ready are those whose window lies in the
\* audio, or those that the transform returns, whichever is less.
LEMMA FeedReady ==
  ASSUME VoxtralCounts, VoxtralBuffer, stream = "ACTIVE", call = "feed"
  PROVE  /\ Voxtral!TotalAbs = Voxtral!Left + fed
         /\ Voxtral!MelReady \in Nat
         /\ (Voxtral!MelReady - 1) * Hop + Win <= Voxtral!Left + fed
         /\ \/ Voxtral!Left + fed < Voxtral!MelReady * Hop + Win
            \/ Voxtral!Left + fed < Voxtral!MelReady * Hop + Hop
<1> DEFINE T == Voxtral!Left + fed
           W == Voxtral!WinSample
           M == Voxtral!MelOff
           q == (T - W) \div Hop
           w == (T - Win) \div Hop
<1>1. /\ Hop \in Nat \ {0} /\ Win \in Nat \ {0} /\ Win <= Voxtral!Left
      /\ Voxtral!Left \in Nat \ {0}
  BY VoxtralGeometry
<1>2. fed \in Nat /\ pcmStart + pcm = fed
  BY DEF VoxtralCounts, VoxtralBuffer
<1>3. Voxtral!TotalAbs = T
  BY <1>2 DEF Voxtral!TotalAbs, Voxtral!Audio, Voxtral!Final
<1>4. T \in Nat /\ Win <= T
  BY <1>1, <1>2
<1>5. M \in Nat /\ W \in Nat /\ M * Hop = W
  BY WindowIs
<1>6. W < T
  BY WindowIs, ErasedIs DEF PastMel
<1>7. Voxtral!MelReady = Voxtral!Min({Voxtral!NonNeg(w + 1), M + q})
  BY <1>3 DEF Voxtral!MelReady, Voxtral!Final
<1> HIDE DEF T, W, M
<1>8. q \in Int /\ q * Hop <= T - W /\ T - W < (q + 1) * Hop /\ 0 <= q
  <2>1. T - W \in Int /\ 0 * Hop <= T - W /\ 0 \in Int
    BY <1>1, <1>4, <1>5, <1>6
  <2> HIDE DEF q
  <2>2. 0 <= (T - W) \div Hop
    BY <1>1, <2>1, FitsQuotient
  <2> QED  BY <1>1, <2>1, <2>2, Quotient DEF q
<1>9. w \in Int /\ w * Hop <= T - Win /\ T - Win < (w + 1) * Hop /\ 0 <= w
  <2>1. T - Win \in Int /\ 0 * Hop <= T - Win /\ 0 \in Int
    BY <1>1, <1>4
  <2> HIDE DEF w
  <2>2. 0 <= (T - Win) \div Hop
    BY <1>1, <2>1, FitsQuotient
  <2> QED  BY <1>1, <2>1, <2>2, Quotient DEF w
<1> HIDE DEF q, w
<1>10. Voxtral!NonNeg(w + 1) = w + 1
  <2>1. NonNeg(w + 1) = IF w + 1 >= 0 THEN w + 1 ELSE 0
    BY <1>9, NonNegIs
  <2> QED  BY <1>9, <2>1, SharedOperators
<1>11. Voxtral!MelReady = IF w + 1 <= M + q THEN w + 1 ELSE M + q
  <2>1. w + 1 \in Int /\ M + q \in Int
    BY <1>5, <1>8, <1>9
  <2>2. Min({w + 1, M + q}) = IF w + 1 <= M + q THEN w + 1 ELSE M + q
    BY <2>1, MinOfTwo
  <2> QED  BY <1>7, <1>10, <2>2, SharedOperators
<1>12. CASE w + 1 <= M + q
  <2>1. Voxtral!MelReady = w + 1
    BY <1>11, <1>12
  <2>2. (w + 1) - 1 = w
    BY <1>9
  <2>3. w * Hop \in Int /\ (w + 1) * Hop \in Int
    BY <1>1, <1>9
  <2>4. w * Hop + Win <= T /\ T < (w + 1) * Hop + Win
    BY <1>1, <1>4, <1>9, <2>3
  <2> QED  BY <1>3, <1>9, <2>1, <2>2, <2>4 DEF T
<1>13. CASE M + q < w + 1
  <2>1. Voxtral!MelReady = M + q
    BY <1>5, <1>8, <1>9, <1>11, <1>13
  <2>2. (M + q - 1) * Hop <= w * Hop
    <3>1. M + q - 1 \in Int /\ w \in Int /\ M + q - 1 <= w
      BY <1>5, <1>8, <1>9, <1>13
    <3> QED  BY <1>1, <3>1, Scaled
  <2>3. (M + q) * Hop = W + q * Hop /\ (q + 1) * Hop = q * Hop + Hop
    BY <1>1, <1>5, <1>8
  <2>4. w * Hop \in Int /\ q * Hop \in Int /\ (M + q - 1) * Hop \in Int
    BY <1>1, <1>5, <1>8, <1>9
  <2>5. (M + q - 1) * Hop + Win <= T
    BY <1>1, <1>4, <1>9, <2>2, <2>4
  <2>6. T < (M + q) * Hop + Hop
    BY <1>1, <1>4, <1>5, <1>8, <2>3, <2>4
  <2>7. M + q \in Nat /\ M + q - 1 = (M + q) - 1
    BY <1>5, <1>8
  <2>8. /\ (Voxtral!MelReady - 1) * Hop + Win <= T
        /\ T < Voxtral!MelReady * Hop + Hop
    BY <2>1, <2>5, <2>6, <2>7, Zenon
  <2> QED  BY <1>3, <2>1, <2>7, <2>8 DEF T
<1> QED  BY <1>5, <1>8, <1>9, <1>12, <1>13

\* What is new among the frames that are ready: whole tokens' worth, less than
\* a token short of all of them.
LEMMA NewMelIs ==
  ASSUME Voxtral!MelReady \in Nat, melDone \in Nat
  PROVE  /\ Voxtral!NewMel \in Int
         /\ Voxtral!NonNeg(Voxtral!NewMel) \in Nat
         /\ Voxtral!NewMel <= Voxtral!NonNeg(Voxtral!NewMel)
         /\ Voxtral!NewMel >= 0 => Voxtral!NonNeg(Voxtral!NewMel) = Voxtral!NewMel
         /\ Voxtral!NewMel <= 0 => Voxtral!NonNeg(Voxtral!NewMel) = 0
         /\ melDone + Voxtral!NewMel <= Voxtral!MelReady
         /\ Voxtral!MelReady < melDone + Voxtral!NewMel + MelPerTok
         /\ melDone = 0 /\ Voxtral!MelReady > 4 =>
              Voxtral!NewMel <= 0 \/ Voxtral!NewMel >= 4
<1> DEFINE n == Voxtral!MelReady - melDone
           q == n \div MelPerTok
<1>1. MelPerTok \in Nat \ {0} /\ MelPerTok = 2 * Down /\ Down \in Nat \ {0}
  BY VoxtralGeometry
<1>2. n \in Int
  OBVIOUS
<1>3. q \in Int /\ q * MelPerTok <= n /\ n < (q + 1) * MelPerTok
  <2> HIDE DEF n
  <2> QED  BY <1>1, <1>2, Quotient
<1>4. Voxtral!NewMel = q * MelPerTok
  <2>1. Voxtral!NewMel = q * 2 * Down
    BY <1>1 DEF Voxtral!NewMel
  <2> HIDE DEF q
  <2> QED  BY <1>1, <1>3, <2>1
<1> HIDE DEF q
<1>5. (q + 1) * MelPerTok = q * MelPerTok + MelPerTok /\ q * MelPerTok \in Int
  BY <1>1, <1>3
<1>6. melDone = 0 /\ Voxtral!MelReady > 4 => q <= 0 \/ q * MelPerTok >= 4
  <2> SUFFICES ASSUME n > 4, q > 0
               PROVE  q * MelPerTok >= 4
    BY <1>3
  <2>1. CASE Down = 1
    BY <1>1, <1>3, <2>1
  <2>2. CASE Down > 1
    <3>1. MelPerTok >= 4
      BY <1>1, <2>2
    <3>2. 1 * MelPerTok <= q * MelPerTok
      BY <1>1, <1>3, Scaled
    <3> QED  BY <1>1, <1>5, <3>1, <3>2
  <2> QED  BY <1>1, <2>1, <2>2
<1>7. q <= 0 => q * MelPerTok <= 0
  <2> SUFFICES ASSUME q <= 0
               PROVE  q * MelPerTok <= 0
    OBVIOUS
  <2>1. q * MelPerTok <= 0 * MelPerTok
    BY <1>1, <1>3, Scaled
  <2> QED  BY <1>1, <2>1
<1>8. Voxtral!NonNeg(Voxtral!NewMel)
        = IF Voxtral!NewMel >= 0 THEN Voxtral!NewMel ELSE 0
  BY <1>4, <1>5, NonNegIs, SharedOperators
<1> QED  BY <1>1, <1>3, <1>4, <1>5, <1>6, <1>7, <1>8

\* A call that has taken all frames but those of an unfinished token leaves
\* less than Reach behind.
LEMMA Caught ==
  ASSUME NEW t \in Nat, NEW r \in Nat, NEW m \in Nat,
         t < r * Hop + Win \/ t < r * Hop + Hop,
         m = 0 \/ m >= 4,
         r < m + MelPerTok \/ r <= 4
  PROVE  /\ m > 0 => t - m * Hop < MelPerTok * Hop + Win
         /\ t - From(m) < Reach
<1>1. /\ Hop \in Nat \ {0} /\ Win \in Nat \ {0} /\ MelPerTok \in Nat \ {0}
      /\ Reach = 4 * Hop + MelPerTok * Hop + Win /\ MelPerTok * Hop \in Nat
      /\ MelPerTok >= 2
  BY VoxtralGeometry
<1>2. /\ From(m) \in Nat /\ m * Hop \in Nat
      /\ m <= 4 => From(m) = 0
      /\ m >= 4 => From(m) + 4 * Hop = m * Hop
  BY FromIs
<1>3. r * Hop \in Nat /\ 2 * Hop <= MelPerTok * Hop
  BY <1>1, Scaled
<1>4. CASE r < m + MelPerTok
  <2>1. (r + 1) * Hop <= (m + MelPerTok) * Hop
    <3>1. r + 1 \in Int /\ m + MelPerTok \in Int /\ r + 1 <= m + MelPerTok
      BY <1>1, <1>4
    <3> QED  BY <1>1, <3>1, Scaled
  <2>2. (r + 1) * Hop = r * Hop + Hop /\ (m + MelPerTok) * Hop = m * Hop + MelPerTok * Hop
    BY <1>1
  <2>3. r * Hop + Hop <= m * Hop + MelPerTok * Hop
    BY <2>1, <2>2
  <2>4. t < m * Hop + MelPerTok * Hop + Win
    BY <1>1, <1>2, <1>3, <2>3
  <2> QED  BY <1>1, <1>2, <2>4
<1>5. CASE r <= 4
  <2>1. r * Hop <= 4 * Hop
    BY <1>1, <1>5, Scaled
  <2>2. t < 4 * Hop + Win \/ t < 4 * Hop + Hop
    BY <1>1, <1>3, <2>1
  <2>3. m >= 4 => 4 * Hop <= m * Hop
    BY <1>1, Scaled
  <2> QED  BY <1>1, <1>2, <1>3, <2>2, <2>3
<1> QED  BY <1>4, <1>5

\* The tokens of a whole stream are at least the padding's.
LEMMA AllTokensIs ==
  ASSUME fed \in Nat, delay \in Delays
  PROVE  /\ AllTokens \in Nat /\ AllTokens >= 3
         /\ AllTokens >= 1 + LeftTokens + delay
         /\ delay \in Nat \ {0}
<1>1. LeftTokens \in Nat \ {0} /\ RightTokens \in Nat \ {0}
      /\ Voxtral!RawPerTok \in Nat \ {0}
  BY VoxtralGeometry
<1>2. CeilDiv(fed, Voxtral!RawPerTok) \in Nat
  BY <1>1, RoundedUp
<1>3. delay \in Nat \ {0}
  BY VoxtralAssumption
<1> QED  BY <1>1, <1>2, <1>3 DEF AllTokens

\* The window of finalize holds whole tokens: those of the silence on the left,
\* of the audio, rounded up, and of the silence on the right.
LEMMA FinalReady ==
  ASSUME VoxtralCounts, VoxtralBuffer, InTime, stream = "ACTIVE",
         call = "finalize", step = "mel"
  PROVE  /\ Voxtral!TotalAbs = AllTokens * Voxtral!RawPerTok
         /\ Voxtral!WinSample < Voxtral!TotalAbs
         /\ Voxtral!MelReady = AllTokens * MelPerTok
         /\ melDone = tokReady * MelPerTok
         /\ tokReady <= AllTokens
<1> DEFINE N == AllTokens
           R == Voxtral!RawPerTok
           W == Voxtral!WinSample
           M == Voxtral!MelOff
           c == CeilDiv(fed, R)
<1>1. /\ Hop \in Nat \ {0} /\ MelPerTok \in Nat \ {0} /\ MelPerTok = 2 * Down
      /\ Down \in Nat \ {0} /\ R \in Nat \ {0} /\ R = MelPerTok * Hop
      /\ Voxtral!Left = LeftTokens * R /\ LeftTokens \in Nat /\ RightTokens \in Nat
      /\ Win \in Nat /\ Voxtral!Left \in Nat
  BY VoxtralGeometry
<1>2. fed \in Nat /\ melDone \in Nat /\ delay \in Nat /\ tokReady \in Nat
      /\ pcmStart + pcm = fed
  BY AllTokensIs DEF VoxtralCounts, VoxtralBuffer
<1>3. N \in Nat
  BY <1>2, AllTokensIs DEF VoxtralBuffer
<1>4. Voxtral!TotalAbs = Voxtral!Left + c * R + (delay + RightTokens) * R
  BY <1>2, SharedOperators
  DEF Voxtral!TotalAbs, Voxtral!Audio, Voxtral!Final
<1>5. M \in Nat /\ W \in Nat /\ M * Hop = W /\ W = From(melDone)
  BY WindowIs
<1>6. W < Voxtral!Left + fed
  BY <1>5, ErasedIs DEF PastMel
<1>7. c \in Nat /\ fed <= c * R
  BY <1>1, <1>2, RoundedUp
<1>8. N = LeftTokens + c + delay + RightTokens
  BY DEF AllTokens
<1> HIDE DEF N, R, W, M, c
<1>9. Voxtral!TotalAbs = N * R
  <2>1. (LeftTokens + c + delay + RightTokens) * R
          = LeftTokens * R + c * R + (delay + RightTokens) * R
    BY <1>1, <1>2, <1>7
  <2> QED  BY <1>1, <1>4, <1>8, <2>1
<1>10. N * R \in Nat /\ Voxtral!Left + fed <= N * R
  <2>1. (delay + RightTokens) * R \in Nat /\ c * R \in Nat /\ N * R \in Nat
    BY <1>1, <1>2, <1>3, <1>7
  <2> QED  BY <1>1, <1>2, <1>4, <1>7, <1>9, <2>1
<1>11. N * R = (N * MelPerTok) * Hop
  BY <1>1, <1>3
<1>12. (N * R - W) \div Hop = N * MelPerTok - M
  <2> DEFINE k == N * MelPerTok - M
             a == N * R - W
  <2>1. k \in Int /\ a \in Int /\ N * MelPerTok \in Int
    BY <1>1, <1>3, <1>5, <1>10
  <2>2. k * Hop = a
    BY <1>1, <1>3, <1>5, <1>11
  <2>3. (k + 1) * Hop = k * Hop + Hop
    BY <1>1, <2>1
  <2> HIDE DEF k, a
  <2>4. k * Hop <= a /\ a < (k + 1) * Hop
    BY <1>1, <2>1, <2>2, <2>3
  <2>5. a \div Hop = k
    BY <1>1, <2>1, <2>4, QuotientIs
  <2> QED  BY <2>5 DEF k, a
<1>13. Voxtral!MelReady = N * MelPerTok
  <2>1. Voxtral!MelReady = M + (N * R - W) \div Hop
    BY <1>9 DEF Voxtral!MelReady, Voxtral!Final, M, W
  <2>2. N * MelPerTok \in Int
    BY <1>1, <1>3
  <2> QED  BY <1>5, <1>12, <2>1, <2>2
<1>14. melDone = tokReady * MelPerTok
  <2>1. melDone = 2 * (encDone + 0) /\ encDone = Down * tokReady
    BY DEF InTime
  <2> QED  BY <1>1, <1>2, <2>1
<1>15. tokReady <= N
  <2>1. CASE melDone = 0
    <3>1. 1 * MelPerTok <= tokReady * MelPerTok \/ tokReady < 1
      BY <1>1, <1>2, Scaled
    <3> QED  BY <1>1, <1>2, <1>3, <1>14, <2>1, <3>1
  <2>2. CASE (melDone - 1) * Hop + Win <= Voxtral!Left + fed
    <3>1. (melDone - 1) * Hop = melDone * Hop - Hop /\ melDone * Hop \in Int
      BY <1>1, <1>2
    <3>2. melDone * Hop = tokReady * R
      BY <1>1, <1>2, <1>14
    <3>3. (N + 1) * R = N * R + R /\ 1 * Hop <= MelPerTok * Hop
      BY <1>1, <1>3, Scaled
    <3>4. tokReady * R < (N + 1) * R
      <4>1. melDone * Hop < N * R + R
        BY <1>1, <1>2, <1>10, <2>2, <3>1, <3>3
      <4> QED  BY <3>2, <3>3, <4>1
    <3>5. tokReady < N + 1
      BY <1>1, <1>2, <1>3, <3>4, Unscaled
    <3> QED  BY <1>2, <1>3, <3>5
  <2> QED  BY <2>1, <2>2 DEF VoxtralBuffer, PastMel
<1>16. W < Voxtral!TotalAbs
  BY <1>1, <1>2, <1>5, <1>6, <1>9, <1>10
<1> QED  BY <1>9, <1>13, <1>14, <1>15, <1>16 DEF N, R, W

\* What finalize encodes completes the tokens.
LEMMA FinalNew ==
  ASSUME VoxtralCounts, VoxtralBuffer, InTime, stream = "ACTIVE",
         call = "finalize", step = "mel"
  PROVE  /\ Voxtral!MelReady \in Nat /\ Voxtral!MelReady > 4
         /\ Voxtral!NonNeg(Voxtral!NewMel) \div 2 = Down * (AllTokens - tokReady)
         /\ ((Voxtral!MelReady - 2) \div 2 + 1) \div Down = AllTokens
<1> DEFINE N == AllTokens
           left == N - tokReady
<1>1. MelPerTok \in Nat \ {0} /\ MelPerTok = 2 * Down /\ Down \in Nat \ {0}
  BY VoxtralGeometry
<1>2. N \in Nat /\ N >= 3 /\ tokReady \in Nat /\ melDone \in Nat
  BY AllTokensIs DEF VoxtralBuffer, VoxtralCounts
<1>3. Voxtral!MelReady = N * MelPerTok /\ melDone = tokReady * MelPerTok
      /\ tokReady <= N
  BY FinalReady
<1> HIDE DEF N
<1>4. left \in Nat /\ Voxtral!MelReady - melDone = left * MelPerTok
  BY <1>1, <1>2, <1>3
<1>5. Voxtral!MelReady \in Nat /\ Voxtral!MelReady > 4
  <2>1. 3 * MelPerTok <= N * MelPerTok /\ N * MelPerTok \in Nat
    BY <1>1, <1>2, Scaled
  <2> QED  BY <1>1, <1>3, <2>1
<1> HIDE DEF left
<1>6. (left * MelPerTok) \div MelPerTok = left
  <2>1. left * MelPerTok = MelPerTok * left
    BY <1>1, <1>4
  <2> QED  BY <1>1, <1>4, <2>1, DivideMultiple
<1>7. Voxtral!NewMel = 2 * (Down * left) /\ Down * left \in Nat
  <2>1. Voxtral!NewMel = left * 2 * Down
    BY <1>1, <1>4, <1>6 DEF Voxtral!NewMel
  <2> QED  BY <1>1, <1>4, <2>1
<1>8. Voxtral!NonNeg(Voxtral!NewMel) = 2 * (Down * left)
  BY <1>2, <1>5, <1>7, NewMelIs
<1>9. Voxtral!NonNeg(Voxtral!NewMel) \div 2 = Down * left
  BY <1>7, <1>8, DivideMultiple
<1>10. (Voxtral!MelReady - 2) \div 2 + 1 = Down * N
  <2>1. Voxtral!MelReady = 2 * (Down * N) /\ Down * N \in Nat
    BY <1>1, <1>2, <1>3
  <2> QED  BY <2>1
<1>11. (Down * N) \div Down = N
  BY <1>1, <1>2, DivideMultiple
<1> QED  BY <1>5, <1>9, <1>10, <1>11 DEF N, left

-----------------------------------------------------------------------------
(* Steps of a voxtral stream *)

\* What the next state says of windows.
LEMMA FromPrimed ==
  /\ From(melDone)' = From(melDone')
  /\ NonNeg(From(melDone) - Voxtral!Left)' = NonNeg(From(melDone') - Voxtral!Left)
  /\ Most' = Max(Feeds[path'])
  /\ Voxtral!Left' = Voxtral!Left /\ Reach' = Reach
BY Zenon DEF From, NonNeg, Max, Most, Voxtral!Left, Voxtral!RawPerTok, Reach

\* A window that is erased up to where it begins is behind every later one.
LEMMA StillThere ==
  ASSUME melDone \in Nat, melDone' \in Nat, melDone <= melDone',
         NEW s \in Nat, s <= NonNeg(From(melDone) - Voxtral!Left)
  PROVE  s <= NonNeg(From(melDone') - Voxtral!Left)
<1>1. From(melDone) \in Nat /\ From(melDone') \in Nat /\ From(melDone) <= From(melDone')
  BY FromIs, FromMore
<1>2. Voxtral!Left \in Nat
  BY VoxtralGeometry
<1>3. /\ NonNeg(From(melDone) - Voxtral!Left)
           = IF From(melDone) - Voxtral!Left >= 0 THEN From(melDone) - Voxtral!Left ELSE 0
      /\ NonNeg(From(melDone') - Voxtral!Left)
           = IF From(melDone') - Voxtral!Left >= 0 THEN From(melDone') - Voxtral!Left ELSE 0
  BY <1>1, <1>2, NonNegIs
<1> QED  BY <1>1, <1>2, <1>3

\* The threshold of the throttle.
LEMMA ThrottleIs ==
  ASSUME interval \in Nat
  PROVE  /\ Max({1, interval}) = IF 1 >= interval THEN 1 ELSE interval
         /\ Max({1, interval}) \in Nat \ {0} /\ Max({1, interval}) <= interval + 1
<1>1. Max({1, interval}) = IF 1 >= interval THEN 1 ELSE interval
  BY MaxOfTwo
<1> QED  BY <1>1

\* A feed's window: the frames that it takes lie in the audio, and it leaves
\* less than Reach.
LEMMA FeedMel ==
  ASSUME VoxtralCounts, VoxtralBuffer, VoxtralBacklog, path \in Paths,
         stream = "ACTIVE", call = "feed", Voxtral!ComputeMel
  PROVE  /\ pcm' = pcm - Voxtral!Erased /\ pcmStart' = pcmStart + Voxtral!Erased
         /\ pcm' \in Nat /\ pcmStart' \in Nat
         /\ pcm' < Reach + interval + Most
         /\ melDone' \in Nat /\ melDone <= melDone'
         /\ melDone' = 0
              \/ (4 <= melDone' /\ (melDone' - 1) * Hop + Win <= Voxtral!Left + fed)
         /\ melDone' > 0 =>
              Voxtral!Left + fed - melDone' * Hop < MelPerTok * Hop + Win
         /\ Voxtral!Left + fed - From(melDone') < Reach
         /\ step' \in {"encode", "decode", "leave"}
         /\ step' = "leave" => melDone' = melDone /\ toEncode' = toEncode
         /\ clamp' = clamp
<1> DEFINE T == Voxtral!Left + fed
           r == Voxtral!MelReady
<1>1. /\ step = "mel" /\ pcm \in Nat /\ pcmStart \in Nat /\ fed \in Nat
      /\ melDone \in Nat /\ interval \in Nat /\ lastDecode \in Nat
      /\ ~PastMel
  BY DEF VoxtralCounts, PastMel, Voxtral!ComputeMel
<1>2. /\ Hop \in Nat \ {0} /\ Win \in Nat \ {0} /\ MelPerTok \in Nat \ {0}
      /\ Voxtral!Left \in Nat \ {0} /\ Reach \in Nat /\ Reach > 0
  BY VoxtralGeometry
<1>3. /\ Voxtral!TotalAbs = T /\ r \in Nat
      /\ (r - 1) * Hop + Win <= T
      /\ T < r * Hop + Win \/ T < r * Hop + Hop
  BY <1>1, FeedReady
<1>4. /\ From(melDone) < T /\ Voxtral!WinSample = From(melDone)
      /\ Voxtral!Erased \in Nat /\ Voxtral!Erased <= pcm
      /\ pcm - Voxtral!Erased <= T - From(melDone)
      /\ From(melDone) \in Nat
  <2>1. /\ From(melDone) < Voxtral!Left + fed
        /\ Voxtral!Erased \in Nat /\ Voxtral!Erased <= pcm
        /\ pcm - Voxtral!Erased <= Voxtral!Left + fed - From(melDone)
    BY <1>1, ErasedIs
  <2>2. Voxtral!WinSample = From(melDone) /\ From(melDone) \in Nat
    BY <1>1, WindowIs, FromIs
  <2> QED  BY <1>1, <1>2, <2>1, <2>2
<1>5. pcm > 0 /\ pcm - lastDecode < Max({1, interval}) + Most
      /\ (lastDecode = 0 \/ T - From(melDone) < Reach + (pcm - lastDecode))
  <2>1. /\ pcm > 0 /\ pcm - lastDecode < Max({1, interval}) + Most
        /\ \/ lastDecode = 0
           \/ Voxtral!Left + fed - From(melDone) < Reach + (pcm - lastDecode)
    BY <1>1, Zenon DEF VoxtralBacklog
  <2> QED  BY <1>1, <1>2, <1>4, <2>1
<1>6. melDone = 0 \/ (4 <= melDone /\ (melDone - 1) * Hop + Win <= T)
  BY <1>1 DEF VoxtralBuffer
<1>7. ~Voxtral!Final
  BY DEF Voxtral!Final
<1> HIDE DEF T, r
<1>8. T \in Nat
  BY <1>1, <1>2 DEF T
<1>9. ~((pcm = 0 /\ ~Voxtral!Final) \/ Voxtral!TotalAbs <= Voxtral!WinSample)
  BY <1>1, <1>3, <1>4, <1>5, <1>8
<1>10. /\ pcm' = pcm - Voxtral!Erased
       /\ pcmStart' = pcmStart + Voxtral!Erased
       /\ IF r <= 4
            THEN step' = "leave" /\ UNCHANGED <<melDone, toEncode, clamp>>
            ELSE /\ melDone' = melDone + Voxtral!NonNeg(Voxtral!NewMel)
                 /\ clamp' = clamp
                 /\ step' = IF Voxtral!NewMel > 0 THEN "encode" ELSE "decode"
  BY <1>7, <1>9 DEF Voxtral!ComputeMel, r
<1>11. pcm' \in Nat /\ pcmStart' \in Nat
  BY <1>1, <1>4, <1>10
<1>12. pcm' < Reach + interval + Most
  <2>1. Most \in Nat
    BY MostIs
  <2>2. Max({1, interval}) \in Nat \ {0} /\ Max({1, interval}) <= interval + 1
    BY <1>1, ThrottleIs
  <2> HIDE DEF Most
  <2> QED  BY <1>1, <1>2, <1>4, <1>5, <1>8, <1>10, <2>1, <2>2
<1>13. /\ melDone' \in Nat /\ melDone <= melDone'
       /\ melDone' = 0 \/ (4 <= melDone' /\ (melDone' - 1) * Hop + Win <= T)
       /\ r < melDone' + MelPerTok \/ r <= 4
       /\ step' \in {"encode", "decode", "leave"}
       /\ step' = "leave" => melDone' = melDone /\ toEncode' = toEncode
       /\ clamp' = clamp
  <2>1. CASE r <= 4
    BY <1>1, <1>6, <1>10, <2>1
  <2>2. CASE ~(r <= 4)
    <3> DEFINE new == Voxtral!NonNeg(Voxtral!NewMel)
    <3>1. /\ Voxtral!NewMel \in Int /\ new \in Nat /\ Voxtral!NewMel <= new
          /\ Voxtral!NewMel >= 0 => new = Voxtral!NewMel
          /\ Voxtral!NewMel <= 0 => new = 0
          /\ melDone + Voxtral!NewMel <= r
          /\ r < melDone + Voxtral!NewMel + MelPerTok
          /\ melDone = 0 /\ r > 4 => Voxtral!NewMel <= 0 \/ Voxtral!NewMel >= 4
      BY <1>1, <1>3, NewMelIs DEF r
    <3> HIDE DEF new
    <3>2. melDone' = melDone + new /\ clamp' = clamp
          /\ step' \in {"encode", "decode"}
      BY <1>10, <2>2 DEF new
    <3>3. r < melDone' + MelPerTok /\ melDone' \in Nat /\ melDone <= melDone'
      BY <1>1, <1>2, <1>3, <3>1, <3>2
    <3>4. melDone' = 0 \/ (4 <= melDone' /\ (melDone' - 1) * Hop + Win <= T)
      <4>1. CASE new = 0
        <5>1. melDone' = melDone
          BY <1>1, <3>2, <4>1
        <5> QED  BY <1>6, <5>1
      <4>2. CASE new # 0
        <5>1. 4 <= melDone' /\ melDone' <= r
          BY <1>1, <1>3, <1>6, <2>2, <3>1, <3>2, <4>2
        <5>2. (melDone' - 1) * Hop <= (r - 1) * Hop
          <6>1. melDone' - 1 \in Int /\ r - 1 \in Int /\ melDone' - 1 <= r - 1
            <7>1. r \in Int /\ melDone' \in Int
              BY <1>3, <3>3
            <7>2. \A a, c \in Int : a <= c => a - 1 \in Int /\ c - 1 \in Int /\ a - 1 <= c - 1
              OBVIOUS
            <7> QED  BY <5>1, <7>1, <7>2, Zenon
          <6> QED  BY <1>2, <6>1, Scaled
        <5>3. (melDone' - 1) * Hop \in Int /\ (r - 1) * Hop \in Int
          BY <1>2, <1>3, <3>3
        <5> QED  BY <1>2, <1>3, <1>8, <5>1, <5>2, <5>3
      <4> QED  BY <4>1, <4>2
    <3> QED  BY <3>2, <3>3, <3>4
  <2> QED  BY <2>1, <2>2
<1>14. /\ melDone' > 0 => T - melDone' * Hop < MelPerTok * Hop + Win
       /\ T - From(melDone') < Reach
  BY <1>3, <1>8, <1>13, Caught
<1>15. From(melDone') \in Nat /\ melDone' * Hop \in Nat
  BY <1>13, FromIs
<1>16. /\ melDone' > 0 =>
            Voxtral!Left + fed - melDone' * Hop < MelPerTok * Hop + Win
       /\ Voxtral!Left + fed - From(melDone') < Reach
  BY <1>1, <1>2, <1>14, <1>15 DEF T
<1> QED  BY <1>10, <1>11, <1>12, <1>13, <1>16 DEF T

\* The window of a feed keeps the invariant.
LEMMA FeedMelKept ==
  ASSUME VoxtralCounts, VoxtralBuffer, VoxtralBacklog, VoxtralText, InTime,
         path \in Paths, path' = path,
         stream = "ACTIVE", call = "feed", Voxtral!ComputeMel
  PROVE  VoxtralCounts' /\ VoxtralBuffer' /\ VoxtralBacklog' /\ VoxtralText'
<1>1. /\ step = "mel"
      /\ UNCHANGED <<stream, call, fed, input, committed, interval, lastDecode, delay>>
      /\ UNCHANGED <<encDone, tokReady, audioBase, promptDone, decPos, eos, truncated>>
  BY DEF Voxtral!ComputeMel, Voxtral!throttleVars
<1>2. /\ pcm' = pcm - Voxtral!Erased /\ pcmStart' = pcmStart + Voxtral!Erased
      /\ pcm' \in Nat /\ pcmStart' \in Nat
      /\ pcm' < Reach + interval + Most
      /\ melDone' \in Nat /\ melDone <= melDone'
      /\ melDone' = 0
           \/ (4 <= melDone' /\ (melDone' - 1) * Hop + Win <= Voxtral!Left + fed)
      /\ melDone' > 0 =>
           Voxtral!Left + fed - melDone' * Hop < MelPerTok * Hop + Win
      /\ Voxtral!Left + fed - From(melDone') < Reach
      /\ step' \in {"encode", "decode", "leave"}
      /\ clamp' = clamp
  BY FeedMel
<1>3. VoxtralCounts'
  BY <1>1, <1>2 DEF VoxtralCounts
<1>4. VoxtralBuffer'
  <2>1. ~PastMel
    BY <1>1 DEF PastMel
  <2>2. /\ Voxtral!Erased \in Nat
        /\ pcmStart + Voxtral!Erased <= NonNeg(From(melDone) - Voxtral!Left)
    BY <2>1, ErasedIs
  <2>3. pcmStart' <= NonNeg(From(melDone') - Voxtral!Left)
    BY <1>2, <2>2, StillThere DEF VoxtralCounts
  <2>4. pcmStart' + pcm' = fed
    BY <1>2, <2>2 DEF VoxtralCounts, VoxtralBuffer
  <2> QED  BY <1>1, <1>2, <2>3, <2>4, FromPrimed DEF VoxtralBuffer
<1>5. VoxtralBacklog'
  <2>1. lastDecode < Reach + interval + Most
    BY DEF VoxtralBacklog
  <2>2. Most' = Most
    BY FromPrimed DEF Most
  <2> QED  BY <1>1, <1>2, <2>1, <2>2, FromPrimed DEF VoxtralBacklog
<1>6. VoxtralText'
  BY <1>1, <1>2 DEF VoxtralText, PastMel
<1> QED  BY <1>3, <1>4, <1>5, <1>6

\* The tokens of a stream change with its audio alone.
LEMMA SameTokens ==
  ASSUME fed' = fed, delay' = delay
  PROVE  AllTokens' = AllTokens
BY DEF AllTokens, CeilDiv, Voxtral!RawPerTok

\* The window of finalize keeps the invariant: it counts all tokens.
LEMMA FinalMelKept ==
  ASSUME VoxtralCounts, VoxtralBuffer, VoxtralText, InTime,
         path \in Paths, path' = path,
         stream = "ACTIVE", call = "finalize", Voxtral!ComputeMel
  PROVE  VoxtralCounts' /\ VoxtralBuffer' /\ VoxtralBacklog' /\ VoxtralText'
<1>1. /\ step = "mel" /\ ~PastMel
      /\ UNCHANGED <<stream, call, fed, input, committed, interval, lastDecode, delay>>
      /\ UNCHANGED <<encDone, tokReady, audioBase, promptDone, decPos, eos, truncated>>
  BY DEF Voxtral!ComputeMel, Voxtral!throttleVars, PastMel
<1>2. /\ pcm \in Nat /\ pcmStart \in Nat /\ fed \in Nat /\ melDone \in Nat
      /\ pcmStart + pcm = fed /\ delay \in Delays /\ tokReady \in Nat
  BY DEF VoxtralCounts, VoxtralBuffer
<1>3. AllTokens \in Nat
  BY <1>2, AllTokensIs
<1>4. /\ Voxtral!MelReady \in Nat /\ Voxtral!MelReady > 4
      /\ Voxtral!NonNeg(Voxtral!NewMel) \div 2 = Down * (AllTokens - tokReady)
      /\ ((Voxtral!MelReady - 2) \div 2 + 1) \div Down = AllTokens
  BY <1>1, FinalNew
<1>5. ~((pcm = 0 /\ ~Voxtral!Final) \/ Voxtral!TotalAbs <= Voxtral!WinSample)
  <2>1. /\ Voxtral!TotalAbs = AllTokens * Voxtral!RawPerTok
        /\ Voxtral!WinSample < Voxtral!TotalAbs
    BY <1>1, FinalReady
  <2>2. AllTokens * Voxtral!RawPerTok \in Nat
    BY <1>3, VoxtralGeometry
  <2>3. Voxtral!WinSample \in Nat
    BY WindowIs
  <2> QED  BY <2>1, <2>2, <2>3 DEF Voxtral!Final
<1>6. ~(Voxtral!MelReady <= 4)
  BY <1>4
<1>7. /\ pcm' = pcm - Voxtral!Erased
      /\ pcmStart' = pcmStart + Voxtral!Erased
      /\ melDone' = melDone + Voxtral!NonNeg(Voxtral!NewMel)
      /\ toEncode' = Voxtral!NonNeg(Voxtral!NewMel) \div 2
      /\ clamp' = ((Voxtral!MelReady - 2) \div 2 + 1) \div Down
      /\ step' = IF Voxtral!NewMel > 0 THEN "encode" ELSE "decode"
  BY <1>5, <1>6 DEF Voxtral!ComputeMel, Voxtral!Final
<1>8. /\ Voxtral!Erased \in Nat /\ Voxtral!Erased <= pcm
      /\ pcmStart + Voxtral!Erased <= NonNeg(From(melDone) - Voxtral!Left)
  BY <1>1, ErasedIs
<1>9. Voxtral!NonNeg(Voxtral!NewMel) \in Nat
  BY <1>2, <1>4, NewMelIs
<1>10. /\ melDone' \in Nat /\ melDone <= melDone' /\ pcm' \in Nat /\ pcmStart' \in Nat
       /\ pcmStart' + pcm' = fed
  BY <1>2, <1>7, <1>8, <1>9
<1>11. step' \in {"encode", "decode"} /\ clamp' = AllTokens
  BY <1>4, <1>7
<1>12. VoxtralCounts'
  BY <1>1, <1>3, <1>10, <1>11 DEF VoxtralCounts
<1>13. VoxtralBuffer'
  <2>1. pcmStart' <= NonNeg(From(melDone') - Voxtral!Left)
    BY <1>2, <1>7, <1>8, <1>10, StillThere
  <2>2. PastMel'
    BY <1>1, <1>11 DEF PastMel
  <2> QED  BY <1>1, <1>10, <2>1, <2>2, FromPrimed DEF VoxtralBuffer
<1>14. VoxtralBacklog'
  BY <1>1 DEF VoxtralBacklog
<1>15. VoxtralText'
  <2>1. encDone' + toEncode' = Down * AllTokens
    <3>1. encDone = Down * tokReady /\ Down \in Nat
      BY VoxtralGeometry DEF InTime
    <3>2. Down * tokReady + Down * (AllTokens - tokReady) = Down * AllTokens
      BY <1>2, <1>3, <3>1
    <3> QED  BY <1>1, <1>4, <1>7, <3>1, <3>2
  <2>2. AllTokens' = AllTokens
    BY <1>1, SameTokens
  <2> QED  BY <1>1, <1>11, <2>1, <2>2 DEF VoxtralText
<1> QED  BY <1>12, <1>13, <1>14, <1>15

\* What stays as it was.
LEMMA VoxtralStays ==
  ASSUME VoxtralCounts, VoxtralBuffer, UNCHANGED <<fed, pcm, pcmStart, melDone, delay>>,
         committed' = committed, PastMel => PastMel', stream' = stream
  PROVE  VoxtralBuffer'
BY FromPrimed DEF VoxtralBuffer

\* A batch is encoded.
LEMMA EncodeKept ==
  ASSUME VoxtralCounts, VoxtralBuffer, VoxtralBacklog, VoxtralText, RingKept, InTime,
         path' = path, stream = "ACTIVE", Voxtral!EncodeBatch
  PROVE  VoxtralCounts' /\ VoxtralBuffer' /\ VoxtralBacklog' /\ VoxtralText'
<1>1. /\ step = "encode" /\ step' \in {"encode", "decode"}
      /\ UNCHANGED <<stream, call, fed, input, committed, pcm, pcmStart>>
      /\ UNCHANGED <<interval, lastDecode, delay, melDone>>
      /\ UNCHANGED <<audioBase, promptDone, decPos, eos, truncated, clamp>>
  BY DEF Voxtral!EncodeBatch, Voxtral!cursors, Voxtral!throttleVars,
         Voxtral!decoderVars
<1>2. /\ encDone' = encDone + Voxtral!Batch /\ toEncode' = toEncode - Voxtral!Batch
      /\ tokReady' = tokReady + Voxtral!Batch \div Down
  BY DEF Voxtral!EncodeBatch
<1>3. Voxtral!Batch \in Nat /\ encDone \in Nat /\ toEncode \in Nat /\ Down \in Nat \ {0}
      /\ tokReady \in Nat /\ decPos \in Nat
  BY BatchBounded, VoxtralGeometry DEF InTime
<1>4. Voxtral!Batch \div Down \in Nat
  BY <1>3
<1>5. tokReady' \in Nat /\ tokReady <= tokReady'
  BY <1>2, <1>3, <1>4
<1>6. encDone' + toEncode' = encDone + toEncode
  BY <1>2, <1>3
<1>7. VoxtralCounts'
  BY <1>1, <1>5 DEF VoxtralCounts
<1>8. VoxtralBuffer'
  BY <1>1, VoxtralStays DEF PastMel
<1>9. VoxtralBacklog'
  <2>1. Most' = Most
    BY FromPrimed DEF Most
  <2> QED  BY <1>1, <2>1, FromPrimed DEF VoxtralBacklog
<1>10. VoxtralText'
  <2>1. AllTokens' = AllTokens
    BY <1>1, SameTokens
  <2> QED  BY <1>1, <1>3, <1>5, <1>6, <2>1 DEF VoxtralText, PastMel
<1> QED  BY <1>7, <1>8, <1>9, <1>10

\* When everything is encoded that finalize has counted, the tokens are as many.
LEMMA TokensCounted ==
  ASSUME VoxtralCounts, VoxtralBuffer, VoxtralText, InTime, stream = "ACTIVE",
         PastMel, toEncode = 0
  PROVE  tokReady = AllTokens /\ clamp = tokReady /\ AllTokens \in Nat
<1>1. /\ encDone + toEncode = Down * AllTokens /\ clamp = AllTokens
      /\ encDone = Down * tokReady
  BY DEF VoxtralText, InTime
<1>2. AllTokens \in Nat /\ tokReady \in Nat /\ Down \in Nat \ {0} /\ encDone \in Nat
  BY AllTokensIs, VoxtralGeometry DEF VoxtralBuffer, VoxtralCounts, InTime
<1>3. Down * tokReady = Down * AllTokens
  BY <1>1, <1>2
<1>4. (Down * tokReady) \div Down = tokReady /\ (Down * AllTokens) \div Down = AllTokens
  BY <1>2, DivideMultiple
<1> QED  BY <1>1, <1>2, <1>3, <1>4

\* The clamp takes no token away: every token that is encoded may be decoded.
LEMMA DueIs ==
  ASSUME VoxtralCounts, VoxtralBuffer, VoxtralText, InTime, stream = "ACTIVE",
         step = "decode"
  PROVE  /\ Voxtral!Due = tokReady
         /\ Voxtral!Cap = IF tokReady <= MaxPosition THEN tokReady ELSE MaxPosition
         /\ tokReady \in Nat /\ MaxPosition \in Nat \ {0}
<1>1. tokReady \in Nat /\ MaxPosition \in Nat \ {0} /\ toEncode = 0
  BY VoxtralGeometry DEF VoxtralCounts, InTime
<1>2. Voxtral!Due = tokReady
  <2>1. CASE call = "finalize"
    <3>1. clamp = tokReady
      BY <1>1, <2>1, TokensCounted DEF PastMel
    <3>2. Min({tokReady, tokReady}) = tokReady
      BY <1>1, MinOfTwo
    <3> QED  BY <3>1, <3>2, SharedOperators DEF Voxtral!Due
  <2>2. CASE call # "finalize"
    BY <2>2 DEF Voxtral!Due, Voxtral!Final
  <2> QED  BY <2>1, <2>2
<1>3. Voxtral!Cap = Min({tokReady, MaxPosition})
  BY <1>2, SharedOperators DEF Voxtral!Cap
<1>4. Min({tokReady, MaxPosition})
        = IF tokReady <= MaxPosition THEN tokReady ELSE MaxPosition
  BY <1>1, MinOfTwo
<1> QED  BY <1>1, <1>2, <1>3, <1>4

\* Tokens are decoded up to the last that is encoded, the end, or the limit.
LEMMA DecodeKept ==
  ASSUME VoxtralCounts, VoxtralBuffer, VoxtralBacklog, VoxtralText, InTime,
         path' = path, stream = "ACTIVE",
         Voxtral!ReadPrompt \/ Voxtral!DecodeToken \/ Voxtral!Publish
  PROVE  VoxtralCounts' /\ VoxtralBuffer' /\ VoxtralBacklog' /\ VoxtralText'
<1>1. /\ step = "decode" /\ step' \in {"decode", "leave"}
      /\ UNCHANGED <<stream, call, fed, input, committed, pcm, pcmStart>>
      /\ UNCHANGED <<interval, lastDecode, delay, melDone, toEncode, encDone>>
      /\ UNCHANGED <<tokReady, clamp>>
  BY DEF Voxtral!ReadPrompt, Voxtral!DecodeToken, Voxtral!Publish, Voxtral!cursors,
         Voxtral!throttleVars, Voxtral!encoderVars
<1>2. /\ Voxtral!Due = tokReady
      /\ Voxtral!Cap = IF tokReady <= MaxPosition THEN tokReady ELSE MaxPosition
      /\ tokReady \in Nat /\ MaxPosition \in Nat \ {0}
  BY <1>1, DueIs
<1>3. decPos \in Nat /\ audioBase \in Nat /\ audioBase <= decPos /\ decPos <= tokReady
      /\ (promptDone \/ decPos = 0)
  BY DEF VoxtralCounts, InTime
<1>4. /\ decPos <= MaxPosition
      /\ truncated => decPos = MaxPosition /\ decPos < tokReady
      /\ PastMel => encDone + toEncode = Down * AllTokens /\ clamp = AllTokens
  BY DEF VoxtralText
<1>5. delay \in Nat \ {0} /\ delay \in Delays /\ fed \in Nat
  BY AllTokensIs DEF VoxtralBuffer, VoxtralCounts
<1>6. /\ decPos' \in Nat /\ audioBase' \in Nat /\ decPos' <= MaxPosition
      /\ promptDone' \in BOOLEAN /\ eos' \in BOOLEAN /\ truncated' \in BOOLEAN
      /\ truncated' => decPos' = MaxPosition /\ decPos' < tokReady
      /\ step' = "leave" => (promptDone' /\ ~eos' /\ ~truncated' => decPos' = tokReady)
      /\ call = "finalize" /\ step' = "leave" => promptDone'
  <2>0. promptDone \in BOOLEAN /\ eos \in BOOLEAN /\ truncated \in BOOLEAN
    BY DEF VoxtralCounts
  <2>1. CASE Voxtral!ReadPrompt
    <3>1. /\ decPos' = Voxtral!Prompt /\ promptDone' = TRUE /\ ~promptDone
          /\ UNCHANGED <<step, audioBase, eos, truncated>>
      BY <2>1 DEF Voxtral!ReadPrompt, Voxtral!PromptDue
    <3>2. Voxtral!Prompt \in Nat /\ Voxtral!Prompt <= MaxPosition
      <4>1. LeftTokens \in Nat
        BY VoxtralGeometry
      <4> QED  BY <1>5, <4>1, VoxtralAssumption DEF Voxtral!Prompt
    <3>3. ~truncated
      BY <1>2, <1>3, <1>4, <3>1
    <3> QED  BY <1>1, <1>3, <2>0, <3>1, <3>2, <3>3
  <2>2. CASE Voxtral!DecodeToken
    <3>1. /\ decPos' = decPos + 1 /\ eos' \in BOOLEAN /\ decPos < Voxtral!Cap
          /\ UNCHANGED <<step, audioBase, promptDone, truncated>>
      BY <2>2 DEF Voxtral!DecodeToken, Voxtral!TokenDue
    <3>2. decPos < MaxPosition
      BY <1>2, <1>3, <3>1
    <3>3. ~truncated
      BY <1>2, <1>3, <1>4, <3>2
    <3> QED  BY <1>1, <1>2, <1>3, <2>0, <3>1, <3>2, <3>3
  <2>3. CASE Voxtral!Publish
    <3>1. /\ UNCHANGED <<promptDone, decPos, eos>>
          /\ truncated' = (truncated \/ (promptDone /\ ~eos /\ MaxPosition < Voxtral!Due
                                           /\ decPos >= Voxtral!Cap))
          /\ audioBase' = Voxtral!Max({audioBase, decPos})
          /\ ~Voxtral!PromptDue /\ ~Voxtral!TokenDue
      BY <2>3 DEF Voxtral!Publish
    <3>2. audioBase' \in Nat
      <4>1. Voxtral!Max({audioBase, decPos}) \in {audioBase, decPos}
        <5>1. audioBase \in Int /\ decPos \in Int
          BY <1>3
        <5> QED  BY <5>1, VoxtralMax
      <4> QED  BY <1>3, <3>1, <4>1
    <3>3. promptDone /\ ~eos => decPos >= Voxtral!Cap
      BY <1>2, <1>3, <3>1 DEF Voxtral!TokenDue
    <3>8. /\ truncated' => truncated \/ (MaxPosition < Voxtral!Due /\ decPos >= Voxtral!Cap)
          /\ promptDone /\ ~eos /\ ~truncated' =>
               ~(MaxPosition < Voxtral!Due /\ decPos >= Voxtral!Cap)
          /\ decPos' = decPos
      BY <3>1, Zenon
    <3>4. truncated' => decPos' = MaxPosition /\ decPos' < tokReady
      BY <1>2, <1>3, <1>4, <3>8
    <3>5. promptDone /\ ~eos /\ ~truncated' => decPos = tokReady
      BY <1>2, <1>3, <3>3, <3>8
    <3>6. call = "finalize" => promptDone
      <4> SUFFICES ASSUME call = "finalize"
                   PROVE  promptDone
        OBVIOUS
      <4>1. tokReady = AllTokens
        <5>1. toEncode = 0 /\ PastMel
          BY <1>1 DEF InTime, PastMel
        <5> QED  BY <5>1, TokensCounted
      <4>2. AllTokens >= 1 + LeftTokens + delay
        BY <1>5, AllTokensIs
      <4> QED  BY <3>1, <4>1, <4>2 DEF Voxtral!PromptDue, Voxtral!Prompt
    <3>7. truncated' \in BOOLEAN
      BY <2>0, <3>1
    <3> QED  BY <1>3, <1>4, <2>0, <3>1, <3>2, <3>4, <3>5, <3>6, <3>7
  <2> QED  BY <2>1, <2>2, <2>3
<1>7. VoxtralCounts'
  BY <1>1, <1>6 DEF VoxtralCounts
<1>8. VoxtralBuffer'
  BY <1>1, VoxtralStays DEF PastMel
<1>9. VoxtralBacklog'
  <2>1. Most' = Most
    BY FromPrimed DEF Most
  <2> QED  BY <1>1, <2>1, FromPrimed DEF VoxtralBacklog
<1>10. VoxtralText'
  <2>1. AllTokens' = AllTokens
    BY <1>1, SameTokens
  <2> QED  BY <1>1, <1>4, <1>6, <2>1 DEF VoxtralText, PastMel
<1> QED  BY <1>7, <1>8, <1>9, <1>10

\* A stream begins with nothing done.
LEMMA VoxtralBegins ==
  ASSUME VoxtralCounts, path \in Paths, path' = path, Voxtral!Begin
  PROVE  VoxtralCounts' /\ VoxtralBuffer' /\ VoxtralBacklog' /\ VoxtralText'
         /\ VoxtralEnd'
<1>1. /\ stream # "ACTIVE" /\ stream' = "ACTIVE" /\ call' = call /\ step' = step
      /\ fed' = 0 /\ input' = 0 /\ committed' = 0 /\ pcm' = 0 /\ pcmStart' = 0
      /\ delay' \in Delays /\ interval' \in Intervals /\ lastDecode' = 0
      /\ melDone' = 0 /\ toEncode' = 0 /\ encDone' = 0 /\ tokReady' = 0
      /\ audioBase' = 0 /\ promptDone' = FALSE /\ decPos' = 0
      /\ eos' = FALSE /\ clamp' = -1 /\ truncated' = FALSE
  BY DEF Voxtral!Begin, Voxtral!Begins
<1>2. call = "none" /\ step = "idle"
  BY <1>1 DEF VoxtralCounts
<1>3. interval' \in Nat
  BY <1>1, VoxtralAssumption
<1>4. VoxtralCounts'
  BY <1>1, <1>2, <1>3 DEF VoxtralCounts
<1>5. From(0) = 0 /\ Voxtral!Left \in Nat \ {0} /\ Reach \in Nat /\ Reach > 0
  BY FromIs, VoxtralGeometry
<1>6. VoxtralBuffer'
  <2>1. NonNeg(From(0) - Voxtral!Left) \in Nat
    <3>1. From(0) - Voxtral!Left \in Int
      BY <1>5
    <3> QED  BY <3>1, NonNegIs
  <2>2. From(melDone') = From(0)
    BY <1>1
  <2>3. 0 <= NonNeg(From(melDone') - Voxtral!Left)
    BY <2>1, <2>2
  <2> QED  BY <1>1, <2>3, FromPrimed DEF VoxtralBuffer
<1>7. VoxtralBacklog'
  <2>1. Most' = Most /\ Most \in Nat \ {0}
    BY MostIs, FromPrimed DEF Most
  <2>2. Max({1, interval'}) \in Nat \ {0}
    <3>1. Max({1, interval'}) = IF 1 >= interval' THEN 1 ELSE interval'
      BY <1>3, MaxOfTwo
    <3> QED  BY <1>3, <3>1
  <2>3. Max({1, interval})' = Max({1, interval'})
    BY Zenon DEF Max
  <2>4. 0 < Reach + interval' + Most
    <3>1. \A a, b, c \in Nat : a > 0 => 0 < a + b + c
      OBVIOUS
    <3> QED  BY <1>3, <1>5, <2>1, <3>1
  <2> QED  BY <1>1, <1>2, <2>1, <2>2, <2>3, <2>4, FromPrimed DEF VoxtralBacklog
<1>8. VoxtralText'
  BY <1>1, <1>2, VoxtralGeometry DEF VoxtralText, PastMel
<1>9. VoxtralEnd'
  BY <1>1 DEF VoxtralEnd
<1> QED  BY <1>4, <1>6, <1>7, <1>8, <1>9

\* A feed appends, and looks at the audio when there is enough of it.
LEMMA VoxtralFeeds ==
  ASSUME VoxtralCounts, VoxtralBuffer, VoxtralBacklog, VoxtralText, path \in Paths,
         path' = path, NEW n \in Feeds[path], Voxtral!Feed(n)
  PROVE  VoxtralCounts' /\ VoxtralBuffer' /\ VoxtralBacklog' /\ VoxtralText'
         /\ VoxtralEnd'
<1>1. /\ stream = "ACTIVE" /\ call = "none" /\ call' = "feed"
      /\ fed' = fed + n /\ pcm' = pcm + n /\ input' = pcm'
      /\ step' = IF pcm' - lastDecode >= interval THEN "mel" ELSE "wait"
      /\ UNCHANGED <<stream, committed, pcmStart, interval, lastDecode, delay>>
      /\ UNCHANGED <<melDone, toEncode, encDone, tokReady>>
      /\ UNCHANGED <<audioBase, promptDone, decPos, eos, clamp, truncated>>
  BY DEF Voxtral!Feed, Voxtral!Appends, Voxtral!throttleVars, Voxtral!encoderVars,
         Voxtral!decoderVars
<1>2. n \in Nat \ {0} /\ n <= Most /\ Most \in Nat \ {0}
  BY MostIs
<1>3. /\ step = "idle" /\ fed \in Nat /\ pcm \in Nat /\ lastDecode \in Nat
      /\ interval \in Nat /\ melDone \in Nat
  BY <1>1 DEF VoxtralCounts
<1>4. VoxtralCounts'
  BY <1>1, <1>2 DEF VoxtralCounts
<1>5. /\ Hop \in Nat \ {0} /\ Win \in Nat \ {0} /\ Voxtral!Left \in Nat
      /\ From(melDone) \in Nat /\ melDone * Hop \in Nat /\ MelPerTok * Hop \in Nat
      /\ Reach \in Nat
  BY <1>3, VoxtralGeometry, FromIs
<1>6. VoxtralBuffer'
  <2>1. /\ pcmStart + pcm = fed /\ committed = 0 /\ delay \in Delays
        /\ pcmStart <= NonNeg(From(melDone) - Voxtral!Left)
        /\ melDone = 0 \/ (4 <= melDone /\ (melDone - 1) * Hop + Win <= Voxtral!Left + fed)
    BY <1>1, Zenon DEF VoxtralBuffer, PastMel
  <2>2. pcmStart' + pcm' = fed'
    BY <1>1, <1>2, <1>3, <2>1 DEF VoxtralCounts
  <2>3. melDone = 0
          \/ (4 <= melDone /\ (melDone - 1) * Hop + Win <= Voxtral!Left + fed')
    <3>1. (melDone - 1) * Hop \in Int
      BY <1>3, <1>5
    <3> QED  BY <1>1, <1>2, <1>3, <1>5, <2>1, <3>1
  <2>4. From(melDone') = From(melDone)
    BY <1>1
  <2>5. pcmStart' <= NonNeg(From(melDone') - Voxtral!Left)
    BY <1>1, <2>1, <2>4
  <2> QED  BY <1>1, <2>1, <2>2, <2>3, <2>5, FromPrimed DEF VoxtralBuffer
<1>7. VoxtralBacklog'
  <2>1. Most' = Most /\ Max({1, interval})' = Max({1, interval})
    <3>1. Most' = Most
      BY FromPrimed DEF Most
    <3> QED  BY <1>1, <3>1
  <2>2. /\ lastDecode < Reach + interval + Most
        /\ pcm - lastDecode < Max({1, interval})
        /\ melDone > 0 => Voxtral!Left + fed - melDone * Hop
                            < MelPerTok * Hop + Win + (pcm - lastDecode)
        /\ lastDecode = 0 \/ Voxtral!Left + fed - From(melDone)
                               < Reach + (pcm - lastDecode)
    BY <1>1, <1>3 DEF VoxtralBacklog
  <2>3. Max({1, interval}) \in Nat \ {0}
        /\ Max({1, interval}) = IF 1 >= interval THEN 1 ELSE interval
    BY <1>3, ThrottleIs
  <2> HIDE DEF Most
  <2>4. pcm' > 0 /\ pcm' - lastDecode < Max({1, interval}) + Most
        /\ (step' = "wait" => pcm' - lastDecode < Max({1, interval}))
    BY <1>1, <1>2, <1>3, <2>2, <2>3
  <2>5. /\ melDone > 0 => Voxtral!Left + fed' - melDone * Hop
                            < MelPerTok * Hop + Win + (pcm' - lastDecode)
        /\ lastDecode = 0 \/ Voxtral!Left + fed' - From(melDone)
                               < Reach + (pcm' - lastDecode)
    BY <1>1, <1>2, <1>3, <1>5, <2>2
  <2>6. step' \in {"mel", "wait"} /\ call' = "feed"
    BY <1>1
  <2> QED
    BY <1>1, <2>1, <2>2, <2>4, <2>5, <2>6, FromPrimed DEF VoxtralBacklog
<1>8. VoxtralText'
  BY <1>1, <1>3 DEF VoxtralText, PastMel
<1>9. VoxtralEnd'
  BY <1>1 DEF VoxtralEnd
<1> QED  BY <1>4, <1>6, <1>7, <1>8, <1>9

\* A feed returns.
LEMMA VoxtralFeedEnds ==
  ASSUME VoxtralCounts, VoxtralBuffer, VoxtralBacklog, VoxtralText, path \in Paths,
         path' = path, Voxtral!FeedEnds
  PROVE  VoxtralCounts' /\ VoxtralBuffer' /\ VoxtralBacklog' /\ VoxtralText'
         /\ VoxtralEnd'
<1>1. /\ call = "feed" /\ step \in {"wait", "leave"} /\ call' = "none" /\ step' = "idle"
      /\ lastDecode' = IF step = "leave" THEN pcm ELSE lastDecode
      /\ UNCHANGED <<stream, fed, input, committed, pcm, pcmStart, interval, delay>>
      /\ UNCHANGED <<melDone, toEncode, encDone, tokReady>>
      /\ UNCHANGED <<audioBase, promptDone, decPos, eos, clamp, truncated>>
  BY DEF Voxtral!FeedEnds, Voxtral!encoderVars, Voxtral!decoderVars
<1>2. /\ stream = "ACTIVE" /\ fed \in Nat /\ pcm \in Nat /\ lastDecode \in Nat
      /\ interval \in Nat /\ melDone \in Nat
  BY <1>1 DEF VoxtralCounts
<1>3. VoxtralCounts'
  BY <1>1, <1>2 DEF VoxtralCounts
<1>4. VoxtralBuffer'
  BY <1>1, VoxtralStays DEF PastMel
<1>5. VoxtralBacklog'
  <2>1. Most' = Most /\ Max({1, interval})' = Max({1, interval})
    <3>1. Most' = Most
      BY FromPrimed DEF Most
    <3> QED  BY <1>1, <3>1
  <2>2. CASE step = "wait"
    <3>1. lastDecode' = lastDecode
      BY <1>1, <2>2
    <3> QED  BY <1>1, <1>2, <2>1, <2>2, <3>1, FromPrimed DEF VoxtralBacklog
  <2>3. CASE step = "leave"
    <3>1. lastDecode' = pcm
      BY <1>1, <2>3
    <3>2. /\ melDone > 0 =>
               Voxtral!Left + fed - melDone * Hop < MelPerTok * Hop + Win
          /\ Voxtral!Left + fed - From(melDone) < Reach
          /\ pcm < Reach + interval + Most
      BY <1>1, <1>2, <2>3 DEF VoxtralBacklog
    <3>3. Max({1, interval}) \in Nat \ {0} /\ pcm - pcm = 0
      BY <1>2, ThrottleIs
    <3>4. MelPerTok * Hop + Win + (pcm - pcm) = MelPerTok * Hop + Win
          /\ Reach + (pcm - pcm) = Reach
      <4>1. MelPerTok * Hop \in Nat /\ Win \in Nat /\ Reach \in Nat
        BY VoxtralGeometry
      <4> QED  BY <1>2, <4>1
    <3> QED  BY <1>1, <1>2, <2>1, <3>1, <3>2, <3>3, <3>4, FromPrimed DEF VoxtralBacklog
  <2> QED  BY <1>1, <2>2, <2>3
<1>6. VoxtralText'
  BY <1>1, <1>2 DEF VoxtralText, PastMel
<1>7. VoxtralEnd'
  BY <1>1, <1>2 DEF VoxtralEnd
<1> QED  BY <1>3, <1>4, <1>5, <1>6, <1>7

\* Finalize begins.
LEMMA VoxtralFinalizes ==
  ASSUME VoxtralCounts, VoxtralBuffer, VoxtralBacklog, VoxtralText,
         path' = path, Voxtral!Finalize
  PROVE  VoxtralCounts' /\ VoxtralBuffer' /\ VoxtralBacklog' /\ VoxtralText'
         /\ VoxtralEnd'
<1>1. /\ stream = "ACTIVE" /\ call = "none" /\ call' = "finalize" /\ step' = "mel"
      /\ UNCHANGED <<stream, fed, input, committed, pcm, pcmStart>>
      /\ UNCHANGED <<interval, lastDecode, delay>>
      /\ UNCHANGED <<melDone, toEncode, encDone, tokReady>>
      /\ UNCHANGED <<audioBase, promptDone, decPos, eos, clamp, truncated>>
  BY DEF Voxtral!Finalize, Voxtral!FinalizeStarts, Voxtral!throttleVars,
         Voxtral!encoderVars, Voxtral!decoderVars
<1>2. step = "idle"
  BY <1>1 DEF VoxtralCounts
<1>3. VoxtralCounts'
  BY <1>1 DEF VoxtralCounts
<1>4. VoxtralBuffer'
  BY <1>1, VoxtralStays DEF PastMel
<1>5. VoxtralBacklog'
  BY <1>1 DEF VoxtralBacklog
<1>6. VoxtralText'
  BY <1>1, <1>2 DEF VoxtralText, PastMel
<1>7. VoxtralEnd'
  BY <1>1 DEF VoxtralEnd
<1> QED  BY <1>3, <1>4, <1>5, <1>6, <1>7

\* Finalize returns, with every token decoded.
LEMMA VoxtralFinishes ==
  ASSUME VoxtralCounts, VoxtralBuffer, VoxtralBacklog, VoxtralText, InTime,
         stream = "ACTIVE", path' = path, Voxtral!FinalizeEnds
  PROVE  VoxtralCounts' /\ VoxtralBuffer' /\ VoxtralBacklog' /\ VoxtralText'
         /\ VoxtralEnd'
<1>1. /\ call = "finalize" /\ step = "leave" /\ stream' = "FINISHED"
      /\ call' = "none" /\ step' = "idle"
      /\ input' = pcm /\ committed' = pcm
      /\ UNCHANGED <<fed, pcm, pcmStart, interval, lastDecode, delay>>
      /\ UNCHANGED <<melDone, toEncode, encDone, tokReady>>
      /\ UNCHANGED <<audioBase, promptDone, decPos, eos, clamp, truncated>>
  BY DEF Voxtral!FinalizeEnds, Voxtral!Finishes, Voxtral!throttleVars,
         Voxtral!encoderVars, Voxtral!decoderVars
<1>2. toEncode = 0 /\ PastMel
  BY <1>1 DEF InTime, PastMel
<1>3. tokReady = AllTokens
  BY <1>2, TokensCounted
<1>4. /\ truncated => decPos = MaxPosition /\ decPos < tokReady
      /\ promptDone /\ ~eos /\ ~truncated => decPos = tokReady
      /\ promptDone
  BY <1>1 DEF VoxtralText
<1>5. VoxtralEnd'
  <2>1. AllTokens' = AllTokens
    BY <1>1, SameTokens
  <2> QED  BY <1>1, <1>3, <1>4, <2>1 DEF VoxtralEnd
<1>6. VoxtralCounts'
  BY <1>1 DEF VoxtralCounts
<1>7. VoxtralBuffer' /\ VoxtralBacklog' /\ VoxtralText'
  BY <1>1 DEF VoxtralBuffer, VoxtralBacklog, VoxtralText
<1> QED  BY <1>5, <1>6, <1>7

\* A stream fails, or is reset.
LEMMA VoxtralStops ==
  ASSUME VoxtralCounts, VoxtralBuffer, path' = path,
         Voxtral!Aborts \/ Voxtral!Fails \/ Voxtral!Reset
  PROVE  VoxtralCounts' /\ VoxtralBuffer' /\ VoxtralBacklog' /\ VoxtralText'
         /\ VoxtralEnd'
<1>1. stream' \in {"IDLE", "FAILED"}
  BY DEF Voxtral!Aborts, Voxtral!AbortsAtOnce, Voxtral!Fails, Voxtral!HookFails,
         Voxtral!Reset, Voxtral!Resets
<1>2. VoxtralBuffer' /\ VoxtralBacklog' /\ VoxtralText' /\ VoxtralEnd'
  BY <1>1 DEF VoxtralBuffer, VoxtralBacklog, VoxtralText, VoxtralEnd
<1>3. VoxtralCounts'
  <2>1. CASE Voxtral!Aborts
    <3>1. /\ call = "none" /\ stream' = "FAILED"
          /\ UNCHANGED <<call, step, fed, input, committed, pcm, pcmStart>>
          /\ UNCHANGED <<interval, lastDecode, delay, melDone, tokReady>>
          /\ UNCHANGED <<audioBase, promptDone, decPos, eos, clamp, truncated>>
      BY <2>1 DEF Voxtral!Aborts, Voxtral!AbortsAtOnce, Voxtral!voxtralVars,
                  Voxtral!throttleVars, Voxtral!encoderVars, Voxtral!decoderVars
    <3> QED  BY <3>1 DEF VoxtralCounts
  <2>2. CASE Voxtral!Fails
    <3>1. /\ call # "none" /\ stream' = "FAILED" /\ call' = "none" /\ step' = "idle"
          /\ UNCHANGED <<fed, input, committed>>
          /\ UNCHANGED <<interval, lastDecode, delay, melDone, tokReady>>
          /\ UNCHANGED <<audioBase, promptDone, decPos, eos, clamp, truncated>>
          /\ \/ UNCHANGED <<pcm, pcmStart>>
             \/ step = "mel" /\ pcm' = pcm - Voxtral!Erased
                  /\ pcmStart' = pcmStart + Voxtral!Erased
      BY <2>2 DEF Voxtral!Fails, Voxtral!HookFails, Voxtral!throttleVars,
                  Voxtral!decoderVars
    <3>2. pcm' \in Nat /\ pcmStart' \in Nat
      <4>1. CASE UNCHANGED <<pcm, pcmStart>>
        BY <4>1 DEF VoxtralCounts
      <4>2. CASE step = "mel" /\ pcm' = pcm - Voxtral!Erased
                   /\ pcmStart' = pcmStart + Voxtral!Erased
        <5>1. stream = "ACTIVE" /\ ~PastMel
          BY <3>1, <4>2 DEF VoxtralCounts, PastMel
        <5>2. Voxtral!Erased \in Nat /\ Voxtral!Erased <= pcm
          BY <5>1, ErasedIs
        <5> QED  BY <4>2, <5>2 DEF VoxtralCounts
      <4> QED  BY <3>1, <4>1, <4>2
    <3> QED  BY <3>1, <3>2 DEF VoxtralCounts
  <2>3. CASE Voxtral!Reset
    <3>1. /\ call = "none" /\ stream' = "IDLE" /\ UNCHANGED <<call, step>>
          /\ pcm' = 0 /\ fed' = 0 /\ input' = 0 /\ committed' = 0 /\ pcmStart' = 0
          /\ lastDecode' = 0 /\ delay' = -1 /\ melDone' = 0 /\ tokReady' = 0
          /\ audioBase' = 0 /\ promptDone' = FALSE /\ decPos' = 0
          /\ eos' = FALSE /\ clamp' = -1 /\ UNCHANGED <<interval, truncated>>
      BY <2>3 DEF Voxtral!Reset, Voxtral!Resets
    <3> QED  BY <3>1 DEF VoxtralCounts
  <2> QED  BY <2>1, <2>2, <2>3
<1> QED  BY <1>2, <1>3

\* Every step of voxtral keeps what is said of its audio and its text.
LEMMA VoxtralSteps ==
  ASSUME VoxtralKept, RingKept, KeepsTime, path = "voxtral", path' = path,
         path \in Paths, Voxtral!VoxtralNext
  PROVE  VoxtralKept'
<1> SUFFICES VoxtralCounts' /\ VoxtralBuffer' /\ VoxtralBacklog' /\ VoxtralText'
             /\ VoxtralEnd'
  BY DEF VoxtralKept
<1>1. VoxtralCounts /\ VoxtralBuffer /\ VoxtralBacklog /\ VoxtralText /\ VoxtralEnd
  BY DEF VoxtralKept
<1>2. stream = "ACTIVE" => InTime
  BY DEF KeepsTime
<1>3. call # "none" \/ step # "idle" => stream = "ACTIVE"
  BY <1>1 DEF VoxtralCounts
<1>4. CASE Voxtral!Begin
  BY <1>1, <1>4, VoxtralBegins
<1>5. CASE \E n \in Feeds[path] : Voxtral!Feed(n)
  <2>1. PICK n \in Feeds[path] : Voxtral!Feed(n)
    BY <1>5
  <2> QED  BY <1>1, <2>1, VoxtralFeeds
<1>6. CASE Voxtral!ComputeMel
  <2>1. stream = "ACTIVE" /\ stream' = "ACTIVE" /\ call \in {"feed", "finalize"}
    BY <1>1, <1>6 DEF Voxtral!ComputeMel, VoxtralCounts
  <2>2. VoxtralEnd'
    BY <2>1 DEF VoxtralEnd
  <2> QED  BY <1>1, <1>2, <1>6, <2>1, <2>2, FeedMelKept, FinalMelKept
<1>7. CASE Voxtral!EncodeBatch
  <2>1. stream = "ACTIVE" /\ stream' = "ACTIVE"
    BY <1>3, <1>7 DEF Voxtral!EncodeBatch, Voxtral!cursors
  <2>2. VoxtralEnd'
    BY <2>1 DEF VoxtralEnd
  <2> QED  BY <1>1, <1>2, <1>7, <2>1, <2>2, EncodeKept
<1>8. CASE Voxtral!ReadPrompt \/ Voxtral!DecodeToken \/ Voxtral!Publish
  <2>1. stream = "ACTIVE" /\ stream' = "ACTIVE"
    BY <1>3, <1>8 DEF Voxtral!ReadPrompt, Voxtral!DecodeToken, Voxtral!Publish,
                      Voxtral!cursors
  <2>2. VoxtralEnd'
    BY <2>1 DEF VoxtralEnd
  <2> QED  BY <1>1, <1>2, <1>8, <2>1, <2>2, DecodeKept
<1>9. CASE Voxtral!FeedEnds
  BY <1>1, <1>9, VoxtralFeedEnds
<1>10. CASE Voxtral!Finalize
  BY <1>1, <1>10, VoxtralFinalizes
<1>11. CASE Voxtral!FinalizeEnds
  <2>1. stream = "ACTIVE"
    BY <1>3, <1>11 DEF Voxtral!FinalizeEnds
  <2> QED  BY <1>1, <1>2, <1>11, <2>1, VoxtralFinishes
<1>12. CASE Voxtral!Aborts \/ Voxtral!Fails \/ Voxtral!Reset
  BY <1>1, <1>12, VoxtralStops
<1> QED
  BY <1>4, <1>5, <1>6, <1>7, <1>8, <1>9, <1>10, <1>11, <1>12
  DEF Voxtral!VoxtralNext

\* Nothing of it changes in a step that changes nothing.
LEMMA VoxtralStutters ==
  ASSUME VoxtralKept, UNCHANGED vars
  PROVE  VoxtralKept'
<1> SUFFICES ASSUME path = "voxtral"
             PROVE  VoxtralCounts' /\ VoxtralBuffer' /\ VoxtralBacklog' /\ VoxtralText'
                    /\ VoxtralEnd'
  BY DEF VoxtralKept, vars, cursors
<1>1. VoxtralCounts /\ VoxtralBuffer /\ VoxtralBacklog /\ VoxtralText /\ VoxtralEnd
  BY DEF VoxtralKept
<1>2. /\ UNCHANGED <<path, stream, call, fed, input, committed, pcm, pcmStart>>
      /\ UNCHANGED <<step, interval, lastDecode, delay, melDone, toEncode, encDone>>
      /\ UNCHANGED <<tokReady, audioBase, promptDone, decPos, eos, clamp, truncated>>
  BY DEF vars, cursors, throttleVars, voxtralVars
<1>3. Most' = Most /\ AllTokens' = AllTokens
  BY <1>2, FromPrimed, SameTokens DEF Most
<1>4. VoxtralCounts'
  BY <1>1, <1>2 DEF VoxtralCounts
<1>5. VoxtralBuffer'
  BY <1>1, <1>2, VoxtralStays DEF PastMel
<1>6. VoxtralBacklog'
  BY <1>1, <1>2, <1>3, FromPrimed DEF VoxtralBacklog
<1>7. VoxtralText' /\ VoxtralEnd'
  BY <1>1, <1>2, <1>3 DEF VoxtralText, VoxtralEnd, PastMel
<1> QED  BY <1>4, <1>5, <1>6, <1>7

-----------------------------------------------------------------------------
(* What a voxtral stream promises *)

\* The window that is about to be transformed lies in the buffer, and its new
\* frames have the audio around them that they have in the whole stream.
LEMMA VoxtralWindowClean ==
  ASSUME VoxtralKept, KeepsTime, path \in Paths
  PROVE  Voxtral!FramesClean
<1> SUFFICES ASSUME path = "voxtral", step = "mel"
             PROVE  /\ pcmStart <= Voxtral!NonNeg(Voxtral!WinSample - Voxtral!Left)
                    /\ \A m \in melDone .. melDone + Voxtral!NewMel - 1 :
                         /\ Voxtral!WinSample = 0
                              \/ m * Hop - Win \div 2 >= Voxtral!WinSample
                         /\ Voxtral!Final \/ m * Hop + Win \div 2 <= Voxtral!TotalAbs
  BY DEF Voxtral!FramesClean
<1>1. VoxtralCounts /\ VoxtralBuffer /\ VoxtralBacklog
  BY DEF VoxtralKept
<1>2. stream = "ACTIVE" /\ call \in {"feed", "finalize"} /\ ~PastMel /\ InTime
      /\ melDone \in Nat /\ fed \in Nat
  BY <1>1 DEF VoxtralCounts, PastMel, KeepsTime
<1>3. Voxtral!WinSample = From(melDone)
  BY <1>1, WindowIs
<1>4. pcmStart <= Voxtral!NonNeg(Voxtral!WinSample - Voxtral!Left)
  BY <1>1, <1>2, <1>3, SharedOperators DEF VoxtralBuffer
<1>5. /\ Hop \in Nat \ {0} /\ Win \in Nat \ {0} /\ Win <= 8 * Hop
      /\ Voxtral!Left \in Nat
  BY VoxtralGeometry
<1>6. /\ From(melDone) \in Nat /\ melDone * Hop \in Nat
      /\ melDone <= 4 => From(melDone) = 0
      /\ melDone >= 4 => From(melDone) + 4 * Hop = melDone * Hop
  BY <1>2, FromIs
<1>7. Voxtral!MelReady \in Nat
  BY <1>1, <1>2, FeedReady, FinalNew DEF VoxtralCounts
<1>8. Voxtral!NewMel \in Int /\ melDone + Voxtral!NewMel <= Voxtral!MelReady
  BY <1>2, <1>7, NewMelIs
<1>9. ASSUME NEW m \in melDone .. melDone + Voxtral!NewMel - 1
      PROVE  /\ Voxtral!WinSample = 0 \/ m * Hop - Win \div 2 >= Voxtral!WinSample
             /\ Voxtral!Final \/ m * Hop + Win \div 2 <= Voxtral!TotalAbs
  <2>1. m \in Nat /\ melDone <= m /\ m <= Voxtral!MelReady - 1
    BY <1>2, <1>7, <1>8
  <2>2. melDone * Hop <= m * Hop /\ m * Hop \in Nat
    BY <1>2, <1>5, <2>1, Scaled
  <2>3. Win \div 2 \in Nat /\ Win \div 2 <= 4 * Hop /\ Win \div 2 <= Win
    BY <1>5
  <2>4. Voxtral!WinSample = 0 \/ m * Hop - Win \div 2 >= Voxtral!WinSample
    BY <1>2, <1>3, <1>5, <1>6, <2>2, <2>3
  <2>5. ASSUME ~Voxtral!Final
        PROVE  m * Hop + Win \div 2 <= Voxtral!TotalAbs
    <3>1. call = "feed"
      BY <1>2, <2>5 DEF Voxtral!Final
    <3>2. /\ Voxtral!TotalAbs = Voxtral!Left + fed
          /\ (Voxtral!MelReady - 1) * Hop + Win <= Voxtral!Left + fed
      BY <1>1, <1>2, <3>1, FeedReady
    <3>3. m * Hop <= (Voxtral!MelReady - 1) * Hop
          /\ (Voxtral!MelReady - 1) * Hop \in Int
      BY <1>5, <1>7, <2>1, Scaled
    <3> QED  BY <1>2, <1>5, <2>2, <2>3, <3>2, <3>3
  <2> QED  BY <2>4, <2>5
<1> QED  BY <1>4, <1>9

\* The backlog between two calls.
LEMMA VoxtralBacklogBounded ==
  ASSUME VoxtralKept, path \in Paths
  PROVE  Voxtral!BacklogBounded
<1> SUFFICES ASSUME path = "voxtral", stream = "ACTIVE", call = "none"
             PROVE  /\ pcm - lastDecode < Voxtral!Max({1, interval})
                    /\ melDone > 0 =>
                         Voxtral!Left + Voxtral!Audio - melDone * Hop
                           < MelPerTok * Hop + Win + pcm - lastDecode
                    /\ pcm < (Voxtral!Guard + MelPerTok) * Hop + Win
                               + 2 * (interval + Voxtral!Max(Feeds[path]))
                    /\ promptDone /\ ~eos /\ ~truncated => decPos = tokReady
  BY DEF Voxtral!BacklogBounded
<1>1. VoxtralCounts /\ VoxtralBuffer /\ VoxtralBacklog /\ VoxtralText
  BY DEF VoxtralKept
<1>2. /\ step = "idle" /\ pcm \in Nat /\ lastDecode \in Nat /\ interval \in Nat
      /\ melDone \in Nat /\ fed \in Nat /\ Voxtral!Audio = fed
  BY <1>1 DEF VoxtralCounts, VoxtralBuffer, Voxtral!Audio
<1>3. /\ lastDecode < Reach + interval + Most
      /\ pcm - lastDecode < Max({1, interval})
      /\ melDone > 0 => Voxtral!Left + fed - melDone * Hop
                          < MelPerTok * Hop + Win + (pcm - lastDecode)
  BY <1>1, <1>2 DEF VoxtralBacklog
<1>4. promptDone /\ ~eos /\ ~truncated => decPos = tokReady
  BY <1>1, <1>2 DEF VoxtralText
<1>5. /\ Voxtral!Max({1, interval}) = Max({1, interval})
      /\ Voxtral!Max(Feeds[path]) = Most
  BY SharedOperators DEF Most
<1>6. (Voxtral!Guard + MelPerTok) * Hop + Win = Reach /\ Reach \in Nat
  BY VoxtralGeometry DEF Reach, Voxtral!Guard
<1>7. Most \in Nat \ {0} /\ Max({1, interval}) \in Nat
      /\ Max({1, interval}) <= interval + 1
  BY <1>2, MostIs, ThrottleIs
<1> HIDE DEF Most
<1>8. pcm < Reach + 2 * (interval + Most)
  BY <1>2, <1>3, <1>6, <1>7
<1>9. MelPerTok * Hop \in Nat /\ Win \in Nat
  BY VoxtralGeometry
<1>10. melDone > 0 => Voxtral!Left + fed - melDone * Hop
                        < MelPerTok * Hop + Win + pcm - lastDecode
  BY <1>2, <1>3, <1>9
<1>11. pcm < (Voxtral!Guard + MelPerTok) * Hop + Win + 2 * (interval + Most)
  BY <1>6, <1>8
<1> QED  BY <1>2, <1>3, <1>4, <1>5, <1>10, <1>11

\* A finished stream.
LEMMA VoxtralTailDecoded ==
  ASSUME VoxtralKept
  PROVE  Voxtral!TailDecoded
BY SharedOperators DEF VoxtralKept, VoxtralEnd, Voxtral!TailDecoded, AllTokens

-----------------------------------------------------------------------------
(* What every family keeps *)

\* Every step takes the stream from one state to another.
LEMMA StreamMoves ==
  ASSUME [Next]_vars
  PROVE  stream' \in {stream, "IDLE", "ACTIVE", "FINISHED", "FAILED"}
<1>1. CASE UNCHANGED vars
  BY <1>1 DEF vars, cursors
<1>2. CASE Parakeet!ParakeetNext
  <2>1. CASE Parakeet!BeginCached \/ Parakeet!BeginBuffered \/ Parakeet!Reset
    BY <2>1 DEF Parakeet!BeginCached, Parakeet!BeginBuffered, Parakeet!Begin,
                Parakeet!Begins, Parakeet!Reset, Parakeet!Resets
  <2>2. CASE \E n \in Feeds[path] : Parakeet!Feed(n)
    BY <2>2 DEF Parakeet!Feed, Parakeet!Appends
  <2>3. CASE \/ Parakeet!FeedChunkCached \/ Parakeet!FeedEndsCached
             \/ Parakeet!FeedChunkBuffered \/ Parakeet!FeedEndsBuffered
    BY <2>3 DEF Parakeet!FeedChunkCached, Parakeet!FeedEndsCached, Parakeet!cursors,
                Parakeet!FeedChunkBuffered, Parakeet!FeedEndsBuffered
  <2>4. CASE \/ Parakeet!Finalize \/ Parakeet!FinalizeCached
             \/ Parakeet!FinalizeBuffered
    BY <2>4 DEF Parakeet!Finalize, Parakeet!FinalizeStarts, Parakeet!Finishes,
                Parakeet!FinalizeCached, Parakeet!FinalizeBuffered
  <2>5. CASE Parakeet!FailsCached \/ Parakeet!FailsBuffered
    BY <2>5 DEF Parakeet!FailsCached, Parakeet!FailsBuffered, Parakeet!Fails,
                Parakeet!HookFails
  <2> QED  BY <1>2, <2>1, <2>2, <2>3, <2>4, <2>5 DEF Parakeet!ParakeetNext
<1>3. CASE Moonshine!MoonshineNext
  <2>1. CASE Moonshine!Begin \/ Moonshine!Reset
    BY <2>1 DEF Moonshine!Begin, Moonshine!Begins, Moonshine!Reset, Moonshine!Resets
  <2>2. CASE \E n \in Feeds[path] : Moonshine!Feed(n)
    BY <2>2 DEF Moonshine!Feed, Moonshine!Appends
  <2>3. CASE \/ Moonshine!FeedFlushes \/ Moonshine!FeedEnds
             \/ Moonshine!FinalizeFlushes
    BY <2>3 DEF Moonshine!FeedFlushes, Moonshine!FeedEnds, Moonshine!FinalizeFlushes
  <2>4. CASE \/ Moonshine!Finalize \/ Moonshine!FinalizeEmpty
             \/ Moonshine!FinalizeEnds
    BY <2>4 DEF Moonshine!Finalize, Moonshine!FinalizeStarts, Moonshine!Finishes,
                Moonshine!FinalizeEmpty, Moonshine!FinalizeEnds
  <2>5. CASE Moonshine!Fails \/ Moonshine!FeedAborts
    BY <2>5 DEF Moonshine!Fails, Moonshine!HookFails, Moonshine!FeedAborts,
                Moonshine!AbortsAtOnce
  <2> QED  BY <1>3, <2>1, <2>2, <2>3, <2>4, <2>5 DEF Moonshine!MoonshineNext
<1>4. CASE Voxtral!VoxtralNext
  <2>1. CASE Voxtral!Begin \/ Voxtral!Reset
    BY <2>1 DEF Voxtral!Begin, Voxtral!Begins, Voxtral!Reset, Voxtral!Resets
  <2>2. CASE \E n \in Feeds[path] : Voxtral!Feed(n)
    BY <2>2 DEF Voxtral!Feed, Voxtral!Appends
  <2>3. CASE \/ Voxtral!ComputeMel \/ Voxtral!EncodeBatch \/ Voxtral!ReadPrompt
             \/ Voxtral!DecodeToken \/ Voxtral!Publish \/ Voxtral!FeedEnds
    BY <2>3 DEF Voxtral!ComputeMel, Voxtral!EncodeBatch, Voxtral!ReadPrompt,
                Voxtral!DecodeToken, Voxtral!Publish, Voxtral!FeedEnds,
                Voxtral!cursors
  <2>4. CASE Voxtral!Finalize \/ Voxtral!FinalizeEnds
    BY <2>4 DEF Voxtral!Finalize, Voxtral!FinalizeStarts, Voxtral!Finishes,
                Voxtral!FinalizeEnds
  <2>5. CASE Voxtral!Fails \/ Voxtral!Aborts
    BY <2>5 DEF Voxtral!Fails, Voxtral!HookFails, Voxtral!Aborts,
                Voxtral!AbortsAtOnce
  <2> QED  BY <1>4, <2>1, <2>2, <2>3, <2>4, <2>5 DEF Voxtral!VoxtralNext
<1> QED  BY <1>1, <1>2, <1>3, <1>4 DEF Next

\* The states of a stream.
StreamTyped == stream \in {"IDLE", "ACTIVE", "FINISHED", "FAILED"}

\* A stream is in one of them.
LEMMA StreamKept ==
  ASSUME StreamTyped, [Next]_vars
  PROVE  StreamTyped'
BY StreamMoves DEF StreamTyped

\* A slot of the ring holds a frame, or nothing.
RingTyped == ring \in [0 .. RingSlots - 1 -> Nat \cup {-1}]

\* Making room keeps it so.
LEMMA RoomTyped ==
  ASSUME RingKept, RingTyped
  PROVE  Voxtral!Room.ring \in [0 .. RingSlots - 1 -> Nat \cup {-1}]
<1>1. slot \in Nat /\ slot <= RingSlots /\ RingSlots \in Nat /\ EncWindow \in Nat
  <2>1. {RingSlots, EncWindow} \subseteq Nat
    BY Geometry
  <2> QED  BY <2>1 DEF RingKept
<1>2. CASE ~(slot + Voxtral!Batch > RingSlots)
  BY <1>2 DEF Voxtral!Room, RingTyped
<1>3. CASE slot + Voxtral!Batch > RingSlots
  <2> DEFINE keep == Voxtral!Min({slot, EncWindow})
  <2>1. keep \in {slot, EncWindow} /\ keep <= slot
    <3>1. slot \in Int /\ EncWindow \in Int
      BY <1>1
    <3> QED  BY <3>1, VoxtralMin
  <2>2. Voxtral!Room.ring = [s \in DOMAIN ring |->
                               IF s < keep THEN ring[slot - keep + s] ELSE ring[s]]
    BY <1>3 DEF Voxtral!Room, Voxtral!Compacted
  <2> HIDE DEF keep
  <2>3. keep \in Nat
    BY <1>1, <2>1
  <2>4. DOMAIN ring = 0 .. RingSlots - 1
    BY DEF RingTyped
  <2>5. ASSUME NEW s \in 0 .. RingSlots - 1
        PROVE  (IF s < keep THEN ring[slot - keep + s] ELSE ring[s]) \in Nat \cup {-1}
    <3>1. s < keep => slot - keep + s \in 0 .. RingSlots - 1
      BY <1>1, <2>1, <2>3
    <3> QED  BY <3>1 DEF RingTyped
  <2> QED  BY <2>2, <2>4, <2>5
<1> QED  BY <1>2, <1>3

\* Every step keeps it so.
LEMMA RingTypeKept ==
  ASSUME RingKept, RingTyped, [Next]_vars
  PROVE  RingTyped'
<1>1. CASE UNCHANGED ring
  BY <1>1 DEF RingTyped
<1>2. CASE ring' = Voxtral!EmptyRing
  BY <1>2 DEF RingTyped, Voxtral!EmptyRing, Voxtral!Empty
<1>3. CASE Voxtral!EncodeBatch
  <2> DEFINE R == Voxtral!Room
             B == Voxtral!Batch
  <2>1. /\ ring' = [s \in DOMAIN ring |->
                      IF s \in R.slot .. R.slot + B - 1
                        THEN encDone + s - R.slot ELSE R.ring[s]]
        /\ DOMAIN ring = 0 .. RingSlots - 1
    BY <1>3 DEF Voxtral!EncodeBatch, RingKept
  <2>2. R.slot \in Nat /\ B \in Nat /\ encDone \in Nat
    BY RoomKept, BatchBounded DEF RingKept
  <2>3. R.ring \in [0 .. RingSlots - 1 -> Nat \cup {-1}]
    BY RoomTyped
  <2> HIDE DEF R, B
  <2>4. ASSUME NEW s \in 0 .. RingSlots - 1
        PROVE  (IF s \in R.slot .. R.slot + B - 1
                  THEN encDone + s - R.slot ELSE R.ring[s]) \in Nat \cup {-1}
    <3>1. CASE s \in R.slot .. R.slot + B - 1
      <4>1. encDone + s - R.slot \in Nat
        BY <2>2, <3>1
      <4> QED  BY <3>1, <4>1
    <3>2. CASE s \notin R.slot .. R.slot + B - 1
      BY <2>3, <3>2
    <3> QED  BY <3>1, <3>2
  <2> QED  BY <2>1, <2>4 DEF RingTyped
<1>4. CASE Voxtral!Fails
  BY <1>1, <1>4, RoomTyped DEF RingTyped, Voxtral!Fails
<1>5. CASE Voxtral!VoxtralNext
  <2>1. CASE Voxtral!Begin \/ Voxtral!Reset
    BY <1>2, <2>1 DEF Voxtral!Begin, Voxtral!Reset
  <2>2. CASE \/ \E n \in Feeds[path] : Voxtral!Feed(n)
             \/ Voxtral!ReadPrompt \/ Voxtral!DecodeToken \/ Voxtral!Publish
             \/ Voxtral!FeedEnds \/ Voxtral!Finalize \/ Voxtral!FinalizeEnds
             \/ Voxtral!ComputeMel \/ Voxtral!Aborts
    <3>1. UNCHANGED ring
      BY <2>2 DEF Voxtral!Feed, Voxtral!ReadPrompt, Voxtral!DecodeToken,
         Voxtral!Publish, Voxtral!FeedEnds, Voxtral!Finalize, Voxtral!FinalizeEnds,
         Voxtral!ComputeMel, Voxtral!Aborts, Voxtral!voxtralVars, Voxtral!encoderVars
    <3> QED  BY <1>1, <3>1
  <2> QED  BY <1>3, <1>4, <1>5, <2>1, <2>2 DEF Voxtral!VoxtralNext
<1>6. CASE UNCHANGED vars \/ UNCHANGED voxtralVars
  <2>1. UNCHANGED ring
    BY <1>6 DEF vars, voxtralVars
  <2> QED  BY <1>1, <2>1
<1> QED  BY <1>5, <1>6 DEF Next

-----------------------------------------------------------------------------
(* What the families leave to each other *)

\* A model of one family leaves the state of the others as it was.
Unused ==
  /\ path \in Paths
  /\ path # "voxtral" =>
       /\ delay = -1 /\ melDone = 0 /\ toEncode = 0 /\ encDone = 0 /\ tokReady = 0
       /\ slot = 0 /\ absBase = 0 /\ audioBase = 0 /\ promptDone = FALSE /\ decPos = 0
       /\ eos = FALSE /\ clamp = -1 /\ truncated = FALSE
  /\ path # "moonshine" => emitted = 0
  /\ path \notin {"moonshine", "voxtral"} =>
       step = "idle" /\ interval = 0 /\ lastDecode = 0
  /\ path # "cached" => consumed = 0 /\ firstChunk = TRUE
  /\ path # "buffered" =>
       nextRead = 0 /\ ctx = Parakeet!NoContext /\ initialized = FALSE /\ decoded = 0
  /\ path \notin {"cached", "buffered"} => geom = Parakeet!NoContext /\ frameOffset = 0

\* Each way of parakeet leaves the cursors of the other alone.
LEMMA OtherWayUnused ==
  ASSUME Parakeet!ParakeetNext
  PROVE  /\ path = "cached" => UNCHANGED <<nextRead, ctx, initialized, decoded>>
         /\ path = "buffered" => UNCHANGED <<consumed, firstChunk>>
<1>1. CASE Parakeet!BeginCached \/ Parakeet!BeginBuffered
  BY <1>1 DEF Parakeet!BeginCached, Parakeet!BeginBuffered, Parakeet!bufferedVars,
              Parakeet!cachedVars
<1>2. CASE \/ \E n \in Feeds[path] : Parakeet!Feed(n)
           \/ Parakeet!Finalize \/ Parakeet!Reset
  BY <1>2 DEF Parakeet!Feed, Parakeet!Finalize, Parakeet!Reset,
              Parakeet!parakeetVars, Parakeet!bufferedVars, Parakeet!cachedVars
<1>3. CASE Parakeet!FeedChunkCached \/ Parakeet!FeedChunkBuffered
  BY <1>3 DEF Parakeet!FeedChunkCached, Parakeet!FeedChunkBuffered,
              Parakeet!bufferedVars, Parakeet!cachedVars
<1>4. CASE Parakeet!FeedEndsCached \/ Parakeet!FeedEndsBuffered
  BY <1>4 DEF Parakeet!FeedEndsCached, Parakeet!FeedEndsBuffered,
              Parakeet!parakeetVars, Parakeet!bufferedVars, Parakeet!cachedVars
<1>5. CASE Parakeet!FinalizeCached \/ Parakeet!FinalizeBuffered
  BY <1>5 DEF Parakeet!FinalizeCached, Parakeet!FinalizeBuffered,
              Parakeet!bufferedVars, Parakeet!cachedVars
<1>6. CASE Parakeet!FailsCached \/ Parakeet!FailsBuffered
  BY <1>6 DEF Parakeet!FailsCached, Parakeet!FailsBuffered, Parakeet!Fails
<1> QED  BY <1>1, <1>2, <1>3, <1>4, <1>5, <1>6 DEF Parakeet!ParakeetNext

\* Every step leaves the state of the other families alone.
LEMMA UnusedKept ==
  ASSUME Unused, [Next]_vars
  PROVE  Unused'
<1>1. path' = path
  BY PathStays
<1>2. CASE UNCHANGED vars
  BY <1>1, <1>2 DEF vars, parakeetVars, throttleVars, voxtralVars, Unused
<1>3. CASE /\ path \in {"cached", "buffered"} /\ Parakeet!ParakeetNext
           /\ UNCHANGED <<emitted, throttleVars, voxtralVars>>
  BY <1>1, <1>3, OtherWayUnused DEF throttleVars, voxtralVars, Unused
<1>4. CASE path = "moonshine" /\ UNCHANGED <<parakeetVars, voxtralVars>>
  BY <1>1, <1>4 DEF parakeetVars, voxtralVars, Unused
<1>5. CASE path = "voxtral" /\ UNCHANGED <<parakeetVars, emitted>>
  BY <1>1, <1>5 DEF parakeetVars, Unused
<1> QED  BY <1>2, <1>3, <1>4, <1>5 DEF Next

-----------------------------------------------------------------------------
(* The stream of any family *)

\* A step that changes nothing keeps what is said of a parakeet stream,
LEMMA CachedStutters ==
  ASSUME CachedKept, UNCHANGED vars
  PROVE  CachedKept'
<1>1. /\ UNCHANGED <<path, stream, call, fed, input, committed, pcm, pcmStart>>
      /\ UNCHANGED <<geom, frameOffset, consumed, firstChunk>>
  BY DEF vars, cursors, parakeetVars
<1> SUFFICES ASSUME path = "cached"
             PROVE  ParakeetBuffer' /\ CachedCursors' /\ Parakeet!TailDecoded'
  BY <1>1 DEF CachedKept
<1>2. ParakeetBuffer /\ CachedCursors /\ Parakeet!TailDecoded
  BY DEF CachedKept
<1>3. ParakeetBuffer'
  BY <1>1, <1>2 DEF ParakeetBuffer, Parakeet!Menu
<1>4. /\ Parakeet!KeepFrom' = Parakeet!KeepFrom /\ Parakeet!Advance' = Parakeet!Advance
      /\ Parakeet!Margin' = Parakeet!Margin
  BY <1>1 DEF Parakeet!KeepFrom, Parakeet!Advance, Parakeet!Margin
<1>5. CachedCursors'
  BY <1>1, <1>2, <1>4 DEF CachedCursors
<1>6. Parakeet!TailDecoded'
  BY <1>1, <1>2 DEF Parakeet!TailDecoded, Parakeet!MelFrames
<1> QED  BY <1>3, <1>5, <1>6

\* of either way,
LEMMA BufferedStutters ==
  ASSUME BufferedKept, UNCHANGED vars
  PROVE  BufferedKept'
<1>1. /\ UNCHANGED <<path, stream, call, fed, input, committed, pcm, pcmStart>>
      /\ UNCHANGED <<geom, frameOffset, nextRead, ctx, initialized, decoded>>
  BY DEF vars, cursors, parakeetVars
<1> SUFFICES ASSUME path = "buffered"
             PROVE  ParakeetBuffer' /\ BufferedCursors' /\ Parakeet!TailDecoded'
  BY <1>1 DEF BufferedKept
<1>2. ParakeetBuffer /\ BufferedCursors /\ Parakeet!TailDecoded
  BY DEF BufferedKept
<1>3. ParakeetBuffer'
  BY <1>1, <1>2 DEF ParakeetBuffer, Parakeet!Menu
<1>4. /\ Parakeet!Frame' = Parakeet!Frame /\ Parakeet!NumNew' = Parakeet!NumNew
      /\ WindowPlaced' = WindowPlaced
  BY <1>1 DEF Parakeet!Frame, Parakeet!NumNew, WindowPlaced, Parakeet!NoContext
<1>5. Parakeet!BufferedDue' = Parakeet!BufferedDue
  BY <1>1, <1>4 DEF Parakeet!BufferedDue
<1>6. BufferedCursors'
  BY <1>1, <1>2, <1>4, <1>5 DEF BufferedCursors
<1>7. Parakeet!TailDecoded'
  BY <1>1, <1>2, <1>4 DEF Parakeet!TailDecoded
<1> QED  BY <1>3, <1>6, <1>7

\* and of a moonshine stream.
LEMMA MoonshineStutters ==
  ASSUME MoonshineKept, UNCHANGED vars
  PROVE  MoonshineKept'
<1>1. /\ UNCHANGED <<path, stream, call, fed, input, committed, pcm, pcmStart>>
      /\ UNCHANGED <<step, interval, lastDecode, emitted>>
  BY DEF vars, cursors, throttleVars
<1> SUFFICES ASSUME path = "moonshine"
             PROVE  MoonshineCounts' /\ MoonshineBuffer' /\ Moonshine!TailDecoded'
  BY <1>1 DEF MoonshineKept
<1>2. MoonshineCounts /\ MoonshineBuffer /\ Moonshine!TailDecoded
  BY DEF MoonshineKept
<1>3. MoonshineCounts'
  BY <1>1, <1>2 DEF MoonshineCounts
<1>4. MoonshineBuffer'
  BY <1>1, <1>2 DEF MoonshineBuffer, Padding
<1>5. Moonshine!TailDecoded'
  BY <1>1, <1>2 DEF Moonshine!TailDecoded, Moonshine!CeilDiv
<1> QED  BY <1>3, <1>4, <1>5

\* What holds of the streams of every family, whichever the model is of.
StreamsKept ==
  /\ Unused /\ StreamTyped /\ RingTyped /\ RingKept
  /\ CursorsAreInts /\ IdleBetween /\ KeepsTime
  /\ CachedKept /\ BufferedKept /\ MoonshineKept /\ VoxtralKept

\* A stream that was never begun.
LEMMA StreamsBegin ==
  ASSUME Init
  PROVE  StreamsKept
<1>1. /\ path \in Paths /\ stream = "IDLE" /\ call = "none"
      /\ fed = 0 /\ input = 0 /\ committed = 0 /\ pcm = 0 /\ pcmStart = 0
      /\ geom = Parakeet!NoContext /\ frameOffset = 0 /\ consumed = 0 /\ firstChunk = TRUE
      /\ nextRead = 0 /\ ctx = Parakeet!NoContext /\ initialized = FALSE /\ decoded = 0
  BY DEF Init, CursorsInit, Parakeet!ParakeetInit
<1>2. /\ emitted = 0 /\ step = "idle" /\ interval = 0 /\ lastDecode = 0
      /\ delay = -1 /\ melDone = 0 /\ toEncode = 0 /\ encDone = 0 /\ tokReady = 0
      /\ slot = 0 /\ absBase = 0 /\ audioBase = 0 /\ promptDone = FALSE /\ decPos = 0
      /\ eos = FALSE /\ clamp = -1 /\ truncated = FALSE
      /\ ring = Voxtral!EmptyRing
  BY DEF Init, Voxtral!VoxtralInit
<1>3. ctx.left = 0 /\ ctx.chunk = 0 /\ ctx.right = 0
  BY <1>1 DEF Parakeet!NoContext
<1>4. Unused /\ StreamTyped
  BY <1>1, <1>2 DEF Unused, StreamTyped
<1>5. RingTyped /\ RingKept
  BY <1>2, EmptyKeeps DEF RingTyped, Voxtral!EmptyRing, Voxtral!Empty
<1>6. CursorsAreInts /\ IdleBetween /\ KeepsTime
  BY <1>1, <1>2 DEF CursorsAreInts, IdleBetween, KeepsTime
<1>7. ParakeetBuffer /\ Parakeet!TailDecoded
  BY <1>1 DEF ParakeetBuffer, Parakeet!TailDecoded
<1>8. CachedKept
  BY <1>1, <1>7 DEF CachedKept, CachedCursors
<1>9. BufferedKept
  <2>1. initialized \in BOOLEAN
    BY <1>1, Zenon
  <2>2. {frameOffset, nextRead, decoded, ctx.left, ctx.chunk, ctx.right} \subseteq Nat
    BY <1>1, <1>3
  <2>3. BufferedCursors
    BY <1>1, <2>1, <2>2 DEF BufferedCursors
  <2> QED  BY <1>7, <2>3 DEF BufferedKept
<1>10. MoonshineKept
  BY <1>1, <1>2 DEF MoonshineKept, MoonshineCounts, MoonshineBuffer,
                    Moonshine!TailDecoded
<1>11. VoxtralKept
  BY <1>1, <1>2 DEF VoxtralKept, VoxtralCounts, VoxtralBuffer, VoxtralBacklog,
                    VoxtralText, VoxtralEnd
<1> QED  BY <1>4, <1>5, <1>6, <1>8, <1>9, <1>10, <1>11 DEF StreamsKept

\* Every step of every family keeps it.
LEMMA StreamsStep ==
  ASSUME StreamsKept, [Next]_vars
  PROVE  StreamsKept'
<1>1. path' = path /\ path \in Paths
  BY PathStays DEF StreamsKept, Unused
<1>2. Unused' /\ StreamTyped' /\ RingTyped' /\ RingKept'
  BY UnusedKept, StreamKept, RingTypeKept, NextKeeps DEF StreamsKept
<1>3. CursorsAreInts' /\ IdleBetween' /\ KeepsTime'
  BY IntsKept, IdleKept, TimeKept DEF StreamsKept
<1>4. CASE UNCHANGED vars
  BY <1>2, <1>3, <1>4, CachedStutters, BufferedStutters, MoonshineStutters,
     VoxtralStutters DEF StreamsKept
<1>5. CASE path \in {"cached", "buffered"} /\ Parakeet!ParakeetNext
  <2>1. CachedKept'
    BY <1>1, <1>5, CachedSteps DEF StreamsKept, CachedKept
  <2>2. BufferedKept'
    BY <1>1, <1>5, BufferedSteps DEF StreamsKept, BufferedKept
  <2> QED  BY <1>1, <1>2, <1>3, <1>5, <2>1, <2>2
           DEF StreamsKept, MoonshineKept, VoxtralKept
<1>6. CASE path = "moonshine" /\ Moonshine!MoonshineNext
  <2>1. MoonshineKept'
    BY <1>1, <1>6, MoonshineSteps DEF StreamsKept
  <2> QED  BY <1>1, <1>2, <1>3, <1>6, <2>1
           DEF StreamsKept, CachedKept, BufferedKept, VoxtralKept
<1>7. CASE path = "voxtral" /\ Voxtral!VoxtralNext
  <2>1. VoxtralKept'
    BY <1>1, <1>7, VoxtralSteps DEF StreamsKept
  <2> QED  BY <1>1, <1>2, <1>3, <1>7, <2>1
           DEF StreamsKept, CachedKept, BufferedKept, MoonshineKept
<1> QED  BY <1>4, <1>5, <1>6, <1>7 DEF Next

\* So it holds of every stream, at any time.
LEMMA StreamsHold == Spec => []StreamsKept
<1>1. Init => StreamsKept
  BY StreamsBegin
<1>2. StreamsKept /\ [Next]_vars => StreamsKept'
  BY StreamsStep
<1> QED  BY <1>1, <1>2, PTL DEF Spec

\* What is true of a loaded model's way of streaming.
LEMMA PathsAre ==
  ASSUME StreamsKept
  PROVE  path \in Paths /\ path \in {"cached", "buffered", "moonshine", "voxtral"}
BY GeometryAssumption DEF StreamsKept, Unused

\* Whatever the geometry, the feeds and the order of the calls: every cursor of
\* every family is a count, the context of parakeet's window never goes
\* negative, and the slots of voxtral's ring hold frames.
THEOREM StreamsTypeCorrect == Spec => []TypeOK
<1>1. ASSUME StreamsKept
      PROVE  TypeOK
  <2>1. path \in Paths /\ path \in {"cached", "buffered", "moonshine", "voxtral"}
    BY <1>1, PathsAre
  <2>2. Unused /\ StreamTyped /\ RingTyped /\ RingKept
    BY <1>1 DEF StreamsKept
  <2>3. call \in {"none", "feed", "finalize"}
        /\ fed \in Nat /\ input \in Nat /\ committed \in Nat /\ pcm \in Nat
        /\ pcmStart \in Nat
    <3>1. CASE path \in {"cached", "buffered"}
      BY <1>1, <3>1 DEF StreamsKept, CachedKept, BufferedKept, ParakeetBuffer
    <3>2. CASE path = "moonshine"
      BY <1>1, <3>2 DEF StreamsKept, MoonshineKept, MoonshineCounts
    <3>3. CASE path = "voxtral"
      BY <1>1, <3>3 DEF StreamsKept, VoxtralKept, VoxtralCounts
    <3> QED  BY <2>1, <3>1, <3>2, <3>3
  <2>4. Parakeet!TypeOK
    <3>1. geom \in Parakeet!Menu \cup {Parakeet!NoContext} /\ frameOffset \in Nat
      <4>1. CASE path \in {"cached", "buffered"}
        BY <1>1, <4>1 DEF StreamsKept, CachedKept, BufferedKept, ParakeetBuffer,
                          CachedCursors, BufferedCursors
      <4>2. CASE path \notin {"cached", "buffered"}
        BY <2>2, <4>2 DEF Unused
      <4> QED  BY <4>1, <4>2
    <3>2. consumed \in Nat /\ firstChunk \in BOOLEAN
      <4>1. CASE path = "cached"
        BY <1>1, <4>1 DEF StreamsKept, CachedKept, CachedCursors
      <4>2. CASE path # "cached"
        BY <2>2, <4>2 DEF Unused
      <4> QED  BY <4>1, <4>2
    <3>3. /\ nextRead \in Nat /\ decoded \in Nat /\ initialized \in BOOLEAN
          /\ ctx.left \in Nat /\ ctx.chunk \in Nat /\ ctx.right \in Nat
      <4>1. CASE path = "buffered"
        BY <1>1, <4>1 DEF StreamsKept, BufferedKept, BufferedCursors
      <4>2. CASE path # "buffered"
        <5>1. nextRead = 0 /\ decoded = 0 /\ ctx = Parakeet!NoContext
          BY <2>2, <4>2 DEF Unused
        <5>2. initialized \in BOOLEAN
          BY <2>2, <4>2, Zenon DEF Unused
        <5> QED  BY <5>1, <5>2 DEF Parakeet!NoContext
      <4> QED  BY <4>1, <4>2
    <3> QED  BY <3>1, <3>2, <3>3 DEF Parakeet!TypeOK
  <2>5. /\ step \in {"idle", "arrived", "flushed", "mel", "encode", "decode", "leave",
                     "wait"}
        /\ emitted \in Nat /\ interval \in Nat /\ lastDecode \in Nat
    <3>1. CASE path = "moonshine"
      BY <1>1, <3>1 DEF StreamsKept, MoonshineKept, MoonshineCounts
    <3>2. CASE path = "voxtral"
      BY <1>1, <2>2, <3>2 DEF StreamsKept, VoxtralKept, VoxtralCounts, Unused
    <3>3. CASE path \notin {"moonshine", "voxtral"}
      BY <2>2, <3>3 DEF Unused
    <3> QED  BY <3>1, <3>2, <3>3
  <2>6. /\ melDone \in Nat /\ tokReady \in Nat /\ audioBase \in Nat /\ decPos \in Nat
        /\ delay \in Delays \cup {-1} /\ clamp \in Nat \cup {-1}
        /\ promptDone \in BOOLEAN /\ eos \in BOOLEAN /\ truncated \in BOOLEAN
    <3>1. CASE path = "voxtral"
      BY <1>1, <3>1 DEF StreamsKept, VoxtralKept, VoxtralCounts
    <3>2. CASE path # "voxtral"
      <4>1. /\ melDone = 0 /\ tokReady = 0 /\ audioBase = 0 /\ decPos = 0
            /\ delay = -1 /\ clamp = -1
        BY <2>2, <3>2 DEF Unused
      <4>2. promptDone \in BOOLEAN /\ eos \in BOOLEAN /\ truncated \in BOOLEAN
        BY <2>2, <3>2, Zenon DEF Unused
      <4> QED  BY <4>1, <4>2
    <3> QED  BY <3>1, <3>2
  <2>7. /\ toEncode \in Nat /\ encDone \in Nat /\ absBase \in Nat /\ slot \in Nat
        /\ ring \in [0 .. RingSlots - 1 -> Nat \cup {-1}]
    BY <2>2, Geometry DEF RingKept, RingTyped
  <2> QED  BY <2>1, <2>2, <2>3, <2>4, <2>5, <2>6, <2>7 DEF TypeOK, StreamTyped
<1> QED  BY <1>1, StreamsHold, PTL

\* Whatever the geometry and the feeds: the trim after a feed takes no sample
\* that a later window of any family reads, no frame is encoded before the
\* audio around it has arrived, and a window never begins before the buffer.
THEOREM WindowsReadCleanAudio == Spec => []FramesClean
<1>1. ASSUME StreamsKept
      PROVE  FramesClean
  <2>1. path \in Paths
    BY <1>1, PathsAre
  <2>2. Parakeet!FramesClean
    <3>1. CASE path \in {"cached", "buffered"}
      BY <1>1, <3>1, CachedWindowClean DEF StreamsKept
    <3>2. CASE path \notin {"cached", "buffered"}
      BY <3>2 DEF Parakeet!FramesClean
    <3> QED  BY <3>1, <3>2
  <2>3. Moonshine!FramesClean
    BY <1>1, MoonshineWindowClean DEF StreamsKept
  <2>4. Voxtral!FramesClean
    BY <1>1, <2>1, VoxtralWindowClean DEF StreamsKept
  <2> QED  BY <2>2, <2>3, <2>4 DEF FramesClean
<1> QED  BY <1>1, StreamsHold, PTL

\* Whatever the geometry and the feeds: the windows of parakeet's buffered path
\* lie in the audio that was fed, and what they decode follows without a gap,
\* the last step overlapping by less than a frame.
THEOREM ChunksFollow == Spec => []ChunksTile
<1>1. ASSUME StreamsKept
      PROVE  ChunksTile
  <2>1. CASE path \in {"cached", "buffered"}
    BY <1>1, <2>1, BufferedTiles DEF StreamsKept, ChunksTile
  <2>2. CASE path \notin {"cached", "buffered"}
    BY <2>2 DEF ChunksTile, Parakeet!ChunksTile
  <2> QED  BY <2>1, <2>2
<1> QED  BY <1>1, StreamsHold, PTL

\* Whatever the geometry and the feeds: while a stream runs, the frame that the
\* decoder stamps on its next token is the one of the audio that comes next.
THEOREM TokenTimesHold == Spec => []FramesKeepTime
<1>1. ASSUME StreamsKept
      PROVE  FramesKeepTime
  <2>1. Parakeet!FramesKeepTime
    BY <1>1 DEF StreamsKept, CachedKept, CachedCursors, BufferedKept, BufferedCursors,
                Parakeet!FramesKeepTime
  <2>2. Voxtral!FramesKeepTime
    BY <1>1 DEF StreamsKept, KeepsTime, InTime, Voxtral!FramesKeepTime
  <2> QED  BY <2>1, <2>2 DEF FramesKeepTime
<1> QED  BY <1>1, StreamsHold, PTL

\* Whatever the geometry and the feeds: a stream that finishes has encoded and
\* decoded its audio to the end, with the exceptions that the families state.
THEOREM TailIsDecoded == Spec => []TailDecoded
<1>1. ASSUME StreamsKept
      PROVE  TailDecoded
  <2>1. Parakeet!TailDecoded
    BY <1>1 DEF StreamsKept, CachedKept, BufferedKept, Parakeet!TailDecoded
  <2>2. Moonshine!TailDecoded
    BY <1>1 DEF StreamsKept, MoonshineKept, Moonshine!TailDecoded
  <2>3. Voxtral!TailDecoded
    BY <1>1, VoxtralTailDecoded DEF StreamsKept
  <2> QED  BY <2>1, <2>2, <2>3 DEF TailDecoded
<1> QED  BY <1>1, StreamsHold, PTL

\* Whatever the geometry and the feeds: between two calls no sample is lost
\* count of, no more is committed than was fed, and the audio that a family
\* holds back stays below a bound that its geometry gives.
THEOREM BacklogsBounded == Spec => []BacklogBounded
<1>1. ASSUME StreamsKept
      PROVE  BacklogBounded
  <2>1. path \in Paths /\ path \in {"cached", "buffered", "moonshine", "voxtral"}
    BY <1>1, PathsAre
  <2>2. ASSUME stream = "ACTIVE", call = "none"
        PROVE  pcmStart + pcm = fed /\ committed <= input
    <3>1. CASE path = "cached"
      <4>1. ParakeetBuffer /\ CachedCursors
        BY <1>1, <3>1 DEF StreamsKept, CachedKept
      <4>2. /\ pcmStart + pcm = fed /\ input = fed /\ fed \in Nat /\ consumed \in Nat
            /\ committed = consumed * Hop
            /\ consumed = 0 \/ (consumed + Parakeet!Margin - 1) * Hop <= fed
        BY <2>2, <4>1 DEF ParakeetBuffer, CachedCursors
      <4>3. Hop \in Nat \ {0} /\ Parakeet!Margin \in Nat \ {0}
        BY ParakeetGeometry
      <4>4. consumed * Hop <= fed
        <5>1. CASE consumed = 0
          BY <4>2, <4>3, <5>1
        <5>2. CASE consumed # 0
          <6>1. /\ consumed * Hop <= (consumed + Parakeet!Margin - 1) * Hop
                /\ consumed * Hop \in Int /\ (consumed + Parakeet!Margin - 1) * Hop \in Int
            BY <4>2, <4>3, Scaled
          <6> QED  BY <4>2, <5>2, <6>1
        <5> QED  BY <5>1, <5>2
      <4> QED  BY <4>2, <4>4
    <3>2. CASE path = "buffered"
      BY <1>1, <2>2, <3>2 DEF StreamsKept, BufferedKept, ParakeetBuffer, BufferedCursors
    <3>3. CASE path = "moonshine"
      BY <1>1, <2>2, <3>3 DEF StreamsKept, MoonshineKept, MoonshineBuffer, Padding
    <3>4. CASE path = "voxtral"
      BY <1>1, <2>2, <3>4 DEF StreamsKept, VoxtralKept, VoxtralCounts, VoxtralBuffer
    <3> QED  BY <2>1, <3>1, <3>2, <3>3, <3>4
  <2>3. Parakeet!BacklogBounded
    <3>1. CASE path \in {"cached", "buffered"}
      BY <1>1, <3>1, CachedBacklog DEF StreamsKept
    <3>2. CASE path \notin {"cached", "buffered"}
      BY <3>2 DEF Parakeet!BacklogBounded
    <3> QED  BY <3>1, <3>2
  <2>4. Moonshine!BacklogBounded
    BY <1>1, MoonshineBacklog DEF StreamsKept
  <2>5. Voxtral!BacklogBounded
    BY <1>1, <2>1, VoxtralBacklogBounded DEF StreamsKept
  <2> QED  BY <2>2, <2>3, <2>4, <2>5 DEF BacklogBounded
<1> QED  BY <1>1, StreamsHold, PTL
===============================================================================
