--------------------------- MODULE NativeCallProofs ---------------------------
(***************************************************************************)
(* Proofs about NativeCall, for any number of utterances, any levels and   *)
(* any size of the log buffer.                                             *)
(***************************************************************************)
EXTENDS NativeCall, TLAPS

-----------------------------------------------------------------------------
(* The inductive invariant.                                                *)

\* Where a Ctrl-C that the callback took is remembered: while the library runs on,
\* in an entry of the batch; on the way out, also in g_interrupted.
CaughtKept ==
  caught =>
    \/ call.kind = "batch" /\ entryAborted
    \/ where = "return" /\ status = "ABORTED" /\ hooks.interrupted
    \/ where \in {"drain", "idle"} /\ ended \in {"interrupted", "error"}

\* During a call the level to go back to is known, and only a verbose call has left it.
LevelKept ==
  /\ where = "idle" => verbosity = chosen
  /\ where # "idle" => saved = chosen
  /\ where # "idle" /\ ~ call.verbose => verbosity = chosen

\* Inside an utterance there is one that has not ended.
DecodesOne == decoding => left > 0

IInv ==
  /\ TypeOK
  /\ DecodesOne
  /\ HooksRemoved
  /\ CaughtKept
  /\ LevelKept
  /\ NothingLost

-----------------------------------------------------------------------------
(* Sequences of messages.                                                  *)

LEMMA ConcatFacts ==
  ASSUME NEW S, NEW s \in Seq(S), NEW t \in Seq(S)
  PROVE  /\ s \o t \in Seq(S)
         /\ (s \o t) \o << >> = s \o t
         /\ << >> \o t = t
         /\ SubSeq(t, 1, Len(t)) = t
         /\ \A e \in S : s \o Append(t, e) = Append(s \o t, e)
         /\ \A n \in 0 .. Len(t) : SubSeq(t, 1, n) \in Seq(S)
<1>1. s \o t \in Seq(S)
  OBVIOUS
<1>2. (s \o t) \o << >> = s \o t /\ << >> \o t = t
  OBVIOUS
<1>3. SubSeq(t, 1, Len(t)) = t
  OBVIOUS
<1>4. ASSUME NEW e \in S
      PROVE  s \o Append(t, e) = Append(s \o t, e)
  OBVIOUS
<1>5. ASSUME NEW n \in 0 .. Len(t)
      PROVE  SubSeq(t, 1, n) \in Seq(S)
  OBVIOUS
<1> QED  BY <1>1, <1>2, <1>3, <1>4, <1>5

\* What re-emitting does: all or a part of the buffer is shown, and a part only if
\* a Ctrl-C cut it.
LEMMA FlushFacts ==
  ASSUME TypeOK, NothingLost, Flush
  PROVE  /\ buffer' = << >>
         /\ accepted' = accepted
         /\ shown' \in Seq(MessageLevels)
         /\ pending' \in BOOLEAN /\ cut' \in BOOLEAN
         /\ ~ cut' => shown' = accepted
<1>1. /\ shown \in Seq(MessageLevels) /\ buffer \in Seq(MessageLevels)
      /\ pending \in BOOLEAN /\ cut \in BOOLEAN
  BY DEF TypeOK
<1>2. buffer' = << >> /\ accepted' = accepted
  BY DEF Flush
<1>3. CASE shown' = shown \o buffer /\ UNCHANGED << pending, cut >>
  BY <1>1, <1>2, <1>3, ConcatFacts DEF NothingLost
<1>4. CASE /\ pending' = FALSE
           /\ \E n \in 0 .. Len(buffer) :
                /\ shown' = shown \o SubSeq(buffer, 1, n)
                /\ cut' = (cut \/ n < Len(buffer))
  <2>1. PICK n \in 0 .. Len(buffer) :
               /\ shown' = shown \o SubSeq(buffer, 1, n)
               /\ cut' = (cut \/ n < Len(buffer))
    BY <1>4
  <2>2. SubSeq(buffer, 1, n) \in Seq(MessageLevels)
    BY <1>1, ConcatFacts
  <2>3. shown' \in Seq(MessageLevels)
    BY <1>1, <2>1, <2>2
  <2>4. ASSUME ~ cut' PROVE shown' = accepted
    <3>1. ~ cut /\ ~ (n < Len(buffer))
      BY <2>1, <2>4, Zenon
    <3>2. n = Len(buffer)
      <4>1. Len(buffer) \in Nat
        BY <1>1
      <4> QED  BY <3>1, <4>1
    <3>3. SubSeq(buffer, 1, n) = buffer
      BY <1>1, <3>2, ConcatFacts
    <3> QED  BY <2>1, <3>1, <3>3 DEF NothingLost
  <2>5. cut' \in BOOLEAN
    BY <2>1, Zenon
  <2> QED  BY <1>1, <1>2, <1>4, <2>3, <2>4, <2>5
<1> QED  BY <1>3, <1>4 DEF Flush

-----------------------------------------------------------------------------
(* The invariant holds at first.                                           *)

LEMMA InitIInv == Init => IInv
<1> SUFFICES ASSUME Init PROVE IInv
  OBVIOUS
<1>1. TypeOK
  <2>1. call \in MadeCalls
    BY DEF Init, MadeCalls, Calls
  <2>2. /\ left \in 0 .. MaxUtterances
        /\ where \in {"idle", "native", "tick", "return", "drain"}
        /\ status \in {"OK", "ERR", "ABORTED"}
        /\ ended \in {"none", "value", "error", "interrupted"}
    BY NativeCallAssumption DEF Init
  <2>3. /\ decoding \in BOOLEAN /\ pending \in BOOLEAN /\ caught \in BOOLEAN
        /\ entryAborted \in BOOLEAN /\ cut \in BOOLEAN
    BY DEF Init
  <2>4. hooks \in [installed : BOOLEAN, check : BOOLEAN, tick : BOOLEAN,
                   interrupted : BOOLEAN]
    BY DEF Init, NoHooks
  <2>5. verbosity \in DOMAIN Rank /\ saved \in DOMAIN Rank /\ chosen \in DOMAIN Rank
    BY DEF Init, Rank
  <2>6. << >> \in Seq(MessageLevels) /\ Len(<< >>) = 0
    OBVIOUS
  <2>7. /\ buffer \in Seq(MessageLevels) /\ accepted \in Seq(MessageLevels)
        /\ shown \in Seq(MessageLevels)
    BY <2>6 DEF Init
  <2>8. Len(buffer) <= MaxKept
    BY <2>6, NativeCallAssumption DEF Init
  <2> QED  BY <2>1, <2>2, <2>3, <2>4, <2>5, <2>7, <2>8 DEF TypeOK
<1>2. HooksRemoved /\ CaughtKept /\ LevelKept /\ DecodesOne
  BY DEF Init, HooksRemoved, CaughtKept, LevelKept, DecodesOne, NoHooks
<1>3. NothingLost
  BY DEF Init, NothingLost
<1> QED  BY <1>1, <1>2, <1>3 DEF IInv

-----------------------------------------------------------------------------
(* Every action keeps it.                                                  *)

LEMMA CallKeeps ==
  ASSUME IInv, NEW c \in MadeCalls,
         NEW n \in 1 .. (IF c.kind = "batch" THEN MaxUtterances ELSE 1), Call(c, n)
  PROVE  IInv'
<1>0. TypeOK /\ NothingLost /\ LevelKept
  BY DEF IInv
<1>1. c.interruptible \in BOOLEAN /\ c.tick \in BOOLEAN
  BY DEF MadeCalls, Calls
<1>2. n \in 0 .. MaxUtterances /\ n > 0
  BY NativeCallAssumption
<1>3. << >> \in Seq(MessageLevels) /\ Len(<< >>) = 0
  OBVIOUS
<1>4. buffer' \in Seq(MessageLevels) /\ Len(buffer') <= MaxKept
  BY <1>0, <1>3, NativeCallAssumption DEF TypeOK, Call
<1>5. TypeOK'
  <2>1. hooks' \in [installed : BOOLEAN, check : BOOLEAN, tick : BOOLEAN,
                    interrupted : BOOLEAN]
    <3>1. (c.interruptible \/ c.tick) \in BOOLEAN
      OBVIOUS
    <3> QED  BY <1>1, <3>1 DEF Call
  <2>2. /\ verbosity' \in DOMAIN Rank /\ saved' \in DOMAIN Rank
        /\ chosen' \in DOMAIN Rank
    BY <1>0 DEF TypeOK, Call, Rank
  <2>3. decoding' \in BOOLEAN
    BY DEF Call
  <2>4. /\ accepted' \in Seq(MessageLevels) /\ shown' \in Seq(MessageLevels)
    BY <1>3, <1>4 DEF Call
  <2>5. /\ where' \in {"idle", "native", "tick", "return", "drain"}
        /\ call' \in MadeCalls /\ left' \in 0 .. MaxUtterances
        /\ status' \in {"OK", "ERR", "ABORTED"}
        /\ ended' \in {"none", "value", "error", "interrupted"}
    BY <1>2 DEF Call
  <2>6. /\ caught' \in BOOLEAN /\ entryAborted' \in BOOLEAN /\ cut' \in BOOLEAN
        /\ pending' \in BOOLEAN
    BY <1>0 DEF TypeOK, Call
  <2> QED  BY <1>4, <2>1, <2>2, <2>3, <2>4, <2>5, <2>6 DEF TypeOK
<1>6. DecodesOne'
  BY <1>2 DEF DecodesOne, Call
<1>7. HooksRemoved' /\ CaughtKept'
  BY DEF HooksRemoved, CaughtKept, Call
<1>8. LevelKept'
  BY <1>0 DEF LevelKept, Call
<1>9. NothingLost'
  <2>1. << >> \o buffer' = buffer'
    BY <1>4, ConcatFacts, <1>3
  <2> QED  BY <2>1 DEF NothingLost, Call
<1> QED  BY <1>5, <1>6, <1>7, <1>8, <1>9 DEF IInv

\* The steps inside the library that leave hooks, levels and log alone.
LEMMA LibraryKeeps ==
  ASSUME IInv,
         \/ NextUtterance
         \/ \E outcome \in {"OK", "ERR"} : UtteranceEnds(outcome)
         \/ call.kind = "batch" /\ \E outcome \in {"OK", "ERR"} : BatchEnds(outcome)
         \/ TickDue
  PROVE  IInv'
<1>0. /\ TypeOK /\ DecodesOne /\ HooksRemoved /\ CaughtKept /\ LevelKept /\ NothingLost
      /\ where = "native" /\ where' \in {"native", "return", "tick"} /\ call' = call
      /\ UNCHANGED << hookVars, levelVars, logVars >>
  BY DEF IInv, NextUtterance, UtteranceEnds, BatchEnds, TickDue
<1>1. TypeOK'
  <2>1. left' \in 0 .. MaxUtterances
    <3>1. CASE left' = left
      BY <1>0, <3>1 DEF TypeOK
    <3>2. CASE decoding /\ left' = left - 1
      BY <1>0, <3>2, NativeCallAssumption DEF TypeOK, DecodesOne
    <3> QED  BY <3>1, <3>2 DEF NextUtterance, UtteranceEnds, BatchEnds, TickDue
  <2>2. decoding' \in BOOLEAN /\ status' \in {"OK", "ERR", "ABORTED"}
    BY <1>0 DEF TypeOK, NextUtterance, UtteranceEnds, BatchEnds, TickDue
  <2> QED  BY <1>0, <2>1, <2>2 DEF TypeOK, hookVars, levelVars, logVars
<1>2. DecodesOne'
  BY <1>0 DEF DecodesOne, NextUtterance, UtteranceEnds, BatchEnds, TickDue
<1>3. HooksRemoved'
  BY <1>0 DEF HooksRemoved
<1>4. CaughtKept'
  BY <1>0 DEF CaughtKept, hookVars
<1>5. LevelKept'
  BY <1>0 DEF LevelKept, levelVars
<1>6. NothingLost'
  BY <1>0 DEF NothingLost, logVars
<1> QED  BY <1>1, <1>2, <1>3, <1>4, <1>5, <1>6 DEF IInv

LEMMA InterruptedKeeps ==
  ASSUME IInv, Interrupted
  PROVE  IInv'
<1>0. /\ TypeOK /\ DecodesOne /\ HooksRemoved /\ CaughtKept /\ LevelKept /\ NothingLost
      /\ where = "native" /\ where' \in {"native", "return"} /\ call' = call
      /\ pending' = FALSE /\ caught' = TRUE /\ ended' = ended /\ decoding' = FALSE
      /\ hooks' = [hooks EXCEPT !.interrupted = TRUE]
      /\ UNCHANGED << levelVars, logVars >>
  BY DEF IInv, Interrupted, Catches
<1>1. TypeOK'
  <2>1. left' \in 0 .. MaxUtterances
    <3>1. CASE left' = left
      BY <1>0, <3>1 DEF TypeOK
    <3>2. CASE decoding /\ left' = left - 1
      BY <1>0, <3>2, NativeCallAssumption DEF TypeOK, DecodesOne
    <3> QED  BY <3>1, <3>2 DEF Interrupted
  <2>2. status' \in {"OK", "ERR", "ABORTED"}
    BY <1>0 DEF TypeOK, Interrupted
  <2>3. entryAborted' \in BOOLEAN
    BY DEF Interrupted
  <2>4. hooks' \in [installed : BOOLEAN, check : BOOLEAN, tick : BOOLEAN,
                    interrupted : BOOLEAN]
    BY <1>0 DEF TypeOK
  <2> QED  BY <1>0, <2>1, <2>2, <2>3, <2>4 DEF TypeOK, levelVars, logVars
<1>2. DecodesOne' /\ HooksRemoved'
  BY <1>0 DEF DecodesOne, HooksRemoved
<1>3. CaughtKept'
  <2>1. hooks'.interrupted = TRUE
    BY <1>0 DEF TypeOK
  <2>2. CASE call.kind = "batch"
    BY <1>0, <2>2 DEF CaughtKept, Interrupted
  <2>3. CASE call.kind # "batch"
    BY <1>0, <2>1, <2>3 DEF CaughtKept, Interrupted
  <2> QED  BY <2>2, <2>3
<1>4. LevelKept' /\ NothingLost'
  BY <1>0 DEF LevelKept, NothingLost, levelVars, logVars
<1> QED  BY <1>1, <1>2, <1>3, <1>4 DEF IInv

LEMMA TickKeeps ==
  ASSUME IInv, Tick
  PROVE  IInv'
<1>0. /\ TypeOK /\ DecodesOne /\ HooksRemoved /\ CaughtKept /\ LevelKept /\ NothingLost
      /\ where = "tick" /\ where' = "native"
      /\ UNCHANGED << call, left, decoding, status, hooks, caught, entryAborted, ended,
                      levelVars >>
  BY DEF IInv, Tick
<1>1. CASE Flush
  <2>1. /\ buffer' = << >> /\ accepted' = accepted
        /\ shown' \in Seq(MessageLevels)
        /\ pending' \in BOOLEAN /\ cut' \in BOOLEAN
        /\ ~ cut' => shown' = accepted
    BY <1>0, <1>1, FlushFacts
  <2>2. << >> \in Seq(MessageLevels) /\ Len(<< >>) = 0
    OBVIOUS
  <2>3. TypeOK'
    <3>1. buffer' \in Seq(MessageLevels) /\ Len(buffer') <= MaxKept
      BY <2>1, <2>2, NativeCallAssumption
    <3> QED  BY <1>0, <2>1, <3>1 DEF TypeOK, levelVars
  <2>4. NothingLost'
    BY <1>0, <2>1, <2>2, ConcatFacts DEF NothingLost, TypeOK
  <2> QED  BY <1>0, <2>3, <2>4
           DEF IInv, DecodesOne, HooksRemoved, CaughtKept, LevelKept, levelVars
<1>2. CASE pending' \in {pending, FALSE} /\ UNCHANGED logVars
  <2>0. pending' \in BOOLEAN
    BY <1>0, <1>2 DEF TypeOK
  <2>1. TypeOK'
    BY <1>0, <1>2, <2>0 DEF TypeOK, levelVars, logVars
  <2> QED  BY <1>0, <1>2, <2>1
           DEF IInv, DecodesOne, HooksRemoved, CaughtKept, LevelKept, NothingLost,
               levelVars, logVars
<1> QED  BY <1>1, <1>2 DEF Tick

LEMMA TickFailsKeeps ==
  ASSUME IInv, TickFails
  PROVE  IInv'
<1>0. /\ TypeOK /\ DecodesOne /\ HooksRemoved /\ CaughtKept /\ LevelKept /\ NothingLost
      /\ where = "tick" /\ where' = "native"
      /\ hooks' = [hooks EXCEPT !.tick = FALSE] /\ pending' \in {pending, FALSE}
      /\ UNCHANGED << call, left, decoding, status, caught, entryAborted, ended,
                      levelVars, logVars >>
  BY DEF IInv, TickFails
<1>1. hooks' \in [installed : BOOLEAN, check : BOOLEAN, tick : BOOLEAN,
                  interrupted : BOOLEAN]
  BY <1>0 DEF TypeOK
<1>2. TypeOK'
  BY <1>0, <1>1 DEF TypeOK, levelVars, logVars
<1> QED  BY <1>0, <1>2 DEF IInv, DecodesOne, HooksRemoved, CaughtKept, LevelKept,
                          NothingLost, levelVars, logVars

LEMMA ReturnKeeps ==
  ASSUME IInv, Return
  PROVE  IInv'
<1>0. /\ TypeOK /\ DecodesOne /\ HooksRemoved /\ CaughtKept /\ LevelKept /\ NothingLost
      /\ where = "return" /\ where' = "drain"
      /\ UNCHANGED << call, left, decoding, status, pending, caught, entryAborted,
                      levelVars, logVars >>
  BY DEF IInv, Return
<1>1. /\ hooks' \in [installed : BOOLEAN, check : BOOLEAN, tick : BOOLEAN,
                     interrupted : BOOLEAN]
      /\ ~ hooks'.installed /\ ~ hooks'.check /\ ~ hooks'.tick
  <2>1. hooks \in [installed : BOOLEAN, check : BOOLEAN, tick : BOOLEAN,
                   interrupted : BOOLEAN]
    BY <1>0 DEF TypeOK
  <2>2. CASE hooks' = [Removed(hooks) EXCEPT !.interrupted = FALSE]
    BY <2>1, <2>2 DEF Removed
  <2>3. CASE hooks' = Removed(hooks)
    BY <2>1, <2>3 DEF Removed
  <2> QED  BY <2>2, <2>3 DEF Return
<1>2. ended' \in {"none", "value", "error", "interrupted"}
  BY DEF Return, EndsAs
<1>3. TypeOK'
  BY <1>0, <1>1, <1>2 DEF TypeOK, levelVars, logVars
<1>4. HooksRemoved'
  BY <1>1 DEF HooksRemoved
<1>5. CaughtKept'
  BY <1>0 DEF CaughtKept, Return, EndsAs
<1> QED  BY <1>0, <1>3, <1>4, <1>5 DEF IInv, DecodesOne, LevelKept, NothingLost,
                                      levelVars, logVars

LEMMA DrainKeeps ==
  ASSUME IInv, Drain
  PROVE  IInv' /\ buffer' = << >> /\ (~ cut' => shown' = accepted)
<1>0. /\ TypeOK /\ DecodesOne /\ HooksRemoved /\ CaughtKept /\ LevelKept /\ NothingLost
      /\ where = "drain" /\ where' = "idle" /\ Flush
      /\ ended' = (IF pending' # pending THEN "interrupted" ELSE ended)
      /\ verbosity' = (IF call.verbose THEN saved ELSE verbosity)
      /\ UNCHANGED << call, left, decoding, status, hooks, caught, entryAborted, saved,
                      chosen >>
  BY DEF IInv, Drain
<1>1. /\ buffer' = << >> /\ accepted' = accepted
      /\ shown' \in Seq(MessageLevels)
      /\ pending' \in BOOLEAN /\ cut' \in BOOLEAN
      /\ ~ cut' => shown' = accepted
  BY <1>0, FlushFacts
<1>2. << >> \in Seq(MessageLevels) /\ Len(<< >>) = 0
  OBVIOUS
<1>3. TypeOK'
  <2>1. buffer' \in Seq(MessageLevels) /\ Len(buffer') <= MaxKept
    BY <1>1, <1>2, NativeCallAssumption
  <2>2. ended' \in {"none", "value", "error", "interrupted"}
    BY <1>0 DEF TypeOK
  <2>3. verbosity' \in DOMAIN Rank
    BY <1>0 DEF TypeOK
  <2> QED  BY <1>0, <1>1, <2>1, <2>2, <2>3 DEF TypeOK
<1>4. DecodesOne' /\ HooksRemoved'
  BY <1>0 DEF DecodesOne, HooksRemoved
<1>5. CaughtKept'
  BY <1>0 DEF CaughtKept
<1>6. LevelKept'
  BY <1>0 DEF LevelKept
<1>7. NothingLost'
  BY <1>0, <1>1, <1>2, ConcatFacts DEF NothingLost, TypeOK
<1> QED  BY <1>1, <1>3, <1>4, <1>5, <1>6, <1>7 DEF IInv

LEMMA LogKeeps ==
  ASSUME IInv, NEW level \in MessageLevels, Log(level)
  PROVE  IInv'
<1>0. /\ TypeOK /\ DecodesOne /\ HooksRemoved /\ CaughtKept /\ LevelKept /\ NothingLost
      /\ Len(buffer) < MaxKept
      /\ buffer' = Append(buffer, level) /\ accepted' = Append(accepted, level)
      /\ UNCHANGED << callVars, hookVars, levelVars, shown, cut >>
  BY DEF IInv, Log, Takes
<1>1. /\ buffer \in Seq(MessageLevels) /\ accepted \in Seq(MessageLevels)
      /\ shown \in Seq(MessageLevels)
  BY <1>0 DEF TypeOK
<1>2. /\ buffer' \in Seq(MessageLevels) /\ accepted' \in Seq(MessageLevels)
      /\ Len(buffer') <= MaxKept
  BY <1>0, <1>1, NativeCallAssumption
<1>3. TypeOK'
  BY <1>0, <1>2 DEF TypeOK, callVars, hookVars, levelVars
<1>4. NothingLost'
  <2>1. shown \o Append(buffer, level) = Append(shown \o buffer, level)
    BY <1>1, ConcatFacts
  <2> QED  BY <1>0, <2>1 DEF NothingLost
<1> QED  BY <1>0, <1>3, <1>4
         DEF IInv, DecodesOne, HooksRemoved, CaughtKept, LevelKept,
             callVars, hookVars, levelVars

LEMMA SetVerbosityKeeps ==
  ASSUME IInv, NEW level \in UserLevels, SetVerbosity(level)
  PROVE  IInv'
<1>0. /\ TypeOK /\ DecodesOne /\ HooksRemoved /\ CaughtKept /\ LevelKept /\ NothingLost
      /\ where = "idle" /\ verbosity' = level /\ chosen' = level
      /\ buffer' = << >> /\ accepted' = << >> /\ shown' = << >>
      /\ UNCHANGED << callVars, hookVars, saved, cut >>
  BY DEF IInv, SetVerbosity
<1>1. << >> \in Seq(MessageLevels) /\ Len(<< >>) = 0
  OBVIOUS
<1>2. TypeOK'
  <2>1. /\ buffer' \in Seq(MessageLevels) /\ accepted' \in Seq(MessageLevels)
        /\ shown' \in Seq(MessageLevels) /\ Len(buffer') <= MaxKept
    BY <1>0, <1>1, NativeCallAssumption
  <2>2. verbosity' \in DOMAIN Rank /\ chosen' \in DOMAIN Rank
    BY <1>0, NativeCallAssumption
  <2> QED  BY <1>0, <2>1, <2>2 DEF TypeOK, callVars, hookVars
<1>3. LevelKept'
  BY <1>0 DEF LevelKept, callVars
<1>4. NothingLost'
  BY <1>0, <1>1, ConcatFacts DEF NothingLost
<1> QED  BY <1>0, <1>2, <1>3, <1>4
         DEF IInv, DecodesOne, HooksRemoved, CaughtKept, callVars, hookVars

LEMMA UserKeeps ==
  ASSUME IInv, Press \/ Handle \/ UNCHANGED vars
  PROVE  IInv'
<1>0. /\ TypeOK /\ DecodesOne /\ HooksRemoved /\ CaughtKept /\ LevelKept /\ NothingLost
      /\ pending' \in BOOLEAN
      /\ UNCHANGED << callVars, hooks, caught, entryAborted, ended, levelVars, logVars >>
  BY DEF IInv, TypeOK, Press, Handle, vars, hookVars
<1>1. TypeOK'
  BY <1>0 DEF TypeOK, callVars, levelVars, logVars
<1> QED  BY <1>0, <1>1
         DEF IInv, DecodesOne, HooksRemoved, CaughtKept, LevelKept, NothingLost,
             callVars, levelVars, logVars

LEMMA NextIInv == IInv /\ [Next]_vars => IInv'
<1> SUFFICES ASSUME IInv, [Next]_vars PROVE IInv'
  OBVIOUS
<1>1. CASE \E c \in MadeCalls :
             \E n \in 1 .. (IF c.kind = "batch" THEN MaxUtterances ELSE 1) : Call(c, n)
  BY <1>1, CallKeeps
<1>2. CASE \/ NextUtterance
           \/ \E outcome \in {"OK", "ERR"} : UtteranceEnds(outcome)
           \/ call.kind = "batch" /\ \E outcome \in {"OK", "ERR"} : BatchEnds(outcome)
           \/ TickDue
  BY <1>2, LibraryKeeps
<1>3. CASE Interrupted
  BY <1>3, InterruptedKeeps
<1>4. CASE Tick
  BY <1>4, TickKeeps
<1>5. CASE TickFails
  BY <1>5, TickFailsKeeps
<1>6. CASE Return
  BY <1>6, ReturnKeeps
<1>7. CASE Drain
  BY <1>7, DrainKeeps
<1>8. CASE \E level \in MessageLevels : Log(level)
  BY <1>8, LogKeeps
<1>9. CASE \E level \in UserLevels : SetVerbosity(level)
  BY <1>9, SetVerbosityKeeps
<1>10. CASE Press \/ Handle \/ UNCHANGED vars
  BY <1>10, UserKeeps
<1> QED
  BY <1>1, <1>2, <1>3, <1>4, <1>5, <1>6, <1>7, <1>8, <1>9, <1>10 DEF Next

LEMMA Invariance == Spec => []IInv
<1>1. Init => IInv
  BY InitIInv
<1>2. IInv /\ [Next]_vars => IInv'
  BY NextIInv
<1> QED  BY <1>1, <1>2, PTL DEF Spec

-----------------------------------------------------------------------------
(* What follows.                                                           *)

\* All variables keep their types; the log buffer never exceeds max_kept.
THEOREM TypeCorrect == Spec => []TypeOK
<1>1. IInv => TypeOK
  BY DEF IInv
<1> QED  BY <1>1, Invariance, PTL

\* The callback and the globals of RunHooks never outlive the call they were installed
\* for, however it ended.
THEOREM HooksNeverLeft == Spec => []HooksRemoved
<1>1. IInv => HooksRemoved
  BY DEF IInv
<1> QED  BY <1>1, Invariance, PTL

\* A Ctrl-C that the abort callback consumed reaches the caller: as an interrupt, as
\* an error, or as an utterance of the batch that is marked aborted.
THEOREM CtrlCNeverSilent == Spec => []InterruptTold
<1>1. IInv => InterruptTold
  BY DEF IInv, CaughtKept, InterruptTold
<1> QED  BY <1>1, Invariance, PTL

\* As long as no Ctrl-C cuts the re-emission short, every message the sink accepted
\* during a call is either shown or still buffered, once and in order.
THEOREM LogComplete == Spec => []NothingLost
<1>1. IInv => NothingLost
  BY DEF IInv
<1> QED  BY <1>1, Invariance, PTL

\* Between calls the verbosity is what the user chose, after verbose runs that failed
\* or were interrupted too.
THEOREM LevelRestored == Spec => []VerbosityKept
<1>1. IInv => VerbosityKept
  BY DEF IInv, LevelKept, VerbosityKept
<1> QED  BY <1>1, Invariance, PTL

\* A call that ends has emptied the buffer and shown all it logged, in order.
THEOREM LogShownAtEnd == Spec => CallShowsLog
<1>1. IInv /\ [Next]_vars =>
        [where = "drain" /\ where' = "idle" =>
           /\ buffer' = << >>
           /\ ~ cut' => shown' = accepted]_vars
  <2> SUFFICES ASSUME IInv, [Next]_vars, where = "drain", where' = "idle"
               PROVE  buffer' = << >> /\ (~ cut' => shown' = accepted)
    OBVIOUS
  <2>1. Drain
    BY DEF Next, Call, NextUtterance, UtteranceEnds, BatchEnds, Interrupted, TickDue, Tick,
           TickFails, Return, Log, SetVerbosity, Press, Handle, vars, callVars
  <2> QED  BY <2>1, DrainKeeps
<1> QED  BY <1>1, Invariance, PTL DEF Spec, CallShowsLog
=============================================================================
