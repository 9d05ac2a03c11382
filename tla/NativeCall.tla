----------------------------- MODULE NativeCall -----------------------------
(***************************************************************************)
(* One call from R into the library: transcribe_run, transcribe_run_batch, *)
(* stream feed and finalize. The R thread installs the abort callback,     *)
(* runs the library, removes the callback, turns a caught Ctrl-C back into *)
(* an R interrupt, re-emits the buffered log and restores the verbosity,   *)
(* while the user presses Ctrl-C and the library logs at any time.         *)
(***************************************************************************)
EXTENDS Integers, Sequences

CONSTANTS
  HasRunBatch,    \* the family has a run_batch hook, with a loop of its own
  MaxUtterances,  \* bound: utterances of a batch
  MessageLevels,  \* severities of the messages that the library logs
  UserLevels,     \* verbosity levels that the user sets
  MaxKept,        \* max_kept of the log buffer
  MaxMessages     \* bound: messages that the sink has accepted and not forgotten

\* severity_rank and the ranks of transcribe_set_verbosity: 0 is most severe.
Rank == [none |-> -1, error |-> 0, warn |-> 1, info |-> 2, debug |-> 3]

ASSUME NativeCallAssumption ==
  /\ HasRunBatch \in BOOLEAN
  /\ MaxUtterances \in Nat \ {0}
  /\ MessageLevels \subseteq DOMAIN Rank \ {"none"}
  /\ UserLevels \subseteq DOMAIN Rank
  /\ MaxKept \in Nat
  /\ MaxMessages \in Nat

VARIABLES
  where,      \* where the R thread is: "idle", in the library ("native"), in the
              \* tick's R code ("tick"), leaving the library ("return"), or
              \* re-emitting the log ("drain")
  call,       \* the arguments of the last call
  left,       \* utterances that the library has not finished
  decoding,   \* it is inside one, not between two
  status,     \* what the library answers
  pending,    \* a Ctrl-C that R has not yet handled
  hooks,      \* RunHooks: the callback installed on the session, and the globals
              \* g_check_interrupt, g_tick_fn (set or NULL) and g_interrupted
  caught,     \* history: the callback took a Ctrl-C during this call
  entryAborted, \* history: an utterance of the batch is reported as aborted
  ended,      \* history: what the R caller of the last call got
  verbosity,  \* the$verbosity
  saved,      \* old_verbosity of a verbose run
  chosen,     \* history: the level that the user set last
  buffer,     \* messages of the log buffer
  accepted,   \* history: what the sink took, since the call began
  shown,      \* history: what R re-emitted, since the call began
  cut         \* history: a Ctrl-C cut re-emitting short, in this call

callVars  == << where, call, left, decoding, status >>
hookVars  == << pending, hooks, caught, entryAborted, ended >>
levelVars == << verbosity, saved, chosen >>
logVars   == << buffer, accepted, shown, cut >>
vars      == << callVars, hookVars, levelVars, logVars >>

Calls == [kind : {"run", "batch", "stream"}, interruptible : BOOLEAN,
          tick : BOOLEAN, verbose : BOOLEAN]

\* What R/run.R and R/stream.R pass: a verbose run always ticks, a stream is always
\* interruptible and never ticks.
MadeCalls == {c \in Calls :
  /\ c.verbose => c.tick
  /\ c.kind = "stream" => c.interruptible /\ ~ c.tick}

NoHooks == [installed |-> FALSE, check |-> FALSE, tick |-> FALSE, interrupted |-> FALSE]

Init ==
  /\ where = "idle" /\ left = 0 /\ decoding = FALSE /\ status = "OK"
  /\ call = [kind |-> "run", interruptible |-> TRUE, tick |-> FALSE, verbose |-> FALSE]
  /\ pending = FALSE /\ hooks = NoHooks
  /\ caught = FALSE /\ entryAborted = FALSE /\ ended = "none"
  /\ verbosity = "warn" /\ saved = "warn" /\ chosen = "warn"
  /\ buffer = << >> /\ accepted = << >> /\ shown = << >> /\ cut = FALSE

-----------------------------------------------------------------------------
(* The log sink.                                                           *)

\* log_trampoline: below the threshold and while there is room.
Takes(level) ==
  /\ verbosity # "none"
  /\ Rank[level] <= Rank[verbosity]
  /\ Len(buffer) < MaxKept

\* The library logs, from the run thread or a worker, during a call, or in a native
\* call that R does not wrap in with_native_log (a reset, a finalizer).
Log(level) ==
  /\ where \in {"native", "tick", "idle"}
  /\ Takes(level)
  /\ Len(accepted) < MaxMessages
  /\ buffer' = Append(buffer, level)
  /\ accepted' = Append(accepted, level)
  /\ UNCHANGED << callVars, hookVars, levelVars, shown, cut >>

\* transcribe_set_verbosity between two calls; cpp_log_set empties the buffer, and what
\* is in it, logged since the last call, is dropped: such messages are not counted.
SetVerbosity(level) ==
  /\ where = "idle"
  /\ verbosity' = level /\ chosen' = level
  /\ buffer' = << >> /\ accepted' = << >> /\ shown' = << >>
  /\ UNCHANGED << callVars, hookVars, saved, cut >>

\* Mutant of Flush: the messages are copied out but stay in the buffer.
Flush_KeepsBuffer ==
  /\ shown' = shown \o buffer
  /\ UNCHANGED << buffer, pending, cut, accepted >>

\* flush_native_log: the buffer is emptied at once, its messages re-emitted one by
\* one, and a Ctrl-C may come after any of them.
Flush ==
  /\ buffer' = << >>
  /\ \/ /\ shown' = shown \o buffer
        /\ UNCHANGED << pending, cut >>
     \/ /\ pending
        /\ pending' = FALSE
        /\ \E n \in 0 .. Len(buffer) :
             /\ shown' = shown \o SubSeq(buffer, 1, n)
             /\ cut' = (cut \/ n < Len(buffer))
  /\ UNCHANGED accepted

-----------------------------------------------------------------------------
(* The call.                                                               *)

\* Into the library: set the level, make the ticker, install the hooks.
Call(c, n) ==
  /\ where = "idle"
  /\ where' = "native"
  /\ call' = c
  /\ left' = n
  /\ decoding' = (c.kind # "batch")
  /\ status' = "OK"
  /\ hooks' = [installed   |-> c.interruptible \/ c.tick,
               check       |-> c.interruptible,
               tick        |-> c.tick,
               interrupted |-> FALSE]
  /\ caught' = FALSE /\ entryAborted' = FALSE /\ ended' = "none"
  /\ saved' = verbosity
  /\ verbosity' = IF c.verbose THEN "info" ELSE verbosity
  /\ buffer' = IF c.verbose THEN << >> ELSE buffer
  /\ accepted' = buffer' /\ shown' = << >> /\ cut' = FALSE
  /\ UNCHANGED << pending, chosen >>

NextUtterance ==
  /\ where = "native" /\ ~ decoding /\ left > 0
  /\ decoding' = TRUE
  /\ UNCHANGED << where, call, left, status, hookVars, levelVars, logVars >>

\* An utterance ends by itself, well or not; in a batch only that one is affected.
UtteranceEnds(outcome) ==
  /\ where = "native" /\ decoding
  /\ left' = left - 1
  /\ decoding' = FALSE
  /\ IF call.kind = "batch" THEN UNCHANGED << where, status >>
                            ELSE where' = "return" /\ status' = outcome
  /\ UNCHANGED << call, hookVars, levelVars, logVars >>

\* A batch ends after its last utterance, or fails as a whole.
BatchEnds(outcome) ==
  /\ where = "native" /\ ~ decoding
  /\ outcome = "OK" => left = 0
  /\ where' = "return"
  /\ status' = outcome
  /\ UNCHANGED << call, left, decoding, hookVars, levelVars, logVars >>

\* Mutant of Catches: the Ctrl-C is consumed but not recorded.
Catches_Forgets ==
  /\ pending' = FALSE
  /\ caught' = TRUE
  /\ UNCHANGED hooks

\* R_ToplevelExec consumes the interrupt; only g_interrupted remembers it.
Catches ==
  /\ pending' = FALSE
  /\ caught' = TRUE
  /\ hooks' = [hooks EXCEPT !.interrupted = TRUE]

\* The library polls the callback, which finds a Ctrl-C. A run, a stream, the
\* dispatcher's own batch loop, the batched graph of a family and any loop between two
\* utterances end at once; inside an utterance, the loop of a family records that one
\* as aborted and goes on with the next.
Interrupted ==
  /\ where = "native"
  /\ hooks.installed /\ hooks.check /\ pending
  /\ Catches
  /\ decoding' = FALSE
  /\ \/ /\ where' = "return"
        /\ status' = "ABORTED"
        /\ UNCHANGED left
     \/ /\ call.kind = "batch" /\ HasRunBatch /\ decoding
        /\ left' = left - 1
        /\ UNCHANGED << where, status >>
  /\ entryAborted' = (entryAborted \/ call.kind = "batch")
  /\ UNCHANGED << call, ended, levelVars, logVars >>

\* Mutant of TickDue: the callback ticks before it looks for a Ctrl-C.
TickDue_First ==
  /\ where = "native"
  /\ hooks.installed /\ hooks.tick
  /\ where' = "tick"
  /\ UNCHANGED << call, left, decoding, status, hookVars, levelVars, logVars >>

\* The library polls the callback, which finds no Ctrl-C and the next tick due.
TickDue ==
  /\ where = "native"
  /\ hooks.installed /\ hooks.tick
  /\ ~ (hooks.check /\ pending)
  /\ where' = "tick"
  /\ UNCHANGED << call, left, decoding, status, hookVars, levelVars, logVars >>

\* The tick's closure, which handles errors and interrupts itself: a Ctrl-C pressed
\* meanwhile is lost. Only a verbose run re-emits the log.
Tick ==
  /\ where = "tick"
  /\ where' = "native"
  /\ \/ call.verbose /\ Flush
     \/ /\ pending' \in {pending, FALSE}
        /\ ~ call.verbose \/ pending' # pending
        /\ UNCHANGED logVars
  /\ UNCHANGED << call, left, decoding, status, hooks, caught, entryAborted, ended,
                  levelVars >>

\* A failure that escapes the closure ends the ticking; if it was a Ctrl-C, that is
\* consumed by R_ToplevelExec.
TickFails ==
  /\ where = "tick"
  /\ where' = "native"
  /\ hooks' = [hooks EXCEPT !.tick = FALSE]
  /\ pending' \in {pending, FALSE}
  /\ UNCHANGED << call, left, decoding, status, caught, entryAborted, ended, levelVars,
                  logVars >>

\* Mutant of Removed: the callback goes, the closure stays.
Removed_TickStays(h) == [h EXCEPT !.installed = FALSE, !.check = FALSE]

\* The destructor of RunHooks.
Removed(h) == [h EXCEPT !.installed = FALSE, !.check = FALSE, !.tick = FALSE]

\* What a call that no Ctrl-C ended gives to R: an abort that nobody asked for leaves
\* a partial result, and is an error of a stream.
EndsAs == IF status = "ERR" \/ (status = "ABORTED" /\ call.kind = "stream")
          THEN "error" ELSE "value"

\* Out of the library: remove the hooks, rethrow_if_interrupted, stop_if_error. An
\* "interrupted" call ends in R with the error "interrupted by user".
Return ==
  /\ where = "return"
  /\ where' = "drain"
  /\ IF status = "ABORTED" /\ hooks.interrupted
     THEN /\ ended' = "interrupted"
          /\ hooks' = [Removed(hooks) EXCEPT !.interrupted = FALSE]
     ELSE /\ ended' = EndsAs
          /\ hooks' = Removed(hooks)
  /\ UNCHANGED << call, left, decoding, status, pending, caught, entryAborted, levelVars,
                  logVars >>

\* Mutants of Drain: the level is restored, and the buffer with it emptied, before
\* the log is re-emitted; it is restored only after a call that returned a value.
Drain_RestoresFirst ==
  /\ where = "drain"
  /\ where' = "idle"
  /\ IF call.verbose THEN buffer' = << >> /\ UNCHANGED << shown, pending, cut, accepted >>
                     ELSE Flush
  /\ verbosity' = IF call.verbose THEN saved ELSE verbosity
  /\ UNCHANGED << call, left, decoding, status, hooks, caught, entryAborted, ended, saved,
                  chosen >>

Drain_RestoresOnSuccess ==
  /\ where = "drain"
  /\ where' = "idle"
  /\ Flush
  /\ ended' = IF pending' # pending THEN "interrupted" ELSE ended
  /\ verbosity' = IF call.verbose /\ ended' = "value" THEN saved ELSE verbosity
  /\ UNCHANGED << call, left, decoding, status, hooks, caught, entryAborted, saved,
                  chosen >>

\* on.exit of with_native_log, then of the verbose run: re-emit, then restore the
\* level. A Ctrl-C that comes in here interrupts the R code.
Drain ==
  /\ where = "drain"
  /\ where' = "idle"
  /\ Flush
  /\ ended' = IF pending' # pending THEN "interrupted" ELSE ended
  /\ verbosity' = IF call.verbose THEN saved ELSE verbosity
  /\ UNCHANGED << call, left, decoding, status, hooks, caught, entryAborted, saved,
                  chosen >>

-----------------------------------------------------------------------------
(* The user.                                                               *)

\* Ctrl-C, at any time.
Press ==
  /\ ~ pending
  /\ pending' = TRUE
  /\ UNCHANGED << callVars, hooks, caught, entryAborted, ended, levelVars, logVars >>

\* R handles a Ctrl-C between two calls.
Handle ==
  /\ where = "idle" /\ pending
  /\ pending' = FALSE
  /\ UNCHANGED << callVars, hooks, caught, entryAborted, ended, levelVars, logVars >>

Next ==
  \/ \E c \in MadeCalls : \E n \in 1 .. (IF c.kind = "batch" THEN MaxUtterances ELSE 1) :
        Call(c, n)
  \/ NextUtterance
  \/ \E outcome \in {"OK", "ERR"} : UtteranceEnds(outcome)
  \/ call.kind = "batch" /\ \E outcome \in {"OK", "ERR"} : BatchEnds(outcome)
  \/ Interrupted
  \/ TickDue \/ Tick \/ TickFails
  \/ Return
  \/ Drain
  \/ \E level \in MessageLevels : Log(level)
  \/ \E level \in UserLevels : SetVerbosity(level)
  \/ Press
  \/ Handle

\* The library polls at every decode step, so it cannot miss a Ctrl-C for ever, and
\* the R code around it runs through. Nothing says that a decode ends by itself.
Spec ==
  Init /\ [][Next]_vars
    /\ WF_vars(Interrupted) /\ WF_vars(Tick \/ TickFails) /\ WF_vars(Return) /\ WF_vars(Drain)

-----------------------------------------------------------------------------
(* Correctness.                                                            *)

TypeOK ==
  /\ where \in {"idle", "native", "tick", "return", "drain"}
  /\ call \in MadeCalls
  /\ left \in 0 .. MaxUtterances
  /\ decoding \in BOOLEAN
  /\ status \in {"OK", "ERR", "ABORTED"}
  /\ pending \in BOOLEAN
  /\ hooks \in [installed : BOOLEAN, check : BOOLEAN, tick : BOOLEAN, interrupted : BOOLEAN]
  /\ caught \in BOOLEAN /\ entryAborted \in BOOLEAN /\ cut \in BOOLEAN
  /\ ended \in {"none", "value", "error", "interrupted"}
  /\ verbosity \in DOMAIN Rank /\ saved \in DOMAIN Rank /\ chosen \in DOMAIN Rank
  /\ buffer \in Seq(MessageLevels) /\ Len(buffer) <= MaxKept
  /\ accepted \in Seq(MessageLevels)
  /\ shown \in Seq(MessageLevels)

\* g_tick_fn is "always a .Call argument of the run currently on the stack" and the
\* callback belongs to that call: outside the library neither is left, whichever way
\* the call ended, for the next call or the collector to trip over.
HooksRemoved ==
  where \in {"idle", "drain"} => ~ hooks.installed /\ ~ hooks.check /\ ~ hooks.tick

\* A Ctrl-C that the callback took is never silent: the caller gets an R interrupt or
\* an error, or at least an utterance of the batch that says it was aborted.
InterruptTold ==
  caught /\ where = "idle" =>
    \/ ended \in {"interrupted", "error"}
    \/ call.kind = "batch" /\ entryAborted

\* "Whether <kbd>Ctrl</kbd>+<kbd>C</kbd> should cancel a running transcription" (R/run.R,
\* of interruptible): a Ctrl-C that the callback took cancels the call.
InterruptCancels == caught /\ where = "idle" => ended # "value"

\* Everything the sink takes is re-emitted, once and in order, whatever drains it:
\* the ticks of a verbose run or the end of the call.
NothingLost == ~ cut => shown \o buffer = accepted

\* "buffered natively and re-emitted from R after each call" (R/devices.R): a call
\* that ends leaves nothing in the buffer, and has shown what it logged even if it
\* failed or was interrupted, at the level that it logged at.
CallShowsLog ==
  [][where = "drain" /\ where' = "idle" =>
       /\ buffer' = << >>
       /\ ~ cut' => shown' = accepted]_vars

\* A verbose run changes the level for itself alone: outside calls the level is what
\* the user chose, also after errors and interrupts.
VerbosityKept == where = "idle" => verbosity = chosen

\* A Ctrl-C during an interruptible run ends it, unless the code of a tick took it.
InterruptStopsRun ==
  (/\ where = "native" /\ call.kind # "batch" /\ call.interruptible /\ pending)
    ~> (where = "idle" \/ (~ pending /\ ~ caught))
=============================================================================
