--------------------------- MODULE BatchedDecode ---------------------------
(***************************************************************************)
(* A batch of an encoder-decoder family (run_batch of canary; cohere's is  *)
(* the same): features in parallel (WorkerPool), the encoder one utterance *)
(* after the other, and then one greedy decode of all rows in lockstep     *)
(* (run_batched_encdec_step_loop).                                         *)
(*                                                                         *)
(* The network is a function of what the mask lets a row see of its own    *)
(* cache.  Seeing its prompt and its own first k answers, row b gives the  *)
(* answer k+1, which is <eos> at ends[b]; seeing anything else, or its own *)
(* <eos>, it gives Noise.  That a batch and a single run compute the same  *)
(* function is what the families promise; that they feed it the same is    *)
(* checked.                                                                *)
(***************************************************************************)
EXTENDS WorkerPool, Sequences

CONSTANTS
    MaxNew,        \* 512 in the code: the budget of answers
    KvFloor,       \* 1024: the cache is this times a power of two, or nCtx
    FirstWindow,   \* 64: the read window starts here, and is doubled
    Contexts,      \* context ceilings: of the model, or lowered by n_ctx
    PromptLens     \* lengths of the shared prompt

ASSUME DecodeAssumption ==
    /\ MaxNew \in Nat \ {0} /\ KvFloor \in Nat \ {0} /\ FirstWindow \in Nat \ {0}
    /\ Contexts \subseteq Nat \ {0} /\ PromptLens \subseteq Nat \ {0}
    /\ \A c \in Contexts, p \in PromptLens : p <= c

VARIABLES
    phase,         \* "pool", "encode", "decode" or "returned"
    row,           \* the row to encode next
    valid,         \* rows that are decoded
    reject,        \* status of a row that is not
    nCtx, promptLen, ends,            \* of this call: see Load
    pos, produced, kvWindow, mask,    \* of the loop
    cache, nextTok, finished, generated,
    entries,       \* batch_results
    status         \* what run_batch answered

callVars == <<nCtx, promptLen, ends>>
loopVars == <<pos, produced, kvWindow, mask, cache, nextTok, finished, generated>>
decodeVars == <<phase, row, valid, reject, callVars, loopVars, entries, status>>
vars == <<poolVars, decodeVars>>

Rows == 0 .. n - 1
Eos   == 0
Noise == 0 - 1000
PromptTok(p) == 0 - (p + 1)
Answer(b, k) == IF k < ends[b] THEN k ELSE Eos

\* x after k rounds of a loop that doubles it, or halves it.
Twice(x) == LET d[k \in Nat] == IF k = 0 THEN x ELSE 2 * d[k - 1] IN d
Half(x)  == LET h[k \in Nat] == IF k = 0 THEN x ELSE h[k - 1] \div 2 IN h
Least(S) == CHOOSE k \in S : \A j \in S : k <= j

\* x doubled until it reaches y.
Doubled(x, y) == Twice(x)[Least({k \in 0 .. y : Twice(x)[k] >= y})]
MaxKv == Smaller(Doubled(KvFloor, promptLen + MaxNew), nCtx)
\* FirstWindow halved until it fits the cache.
InitWindow ==
    Half(FirstWindow)[Least({k \in 0 .. FirstWindow : Half(FirstWindow)[k] <= MaxKv})]

-----------------------------------------------------------------------------
DecodeInit ==
    /\ phase = "pool" /\ row = 0
    /\ valid = {} /\ reject = [i \in Items |-> "invalid"]
    /\ nCtx = 0 /\ promptLen = 0 /\ ends = [i \in Items |-> 1]
    /\ pos = 0 /\ produced = 0 /\ kvWindow = 0 /\ mask = {}
    /\ cache = [i \in Items |-> <<>>]
    /\ nextTok = [i \in Items |-> Eos]
    /\ finished = {}
    /\ generated = [i \in Items |-> <<>>]
    /\ entries = <<>> /\ status = "none"

Init == PoolInit /\ DecodeInit

\* The features are there.  A strict family goes another way (Session).
PoolEnds ==
    /\ phase = "pool" /\ n > 0 /\ ~strict /\ answer # "none"
    /\ phase' = "encode"
    /\ valid' = Rows \ failed
    /\ UNCHANGED <<poolVars, row, reject, callVars, loopVars, entries, status>>

\* One row is encoded; one that is too long or fails leaves the batch.
Encode(fate) ==
    /\ phase = "encode" /\ row < n
    /\ row' = row + 1
    /\ IF row \in valid /\ fate # "fits"
       THEN /\ valid' = valid \ {row}
            /\ reject' = [reject EXCEPT ![row] = IF fate = "too_long" THEN fate ELSE @]
       ELSE UNCHANGED <<valid, reject>>
    /\ UNCHANGED <<poolVars, phase, callVars, loopVars, entries, status>>

Entry(b) ==
    IF b \notin valid THEN [status |-> reject[b], text |-> <<>>]
    ELSE [status |-> IF b \in finished THEN "ok" ELSE "truncated", text |-> generated[b]]

Answers(st, rows) == /\ phase' = "returned" /\ status' = st
                     /\ entries' = [k \in 1 .. rows |-> Entry(k - 1)]

\* No row is left: all entries are refusals.
NothingToDecode ==
    /\ phase = "encode" /\ row = n /\ valid = {}
    /\ Answers("ok", n)
    /\ UNCHANGED <<poolVars, row, valid, reject, callVars, loopVars>>

\* The cache and the first graph are allocated, and rows left out are done.
Load(c, p, e) ==
    /\ phase = "encode" /\ row = n /\ valid # {}
    /\ nCtx' = c /\ promptLen' = p /\ ends' = e
    /\ phase' = "decode"
    /\ finished' = Rows \ valid
    /\ kvWindow' = InitWindow'
    /\ UNCHANGED <<poolVars, row, valid, reject, pos, produced, mask, cache, nextTok,
                   generated, entries, status>>

-----------------------------------------------------------------------------
\* ensure_window: doubles the window up to the cache, and fills the masks of
\* the wider rows up to the position.
WindowFor(p) == IF p + 1 <= kvWindow THEN kvWindow
                ELSE Smaller(Doubled(kvWindow, Smaller(p + 1, MaxKv)), MaxKv)
Refilled_OneLess(p) == IF WindowFor(p) = kvWindow THEN mask ELSE 0 .. p - 2
Refilled(p) == IF WindowFor(p) = kvWindow THEN mask ELSE 0 .. p - 1

\* What the network makes of the cache c that row b sees through the mask m.
Heard(b, c, m) ==
    LET k == Len(c) - promptLen
    IN IF /\ k < ends[b]
          /\ m = 0 .. Len(c) - 1
          /\ \A p \in m : c[p + 1] = IF p < promptLen THEN PromptTok(p) ELSE Answer(b, p - promptLen + 1)
       THEN Answer(b, k + 1) ELSE Noise

\* run_step at pos: each row writes its token, and attends to it from now on.
Step1(tok) ==
    /\ kvWindow' = WindowFor(pos)
    /\ mask' = Refilled(pos) \cup {pos}
    /\ cache' = [b \in Items |-> IF b \in Rows THEN Append(cache[b], tok[b]) ELSE cache[b]]
    /\ pos' = pos + 1

OpenRows_All == Rows
\* Rows that still take answers.
OpenRows == Rows \ finished

\* The rows that are not finished take the answer of the step.
TakeAnswers ==
    LET heard == [b \in Items |-> Heard(b, cache'[b], mask')]
    IN /\ nextTok' = [b \in Items |-> IF b \in OpenRows THEN heard[b] ELSE nextTok[b]]
       /\ finished' = finished \cup {b \in OpenRows : heard[b] = Eos}
       /\ generated' = [b \in Items |-> IF b \in OpenRows /\ heard[b] # Eos
                                        THEN Append(generated[b], heard[b]) ELSE generated[b]]

\* One token of the prompt; the step of the last one gives the first answers.
FeedPrompt ==
    /\ phase = "decode" /\ pos < promptLen
    /\ Step1([b \in Items |-> PromptTok(pos)])
    /\ IF pos + 1 = promptLen
       THEN TakeAnswers /\ produced' = 1
       ELSE UNCHANGED <<nextTok, finished, generated, produced>>
    /\ UNCHANGED <<poolVars, phase, row, valid, reject, callVars, entries, status>>

Goes_OneMore == /\ produced < MaxNew + 1
                /\ ~ (Rows \subseteq finished)
                /\ pos + 1 <= MaxKv
\* The generation goes on.
Goes == /\ produced < MaxNew
        /\ ~ (Rows \subseteq finished)
        /\ pos + 1 <= MaxKv
\* One lockstep; a finished row keeps writing <eos> to its own cache.
Generate ==
    /\ phase = "decode" /\ pos >= promptLen /\ Goes
    /\ Step1([b \in Items |-> IF b \in finished THEN Eos ELSE nextTok[b]])
    /\ TakeAnswers
    /\ produced' = produced + 1
    /\ UNCHANGED <<poolVars, phase, row, valid, reject, callVars, entries, status>>

\* One entry per row, in order.
Capture ==
    /\ phase = "decode" /\ pos >= promptLen /\ ~Goes
    /\ Answers("ok", n)
    /\ UNCHANGED <<poolVars, row, valid, reject, callVars, loopVars>>

\* An abort at a poll (before each row is encoded, at each step), a graph that
\* does not fit or a computation that fails end the call without entries.
GivesUp(st) ==
    /\ \/ phase = "encode" /\ row < n /\ st = "aborted"
       \/ phase = "encode" /\ row = n /\ valid # {} /\ st \in {"oom", "gguf"}
       \/ /\ phase = "decode" /\ (pos < promptLen \/ produced < MaxNew) /\ st = "aborted"
       \/ /\ phase = "decode" /\ (pos < promptLen \/ Goes)
          /\ st \in {"gguf"} \cup (IF WindowFor(pos) # kvWindow THEN {"oom"} ELSE {})
    /\ Answers(st, 0)
    /\ UNCHANGED <<poolVars, row, valid, reject, callVars, loopVars>>

DecodeNext ==
    \/ PoolEnds \/ NothingToDecode \/ FeedPrompt \/ Generate \/ Capture
    \/ \E fate \in {"fits", "too_long", "fails"} : Encode(fate)
    \/ \E c \in Contexts, p \in PromptLens, e \in [valid -> 1 .. MaxNew + 2] :
         Load(c, p, [i \in Items |-> IF i \in valid THEN e[i] ELSE 1])
    \/ \E st \in {"aborted", "oom", "gguf"} : GivesUp(st)

Next == \/ DecodeNext
        \/ PoolNext /\ UNCHANGED decodeVars

\* Every thread is scheduled by the system, and no step of one waits for
\* another but the join; the loops of the calling thread run on.
Fairness ==
    /\ WF_vars(DecodeNext)
    /\ WF_vars(CallerStep /\ UNCHANGED decodeVars)
    /\ \A w \in Threads : WF_vars(Step(w) /\ UNCHANGED decodeVars)

Spec == Init /\ [][Next]_vars /\ Fairness

-----------------------------------------------------------------------------
Statuses == {"ok", "truncated", "invalid", "too_long"}
Tokens == {Noise} \cup 0 .. MaxNew + 2

BatchTypeOK ==
    /\ PoolTypeOK
    /\ phase \in {"pool", "encode", "decode", "returned"} /\ row \in 0 .. n
    /\ valid \subseteq Rows /\ reject \in [Items -> Statuses]
    /\ nCtx \in {0} \cup Contexts /\ promptLen \in {0} \cup PromptLens
    /\ ends \in [Items -> 1 .. MaxNew + 2]
    /\ pos \in Nat /\ produced \in 0 .. MaxNew /\ kvWindow \in Nat /\ mask \subseteq Nat
    /\ cache \in [Items -> Seq(Int)] /\ nextTok \in [Items -> Tokens]
    /\ finished \subseteq Rows /\ generated \in [Items -> Seq(Tokens \ {Eos})]
    /\ entries \in Seq([status : Statuses, text : Seq(Tokens)])
    /\ status \in {"none", "ok", "aborted", "oom", "gguf"}

(* While rows are decoded the mask shows every row exactly the positions   *)
(* that it has written, none is lost when the window grows, and the window *)
(* holds them all and fits the cache.                                      *)
MaskIsPast ==
    phase = "decode" => /\ mask = 0 .. pos - 1
                        /\ pos <= kvWindow /\ kvWindow <= MaxKv
                        /\ \A b \in Rows : Len(cache[b]) = pos

\* What transcribe_run gives for the audio of row b (run of canary): answers
\* up to <eos>, of at most max_tokens, and at least the one of the prompt.
MaxTokens == Smaller(MaxNew, nCtx - promptLen)
Single(b) ==
    LET reads == Larger(1, MaxTokens)
    IN [status |-> IF ends[b] <= reads THEN "ok" ELSE "truncated",
        text   |-> [k \in 1 .. Smaller(ends[b] - 1, reads) |-> k]]

(* A batch that answers OK has an entry for each utterance, in order: a    *)
(* refusal for one that was not decoded, and for the others what a run of  *)
(* their own would have given, whatever rows they shared the batch with    *)
(* and however often the window grew.  Only where the context ceiling ends *)
(* the decode may the batch read one answer more, and so report a row that *)
(* alone is truncated as complete.                                         *)
BatchAsSingle ==
    status = "ok" =>
        /\ Len(entries) = n
        /\ \A b \in Rows :
             LET e == entries[b + 1]
                 s == Single(b)
             IN /\ b \in failed => e.status = "invalid"
                /\ b \notin valid => e.status \in {"invalid", "too_long"} /\ e.text = <<>>
                /\ b \in valid => /\ Len(e.text) - Len(s.text) \in {0, 1}
                                   /\ \A k \in 1 .. Len(e.text) : e.text[k] = k
                                   /\ promptLen + MaxNew <= nCtx => e = s

(* A batch returns: every thread leaves its loop and is joined, and every  *)
(* decode ends at <eos>, at its budget or at the end of its context.       *)
BatchReturns == <>(IF strict \/ n = 0 THEN answer # "none" ELSE phase = "returned")
=============================================================================
