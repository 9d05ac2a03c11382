----------------------------- MODULE WorkerPool -----------------------------
(***************************************************************************)
(* parallel_for_all (transcribe-batch-util.cpp): the pool of threads that  *)
(* computes the features of a batch.  The calling thread starts the others *)
(* one at a time, works along with them, and joins them.  All of them take *)
(* indices from one atomic counter.                                        *)
(*                                                                         *)
(* work(i) is the family's: it computes the features of utterance i or     *)
(* fails to.  A strict family (parakeet) answers FALSE for a failure, so   *)
(* that the whole batch falls back; the others (canary, cohere) note it in *)
(* an array and answer TRUE.  Every access to `next' and `all_ok' is one   *)
(* atomic operation of the code, and so a step of its own.                 *)
(***************************************************************************)
EXTENDS Integers, FiniteSets

CONSTANTS
    MaxItems,      \* bound: a batch has at most this many utterances
    MaxThreads     \* bound: threads a caller may ask for

ASSUME PoolAssumption == MaxItems \in Nat /\ MaxThreads \in Nat \ {0}

VARIABLES
    n,             \* how many indices there are
    strict,        \* whether work answers FALSE for a failure
    nThreads,      \* threads in use, the caller among them
    next,          \* the atomic counter
    allOk,         \* the atomic flag
    worker,        \* what each thread does, and with which index
    works,         \* times each index was worked
    failed,        \* indices whose work failed
    answer         \* "none" until the call returns, then its answer

poolVars == <<n, strict, nThreads, next, allOk, worker, works, failed, answer>>

Caller  == 0
Threads == 0 .. MaxThreads - 1
Items   == 0 .. MaxItems - 1
Asleep  == [at |-> "asleep", i |-> 0]
Larger(a, b)  == IF a < b THEN b ELSE a
Smaller(a, b) == IF a < b THEN a ELSE b

AllExited_CallerOnly == worker[Caller].at = "exited"
AllExited_AllThreads == \A w \in Threads : worker[w].at = "exited"
\* The caller is past its own loop, and so is every thread it started.
AllExited == \A w \in 0 .. nThreads - 1 : worker[w].at = "exited"

\* The threads used for a request: never more than indices, and never none.
\* A request of 0 is for the number of processors, which may be any.
Clamped(asked) == Larger(1, Smaller(n, asked))

PoolTypeOK ==
    /\ n \in 0 .. MaxItems
    /\ strict \in BOOLEAN
    /\ nThreads \in 0 .. MaxThreads
    /\ next \in Nat
    /\ allOk \in BOOLEAN
    /\ worker \in [Threads -> [at : {"asleep", "loop", "work", "store", "exited"},
                               i  : 0 .. MaxItems]]
    /\ works \in [Items -> Nat]
    /\ failed \subseteq Items
    /\ answer \in {"none", "all", "failures"}

PoolInit ==
    /\ n \in 0 .. MaxItems
    /\ strict \in BOOLEAN
    /\ nThreads = 0
    /\ next = 0
    /\ allOk = TRUE
    /\ worker = [w \in Threads |-> Asleep]
    /\ works = [i \in Items |-> 0]
    /\ failed = {}
    /\ answer = "none"

-----------------------------------------------------------------------------
\* Nothing to do: answers without a thread.
NoItems ==
    /\ n = 0 /\ answer = "none"
    /\ answer' = "all"
    /\ UNCHANGED <<n, strict, nThreads, next, allOk, worker, works, failed>>

\* The call fixes how many threads it uses.
Call ==
    /\ n > 0 /\ nThreads = 0
    /\ \E asked \in 1 .. MaxThreads : nThreads' = Clamped(asked)
    /\ UNCHANGED <<n, strict, next, allOk, worker, works, failed, answer>>

\* The caller starts the threads one by one; those it has started may already
\* work.  With all of them started it enters the loop itself.
Start(w) ==
    /\ w < nThreads /\ worker[w].at = "asleep"
    /\ \A v \in 1 .. nThreads - 1 : w = Caller \/ v < w => worker[v].at # "asleep"
    /\ worker' = [worker EXCEPT ![w].at = "loop"]
    /\ UNCHANGED <<n, strict, nThreads, next, allOk, works, failed, answer>>

\* next.fetch_add(1): the thread owns the index it got, or leaves the loop.
Fetch(w) ==
    /\ worker[w].at = "loop"
    /\ next' = next + 1
    /\ worker' = [worker EXCEPT ![w] = IF next < n THEN [at |-> "work", i |-> next]
                                       ELSE [@ EXCEPT !.at = "exited"]]
    /\ UNCHANGED <<n, strict, nThreads, allOk, works, failed, answer>>

\* work(i) ends.
Work(w, ok) ==
    /\ worker[w].at = "work"
    /\ works' = [works EXCEPT ![worker[w].i] = @ + 1]
    /\ failed' = IF ok THEN failed ELSE failed \cup {worker[w].i}
    /\ worker' = [worker EXCEPT ![w].at = IF ok \/ ~strict THEN "loop" ELSE "store"]
    /\ UNCHANGED <<n, strict, nThreads, next, allOk, answer>>

\* all_ok.store(false): the loop goes on, a failure stops no other index.
Store(w) ==
    /\ worker[w].at = "store"
    /\ allOk' = FALSE
    /\ worker' = [worker EXCEPT ![w].at = "loop"]
    /\ UNCHANGED <<n, strict, nThreads, next, works, failed, answer>>

\* The caller has joined every thread and answers.
Join ==
    /\ nThreads > 0 /\ answer = "none"
    /\ AllExited
    /\ answer' = IF allOk THEN "all" ELSE "failures"
    /\ UNCHANGED <<n, strict, nThreads, next, allOk, worker, works, failed>>

Step(w) == Fetch(w) \/ (\E ok \in BOOLEAN : Work(w, ok)) \/ Store(w)
CallerStep == NoItems \/ Call \/ Join \/ \E w \in Threads : Start(w)

PoolNext == CallerStep \/ \E w \in Threads : Step(w)
PoolSpec == PoolInit /\ [][PoolNext]_poolVars

-----------------------------------------------------------------------------
(* The contract in transcribe-batch-util.h: work(i) was called once for    *)
(* every index when the call returns, however the threads interleaved, and *)
(* the answer is whether all calls answered TRUE.                          *)
PoolAnswersAll ==
    answer # "none" => /\ \A i \in 0 .. n - 1 : works[i] = 1
                       /\ (answer = "all") <=> (strict => failed = {})
=============================================================================
