---------------------------- MODULE BatchProofs ----------------------------
(***************************************************************************)
(* What is proved of the worker pool, for any number of utterances and of  *)
(* threads, and of the batch that uses it.                                 *)
(***************************************************************************)
EXTENDS BatchedDecode, WellFoundedInduction, TLAPS

Working(w) == worker[w].at = "work"
Held(i) == \E w \in Threads : Working(w) /\ worker[w].i = i

\* Only the threads of the call do anything, once it has fixed how many.
OnlyOurs == \A w \in Threads : worker[w].at # "asleep" => w < nThreads

\* An index below the counter is done, or one thread is at it; one above it
\* is neither.
HeldOnce == \A v, w \in Threads :
               Working(v) /\ Working(w) /\ worker[v].i = worker[w].i => v = w
HeldTaken == \A w \in Threads : Working(w) => worker[w].i < next /\ worker[w].i < n
DoneOnce == \A i \in Items : works[i] = IF i < next /\ i < n /\ ~Held(i) THEN 1 ELSE 0

\* Threads leave when the counter has passed the last index.
LeaveLate == \A w \in Threads : worker[w].at = "exited" => n <= next

\* A failure is in the flag, or on its way to it; the flag tells of nothing else.
Storing == \E w \in Threads : worker[w].at = "store"
FlagTells == /\ strict /\ failed # {} => Storing \/ ~allOk
             /\ Storing \/ ~allOk => strict /\ failed # {}

\* Once answered nothing is under way.
Answered == answer # "none" => /\ n > 0 => nThreads > 0 /\ AllExited
                               /\ n = 0 => answer = "all" /\ nThreads = 0 /\ failed = {}
                               /\ n > 0 => (answer = "all") <=> allOk
IdleEmpty == n = 0 => nThreads = 0 /\ failed = {}

PoolInv == /\ PoolTypeOK /\ OnlyOurs /\ HeldOnce /\ HeldTaken /\ DoneOnce
           /\ LeaveLate /\ FlagTells /\ Answered /\ IdleEmpty

USE PoolAssumption

LEMMA PoolStarts == PoolInit => PoolInv
<1> SUFFICES ASSUME PoolInit PROVE PoolInv
  OBVIOUS
<1>1. \A w \in Threads : worker[w].at = "asleep"
  BY DEF PoolInit, Asleep
<1>2. PoolTypeOK
  BY DEF PoolInit, PoolTypeOK, Asleep, Items, Threads
<1>3. ~Storing /\ \A i \in Items : ~Held(i) /\ works[i] = 0 /\ ~(i < next)
  BY <1>1 DEF PoolInit, Storing, Held, Working, Items
<1> QED
  BY <1>1, <1>2, <1>3 DEF PoolInit, PoolInv, OnlyOurs, HeldOnce, HeldTaken, DoneOnce, LeaveLate,
     FlagTells, Answered, IdleEmpty, Working

\* Type correctness of a step, and of the parts that only speak of one thread.
LEMMA PoolStepTypes == PoolInv /\ [PoolNext]_poolVars => PoolTypeOK'
<1> SUFFICES ASSUME PoolInv, [PoolNext]_poolVars PROVE PoolTypeOK'
  OBVIOUS
<1> USE DEF PoolInv, PoolTypeOK
<1>1. CASE NoItems
  BY <1>1 DEF NoItems
<1>2. CASE Call
  <2>1. PICK asked \in 1 .. MaxThreads : nThreads' = Clamped(asked)
    BY <1>2 DEF Call
  <2>2. nThreads' \in 0 .. MaxThreads
    BY <2>1 DEF Clamped, Larger, Smaller
  <2> QED
    BY <1>2, <2>2 DEF Call
<1>3. ASSUME NEW w \in Threads, Start(w) PROVE PoolTypeOK'
  BY <1>3 DEF Start
<1>4. ASSUME NEW w \in Threads, Fetch(w) PROVE PoolTypeOK'
  <2>1. next' \in Nat /\ (next < n => next \in 0 .. MaxItems)
    BY <1>4 DEF Fetch
  <2>2. worker'[w] \in [at : {"asleep", "loop", "work", "store", "exited"}, i : 0 .. MaxItems]
    BY <1>4, <2>1 DEF Fetch
  <2>3. worker' \in [Threads -> [at : {"asleep", "loop", "work", "store", "exited"}, i : 0 .. MaxItems]]
    BY <1>4, <2>2 DEF Fetch
  <2> QED
    BY <1>4, <2>1, <2>3 DEF Fetch
<1>5. ASSUME NEW w \in Threads, NEW ok \in BOOLEAN, Work(w, ok) PROVE PoolTypeOK'
  <2>1. worker[w].i \in Items
    BY <1>5 DEF Work, HeldTaken, Working, Items
  <2>2. works' \in [Items -> Nat] /\ failed' \subseteq Items
    BY <1>5, <2>1 DEF Work
  <2>3. worker' \in [Threads -> [at : {"asleep", "loop", "work", "store", "exited"}, i : 0 .. MaxItems]]
    BY <1>5 DEF Work
  <2> QED
    BY <1>5, <2>2, <2>3 DEF Work
<1>6. ASSUME NEW w \in Threads, Store(w) PROVE PoolTypeOK'
  BY <1>6 DEF Store
<1>7. CASE Join
  BY <1>7 DEF Join
<1>8. CASE UNCHANGED poolVars
  BY <1>8 DEF poolVars
<1> QED
  BY <1>1, <1>2, <1>3, <1>4, <1>5, <1>6, <1>7, <1>8 DEF PoolNext, CallerStep, Step

\* An index that a thread gets is new; one that it ends was its own.
LEMMA PoolStepOwners ==
    PoolInv /\ [PoolNext]_poolVars => (OnlyOurs /\ HeldOnce /\ HeldTaken /\ LeaveLate)'
<1> SUFFICES ASSUME PoolInv, [PoolNext]_poolVars
             PROVE (OnlyOurs /\ HeldOnce /\ HeldTaken /\ LeaveLate)'
  OBVIOUS
<1> USE DEF PoolInv, PoolTypeOK, OnlyOurs, HeldOnce, HeldTaken, LeaveLate, Working
<1>1. CASE NoItems
  BY <1>1 DEF NoItems
<1>2. CASE Call
  <2>1. \A w \in Threads : worker[w].at = "asleep"
    BY <1>2 DEF Call, Threads
  <2>2. worker' = worker /\ next' = next /\ n' = n
    BY <1>2 DEF Call
  <2> QED
    BY <2>1, <2>2
<1>3. ASSUME NEW w \in Threads, Start(w) PROVE (OnlyOurs /\ HeldOnce /\ HeldTaken /\ LeaveLate)'
  BY <1>3 DEF Start
<1>4. ASSUME NEW w \in Threads, Fetch(w) PROVE (OnlyOurs /\ HeldOnce /\ HeldTaken /\ LeaveLate)'
  <2>1. \A v \in Threads \ {w} : worker'[v] = worker[v]
    BY <1>4 DEF Fetch
  <2>2. next < n => worker'[w] = [at |-> "work", i |-> next]
    BY <1>4 DEF Fetch
  <2>3. ~(next < n) => worker'[w].at = "exited"
    BY <1>4 DEF Fetch
  <2>4. next' = next + 1 /\ n' = n /\ nThreads' = nThreads
    BY <1>4 DEF Fetch
  <2>5. OnlyOurs'
    BY <1>4, <2>1, <2>4 DEF Fetch
  <2>6. HeldTaken'
    BY <2>1, <2>2, <2>3, <2>4
  <2>7. HeldOnce'
    BY <2>1, <2>2, <2>3, <2>4
  <2>8. LeaveLate'
    BY <2>1, <2>2, <2>3, <2>4
  <2> QED
    BY <2>5, <2>6, <2>7, <2>8
<1>5. ASSUME NEW w \in Threads, NEW ok \in BOOLEAN, Work(w, ok)
      PROVE (OnlyOurs /\ HeldOnce /\ HeldTaken /\ LeaveLate)'
  BY <1>5 DEF Work
<1>6. ASSUME NEW w \in Threads, Store(w) PROVE (OnlyOurs /\ HeldOnce /\ HeldTaken /\ LeaveLate)'
  BY <1>6 DEF Store
<1>7. CASE Join
  BY <1>7 DEF Join
<1>8. CASE UNCHANGED poolVars
  BY <1>8 DEF poolVars
<1> QED
  BY <1>1, <1>2, <1>3, <1>4, <1>5, <1>6, <1>7, <1>8 DEF PoolNext, CallerStep, Step

\* Work is counted once, when the one thread that holds the index ends it.
LEMMA PoolStepDone == PoolInv /\ [PoolNext]_poolVars => DoneOnce'
<1> SUFFICES ASSUME PoolInv, [PoolNext]_poolVars, NEW i \in Items
             PROVE works'[i] = IF i < next' /\ i < n' /\ ~Held(i)' THEN 1 ELSE 0
  BY DEF DoneOnce
<1> USE DEF PoolInv, PoolTypeOK, Working, Held
<1>0. works[i] = IF i < next /\ i < n /\ ~Held(i) THEN 1 ELSE 0
  BY DEF DoneOnce
<1>1. CASE NoItems
  BY <1>0, <1>1 DEF NoItems
<1>2. CASE Call
  BY <1>0, <1>2 DEF Call
<1>3. ASSUME NEW w \in Threads, Start(w)
      PROVE works'[i] = IF i < next' /\ i < n' /\ ~Held(i)' THEN 1 ELSE 0
  <2>2. Held(i)' <=> Held(i)
    BY <1>3 DEF Start
  <2> QED
    BY <1>0, <1>3, <2>2 DEF Start
<1>4. ASSUME NEW w \in Threads, Fetch(w)
      PROVE works'[i] = IF i < next' /\ i < n' /\ ~Held(i)' THEN 1 ELSE 0
  <2>1. \A v \in Threads \ {w} : worker'[v] = worker[v]
    BY <1>4 DEF Fetch
  <2>2. worker[w].at = "loop" /\ worker'[w] = IF next < n THEN [at |-> "work", i |-> next]
                                              ELSE [worker[w] EXCEPT !.at = "exited"]
    BY <1>4 DEF Fetch
  <2>3. next' = next + 1 /\ n' = n /\ works' = works
    BY <1>4 DEF Fetch
  <2>4. CASE i = next /\ next < n
    <3>1. Held(i)'
      BY <2>2, <2>4
    <3> QED
      BY <1>0, <2>3, <2>4, <3>1
  <2>5. CASE ~(i = next /\ next < n)
    <3>1. Held(i)' <=> Held(i)
      BY <2>1, <2>2, <2>5
    <3>2. (i < next' /\ i < n') <=> (i < next /\ i < n)
      BY <2>3, <2>5 DEF Items
    <3> QED
      BY <1>0, <2>3, <3>1, <3>2
  <2> QED
    BY <2>4, <2>5
<1>5. ASSUME NEW w \in Threads, NEW ok \in BOOLEAN, Work(w, ok)
      PROVE works'[i] = IF i < next' /\ i < n' /\ ~Held(i)' THEN 1 ELSE 0
  <2>1. /\ worker[w].at = "work" /\ worker'[w].at \in {"loop", "store"}
        /\ \A v \in Threads \ {w} : worker'[v] = worker[v]
    BY <1>5 DEF Work
  <2>2. worker[w].i \in Items /\ worker[w].i < next /\ worker[w].i < n
    BY <2>1 DEF HeldTaken, Items
  <2>3. next' = next /\ n' = n /\ works' = [works EXCEPT ![worker[w].i] = @ + 1]
    BY <1>5 DEF Work
  <2>4. CASE i = worker[w].i
    <3>1. Held(i) /\ ~Held(i)'
      BY <2>1, <2>4 DEF HeldOnce
    <3>2. works[i] = 0
      BY <1>0, <3>1
    <3> QED
      BY <2>2, <2>3, <2>4, <3>1, <3>2
  <2>5. CASE i # worker[w].i
    <3>1. Held(i)' <=> Held(i)
      BY <2>1, <2>5
    <3> QED
      BY <1>0, <2>3, <2>5, <3>1
  <2> QED
    BY <2>4, <2>5
<1>6. ASSUME NEW w \in Threads, Store(w)
      PROVE works'[i] = IF i < next' /\ i < n' /\ ~Held(i)' THEN 1 ELSE 0
  <2>1. Held(i)' <=> Held(i)
    BY <1>6 DEF Store
  <2> QED
    BY <1>0, <1>6, <2>1 DEF Store
<1>7. CASE Join
  BY <1>0, <1>7 DEF Join
<1>8. CASE UNCHANGED poolVars
  BY <1>0, <1>8 DEF poolVars
<1> QED
  BY <1>1, <1>2, <1>3, <1>4, <1>5, <1>6, <1>7, <1>8 DEF PoolNext, CallerStep, Step

\* The flag, and what the answer says of it.
LEMMA PoolStepFlag == PoolInv /\ [PoolNext]_poolVars => (FlagTells /\ Answered /\ IdleEmpty)'
<1> SUFFICES ASSUME PoolInv, [PoolNext]_poolVars PROVE (FlagTells /\ Answered /\ IdleEmpty)'
  OBVIOUS
<1> USE DEF PoolInv, PoolTypeOK, FlagTells, Answered, IdleEmpty, Storing
<1>0. ASSUME NEW w \in Threads, worker[w].at \notin {"asleep", "exited"}
      PROVE n > 0 /\ answer = "none"
  BY <1>0 DEF OnlyOurs, Threads, AllExited
<1>1. CASE NoItems
  BY <1>1 DEF NoItems
<1>2. CASE Call
  BY <1>2 DEF Call
<1>3. ASSUME NEW w \in Threads, Start(w) PROVE (FlagTells /\ Answered /\ IdleEmpty)'
  <2>2. Storing' <=> Storing
    BY <1>3 DEF Start
  <2>3. n > 0 /\ answer = "none"
    BY <1>3 DEF Start, AllExited, Threads
  <2> QED
    BY <1>3, <2>2, <2>3 DEF Start
<1>4. ASSUME NEW w \in Threads, Fetch(w) PROVE (FlagTells /\ Answered /\ IdleEmpty)'
  <2>1. Storing' <=> Storing
    BY <1>4 DEF Fetch
  <2>2. n > 0 /\ answer = "none"
    <3>1. worker[w].at = "loop"
      BY <1>4 DEF Fetch
    <3> QED
      BY <1>0, <3>1
  <2> QED
    BY <1>4, <2>1, <2>2 DEF Fetch
<1>5. ASSUME NEW w \in Threads, NEW ok \in BOOLEAN, Work(w, ok)
      PROVE (FlagTells /\ Answered /\ IdleEmpty)'
  <2>1. n > 0 /\ answer = "none"
    <3>1. worker[w].at = "work"
      BY <1>5 DEF Work
    <3> QED
      BY <1>0, <3>1
  <2>2. CASE ok \/ ~strict
    <3>1. Storing' <=> Storing
      BY <1>5, <2>2 DEF Work
    <3>2. strict => failed' = failed
      BY <1>5, <2>2 DEF Work
    <3> QED
      BY <1>5, <2>1, <3>1, <3>2 DEF Work
  <2>3. CASE ~ok /\ strict
    <3>1. Storing' /\ failed' # {}
      BY <1>5, <2>3 DEF Work
    <3> QED
      BY <1>5, <2>1, <2>3, <3>1 DEF Work
  <2> QED
    BY <2>2, <2>3
<1>6. ASSUME NEW w \in Threads, Store(w) PROVE (FlagTells /\ Answered /\ IdleEmpty)'
  <2>1. n > 0 /\ answer = "none"
    BY <1>0, <1>6 DEF Store
  <2>2. strict /\ failed # {}
    BY <1>6 DEF Store
  <2> QED
    BY <1>6, <2>1, <2>2 DEF Store
<1>7. CASE Join
  BY <1>7 DEF Join, AllExited
<1>8. CASE UNCHANGED poolVars
  BY <1>8 DEF poolVars, AllExited
<1> QED
  BY <1>1, <1>2, <1>3, <1>4, <1>5, <1>6, <1>7, <1>8 DEF PoolNext, CallerStep, Step

LEMMA PoolInvariant == PoolSpec => []PoolInv
<1>1. PoolInv /\ [PoolNext]_poolVars => PoolInv'
  BY PoolStepTypes, PoolStepOwners, PoolStepDone, PoolStepFlag DEF PoolInv
<1> QED
  BY PoolStarts, <1>1, PTL DEF PoolSpec

\* When the call has answered no thread holds an index any more.
LEMMA PoolInvAnswers == PoolInv => PoolAnswersAll
<1> SUFFICES ASSUME PoolInv, answer # "none"
             PROVE /\ \A i \in 0 .. n - 1 : works[i] = 1
                   /\ (answer = "all") <=> (strict => failed = {})
  BY DEF PoolAnswersAll
<1> USE DEF PoolInv, PoolTypeOK
<1>1. CASE n = 0
  BY <1>1 DEF Answered
<1>2. CASE n > 0
  <2>1. nThreads > 0 /\ AllExited
    BY <1>2 DEF Answered
  <2>2. \A w \in Threads : worker[w].at \in {"asleep", "exited"}
    BY <2>1 DEF AllExited, OnlyOurs, Threads
  <2>3. worker[0].at = "exited" /\ 0 \in Threads
    BY <2>1 DEF AllExited, Threads
  <2>4. n <= next
    BY <2>3 DEF LeaveLate
  <2>5. ASSUME NEW i \in 0 .. n - 1 PROVE works[i] = 1
    <3>1. ~Held(i)
      BY <2>2 DEF Held, Working
    <3> QED
      BY <2>4, <3>1 DEF DoneOnce, Items
  <2>6. (answer = "all") <=> allOk
    BY <1>2 DEF Answered
  <2>7. ~Storing
    BY <2>2 DEF Storing
  <2> QED
    BY <2>5, <2>6, <2>7 DEF FlagTells
<1> QED
  BY <1>1, <1>2

(* Whatever the decode of a batch does, its pool is the pool: every step of *)
(* a batch is one of parallel_for_all, or none.                             *)
THEOREM BatchUsesPool == Spec => PoolSpec
<1>1. Init => PoolInit
  BY DEF Init
<1>2. [Next]_vars => [PoolNext]_poolVars
  BY DEF Next, DecodeNext, vars, PoolEnds, NothingToDecode, FeedPrompt, Generate, Capture, Encode,
     Load, GivesUp
<1> QED
  BY <1>1, <1>2, PTL DEF Spec, PoolSpec

(* Every utterance's features are computed exactly once before a batch goes *)
(* on, for any number of utterances and threads, and the answer is whether  *)
(* all calls of work answered TRUE.                                         *)
THEOREM FeaturesOnce == Spec => []PoolAnswersAll
  BY BatchUsesPool, PoolInvariant, PoolInvAnswers, PTL

HIDE PoolAssumption

-----------------------------------------------------------------------------
(* Numbers: loops that double or halve *)

\* A set of numbers has a least one.
LEMMA LeastExists ==
  ASSUME NEW S \in SUBSET Nat, S # {}
  PROVE  /\ Least(S) \in S
         /\ \A k \in S : Least(S) <= k
<1> DEFINE R == OpToRel(<, Nat)
<1>1. IsWellFoundedOn(R, Nat)
  BY NatLessThanWellFounded
<1>2. ASSUME NEW x \in Nat, NEW y \in Nat, y < x  PROVE <<y, x>> \in R
  BY <1>2 DEF OpToRel
<1> HIDE DEF R
<1>3. PICK m \in S : \A y \in S : ~ (<<y, m>> \in R)
  BY <1>1, WFMin
<1>4. ASSUME NEW k \in S  PROVE m <= k
  <2>1. k \in Nat /\ m \in Nat
    OBVIOUS
  <2>2. ~ (k < m)
    BY <1>2, <1>3, <2>1
  <2> QED  BY <2>1, <2>2
<1>5. \E k \in S : \A j \in S : k <= j
  BY <1>4
<1> QED  BY <1>5 DEF Least

\* Induction: a set of numbers that holds 0 and with each the next holds all.
LEMMA AllNumbers ==
  ASSUME NEW S \in SUBSET Nat, 0 \in S, \A k \in S : k + 1 \in S
  PROVE  S = Nat
<1> SUFFICES ASSUME Nat \ S # {}  PROVE FALSE
  OBVIOUS
<1> DEFINE m == Least(Nat \ S)
<1>1. m \in Nat \ S /\ \A k \in Nat \ S : m <= k
  BY LeastExists
<1> HIDE DEF m
<1>2. m # 0 /\ m - 1 \in Nat /\ ~ (m <= m - 1)
  BY <1>1
<1>3. (m - 1) + 1 \in S
  BY <1>1, <1>2
<1> QED  BY <1>1, <1>2, <1>3

\* f begins with a and goes on by s.
Iterates(f, A, a, s) == /\ f \in [Nat -> A] /\ f[0] = a
                        /\ \A k \in Nat : f[k + 1] = s[f[k]]

\* There is such a function.
LEMMA IteratesExist ==
  ASSUME NEW A, NEW a \in A, NEW s \in [A -> A]
  PROVE  \E f : Iterates(f, A, a, s)
<1> DEFINE
      upTo(m, f) == /\ f \in [0 .. m -> A] /\ f[0] = a
                    /\ \A k \in 0 .. m - 1 : f[k + 1] = s[f[k]]
      S == {m \in Nat : \E f : upTo(m, f)}
<1>1. S = Nat
  <2>1. 0 \in S
    <3>1. upTo(0, [k \in 0 .. 0 |-> a])
      OBVIOUS
    <3> QED  BY <3>1
  <2>2. ASSUME NEW m \in S  PROVE m + 1 \in S
    <3>1. PICK f : upTo(m, f)
      OBVIOUS
    <3> DEFINE g == [k \in 0 .. m + 1 |-> IF k = m + 1 THEN s[f[m]] ELSE f[k]]
    <3>2. upTo(m + 1, g)
      <4>1. m \in Nat /\ (m + 1) - 1 = m
        OBVIOUS
      <4>2. f[m] \in A
        BY <3>1, <4>1
      <4>3. g \in [0 .. m + 1 -> A] /\ g[0] = a
        BY <3>1, <4>1, <4>2
      <4>4. ASSUME NEW k \in 0 .. m  PROVE g[k + 1] = s[g[k]]
        <5>1. CASE k = m
          BY <5>1, <4>1
        <5>2. CASE k # m
          <6>1. k \in 0 .. m - 1
            BY <5>2, <4>1
          <6> QED  BY <6>1, <3>1, <4>1
        <5> QED  BY <5>1, <5>2
      <4> HIDE DEF g
      <4> QED  BY <4>1, <4>3, <4>4
    <3> HIDE DEF upTo, g
    <3> QED  BY <3>2
  <2> HIDE DEF S
  <2>3. S \in SUBSET Nat
    BY DEF S
  <2> QED  BY <2>1, <2>2, <2>3, AllNumbers
\* Two beginnings agree as far as both go.
<1>2. ASSUME NEW i \in Nat, NEW f, NEW j \in Nat, NEW g, upTo(i, f), upTo(j, g), i <= j
      PROVE  \A k \in 0 .. i : f[k] = g[k]
  <2> DEFINE T == {k \in Nat : k <= i => f[k] = g[k]}
  <2>1. 0 \in T
    BY <1>2
  <2>2. ASSUME NEW k \in T  PROVE k + 1 \in T
    <3> SUFFICES ASSUME k + 1 <= i  PROVE f[k + 1] = g[k + 1]
      OBVIOUS
    <3>1. k \in 0 .. i - 1 /\ k \in 0 .. j - 1
      BY <1>2
    <3>2. f[k] = g[k]
      BY <3>1
    <3> QED  BY <3>1, <3>2, <1>2
  <2> HIDE DEF T
  <2>3. T \in SUBSET Nat
    BY DEF T
  <2>4. T = Nat
    BY <2>1, <2>2, <2>3, AllNumbers
  <2> QED  BY <2>4 DEF T
<1> DEFINE h == [m \in Nat |-> CHOOSE f : upTo(m, f)]
           c == [m \in Nat |-> h[m][m]]
<1>3. ASSUME NEW m \in Nat  PROVE upTo(m, h[m])
  <2>1. \E f : upTo(m, f)
    BY <1>1
  <2> HIDE DEF upTo
  <2> QED  BY <2>1
<1> HIDE DEF h, S
<1>4. c \in [Nat -> A]
  <2> SUFFICES ASSUME NEW m \in Nat  PROVE h[m][m] \in A
    OBVIOUS
  <2>1. m \in 0 .. m
    OBVIOUS
  <2> QED  BY <1>3, <2>1
<1>5. c[0] = a
  BY <1>3
<1>6. ASSUME NEW k \in Nat  PROVE c[k + 1] = s[c[k]]
  <2>1. upTo(k, h[k]) /\ upTo(k + 1, h[k + 1])
    BY <1>3
  <2>2. h[k][k] = h[k + 1][k]
    <3> HIDE DEF upTo
    <3> QED  BY <1>2, <2>1
  <2>3. k \in 0 .. (k + 1) - 1
    OBVIOUS
  <2>4. h[k + 1][k + 1] = s[h[k + 1][k]]
    BY <2>1, <2>3
  <2> QED  BY <2>2, <2>4
<1> QED  BY <1>4, <1>5, <1>6 DEF Iterates

\* What the loops compute, round by round.
LEMMA TwiceIs ==
  ASSUME NEW x \in Nat
  PROVE  /\ Twice(x)[0] = x
         /\ \A k \in Nat : Twice(x)[k + 1] = 2 * Twice(x)[k]
<1> DEFINE Body(d) == [k \in Nat |-> IF k = 0 THEN x ELSE 2 * d[k - 1]]
<1>1. Twice(x) = CHOOSE d : d = Body(d)
  BY DEF Twice
<1>2. \E d : d = Body(d)
  <2> DEFINE s == [y \in Nat |-> 2 * y]
  <2>1. s \in [Nat -> Nat]
    OBVIOUS
  <2>2. \E f : Iterates(f, Nat, x, s)
    <3> HIDE DEF s
    <3> QED  BY <2>1, IteratesExist
  <2>5. PICK f : /\ f \in [Nat -> Nat] /\ f[0] = x
                 /\ \A k \in Nat : f[k + 1] = s[f[k]]
    <3> HIDE DEF s
    <3> QED  BY <2>2 DEF Iterates
  <2>3. ASSUME NEW k \in Nat  PROVE f[k] = IF k = 0 THEN x ELSE 2 * f[k - 1]
    <3>1. CASE k = 0
      BY <3>1, <2>5
    <3>2. CASE k # 0
      <4>1. k - 1 \in Nat /\ (k - 1) + 1 = k
        BY <3>2
      <4>2. f[(k - 1) + 1] = s[f[k - 1]] /\ f[k - 1] \in Nat
        BY <4>1, <2>5
      <4> QED  BY <3>2, <4>1, <4>2
    <3> QED  BY <3>1, <3>2
  <2>4. f = Body(f)
    BY <2>5, <2>3
  <2> QED  BY <2>4
<1>3. Twice(x) = Body(Twice(x))
  <2> HIDE DEF Body
  <2> QED  BY <1>1, <1>2
<1>4. ASSUME NEW k \in Nat  PROVE Twice(x)[k] = IF k = 0 THEN x ELSE 2 * Twice(x)[k - 1]
  BY <1>3
<1>5. ASSUME NEW k \in Nat  PROVE k + 1 # 0 /\ (k + 1) - 1 = k /\ k + 1 \in Nat
  OBVIOUS
<1> HIDE DEF Body
<1>6. ASSUME NEW k \in Nat  PROVE Twice(x)[k + 1] = 2 * Twice(x)[k]
  BY <1>4, <1>5
<1> QED  BY <1>4, <1>6

LEMMA HalfIs ==
  ASSUME NEW x \in Nat
  PROVE  /\ Half(x)[0] = x
         /\ \A k \in Nat : Half(x)[k + 1] = Half(x)[k] \div 2
<1> DEFINE Body(d) == [k \in Nat |-> IF k = 0 THEN x ELSE d[k - 1] \div 2]
<1>1. Half(x) = CHOOSE d : d = Body(d)
  BY DEF Half
<1>2. \E d : d = Body(d)
  <2> DEFINE s == [y \in Nat |-> y \div 2]
  <2>1. s \in [Nat -> Nat]
    OBVIOUS
  <2>2. \E f : Iterates(f, Nat, x, s)
    <3> HIDE DEF s
    <3> QED  BY <2>1, IteratesExist
  <2>3. PICK f : /\ f \in [Nat -> Nat] /\ f[0] = x
                 /\ \A k \in Nat : f[k + 1] = s[f[k]]
    <3> HIDE DEF s
    <3> QED  BY <2>2 DEF Iterates
  <2>4. ASSUME NEW k \in Nat  PROVE f[k] = IF k = 0 THEN x ELSE f[k - 1] \div 2
    <3>1. CASE k = 0
      BY <3>1, <2>3
    <3>2. CASE k # 0
      <4>1. k - 1 \in Nat /\ (k - 1) + 1 = k
        BY <3>2
      <4>2. f[(k - 1) + 1] = s[f[k - 1]] /\ f[k - 1] \in Nat
        BY <4>1, <2>3
      <4> QED  BY <3>2, <4>1, <4>2
    <3> QED  BY <3>1, <3>2
  <2>5. f = Body(f)
    BY <2>3, <2>4
  <2> QED  BY <2>5
<1>3. Half(x) = Body(Half(x))
  <2> HIDE DEF Body
  <2> QED  BY <1>1, <1>2
<1>4. ASSUME NEW k \in Nat  PROVE Half(x)[k] = IF k = 0 THEN x ELSE Half(x)[k - 1] \div 2
  BY <1>3
<1>5. ASSUME NEW k \in Nat  PROVE k + 1 # 0 /\ (k + 1) - 1 = k /\ k + 1 \in Nat
  OBVIOUS
<1> HIDE DEF Body
<1>6. ASSUME NEW k \in Nat  PROVE Half(x)[k + 1] = Half(x)[k] \div 2
  BY <1>4, <1>5
<1> QED  BY <1>4, <1>6

\* A loop that doubles ends, at what it was asked for or above.
LEMMA DoubledReaches ==
  ASSUME NEW x \in Nat \ {0}, NEW y \in Nat
  PROVE  Doubled(x, y) \in Nat /\ Doubled(x, y) >= y
<1> DEFINE t == Twice(x)
           S == {k \in Nat : t[k] \in Nat /\ t[k] > k}
           reach == {k \in 0 .. y : t[k] >= y}
<1>1. t[0] = x /\ \A k \in Nat : t[k + 1] = 2 * t[k]
  BY TwiceIs
<1> HIDE DEF t
<1>2. 0 \in S
  BY <1>1
<1>3. ASSUME NEW k \in S  PROVE k + 1 \in S
  <2>1. k \in Nat /\ t[k] \in Nat /\ t[k] > k /\ t[k + 1] = 2 * t[k]
    BY <1>1
  <2> QED  BY <2>1
<1>4. S = Nat
  <2> HIDE DEF S
  <2>1. S \in SUBSET Nat
    BY DEF S
  <2> QED  BY <1>2, <1>3, <2>1, AllNumbers
<1>5. \A k \in Nat : t[k] \in Nat /\ t[k] > k
  BY <1>4
<1>6. y \in reach /\ reach \in SUBSET Nat
  BY <1>5
<1>7. Least(reach) \in reach
  <2> HIDE DEF reach
  <2> QED  BY <1>6, LeastExists
<1>8. Doubled(x, y) = t[Least(reach)]
  BY DEF Doubled, t
<1> QED  BY <1>5, <1>7, <1>8

\* A loop that halves ends before it reaches 0.
LEMMA HalvedFits ==
  ASSUME NEW m \in Nat \ {0}
  PROVE  Half(FirstWindow)[Least({k \in 0 .. FirstWindow : Half(FirstWindow)[k] <= m})]
           \in 1 .. m
<1> DEFINE w == FirstWindow
           t == Half(w)
           S == {k \in Nat : t[k] \in Nat /\ (t[k] = 0 \/ t[k] + k <= w)}
           fits == {k \in 0 .. w : t[k] <= m}
<1>0. w \in Nat \ {0}
  BY DecodeAssumption
<1> HIDE DEF w
<1>1. t[0] = w /\ \A k \in Nat : t[k + 1] = t[k] \div 2
  BY <1>0, HalfIs
<1> HIDE DEF t
<1>2. 0 \in S
  BY <1>0, <1>1
<1>3. ASSUME NEW k \in S  PROVE k + 1 \in S
  <2>1. k \in Nat /\ t[k] \in Nat /\ (t[k] = 0 \/ t[k] + k <= w) /\ t[k + 1] = t[k] \div 2
    BY <1>1
  <2> QED  BY <2>1, <1>0
<1>4. S = Nat
  <2> HIDE DEF S
  <2>1. S \in SUBSET Nat
    BY DEF S
  <2> QED  BY <1>2, <1>3, <2>1, AllNumbers
<1>5. \A k \in Nat : t[k] \in Nat /\ (t[k] = 0 \/ t[k] + k <= w)
  BY <1>4
<1>6. w \in fits /\ fits \in SUBSET Nat
  BY <1>0, <1>5
<1> DEFINE k == Least(fits)
<1>7. k \in fits /\ \A j \in fits : k <= j
  <2> HIDE DEF fits
  <2> QED  BY <1>6, LeastExists
<1>8. Half(FirstWindow)[Least({j \in 0 .. FirstWindow : Half(FirstWindow)[j] <= m})] = t[k]
  BY DEF t, w
<1> HIDE DEF k
<1>9. t[k] # 0
  <2>1. CASE k = 0
    BY <2>1, <1>0, <1>1
  <2>2. CASE k # 0
    <3>1. k - 1 \in Nat /\ (k - 1) + 1 = k /\ k - 1 \in 0 .. w
      BY <1>0, <1>7, <2>2
    <3>2. ~ (t[k - 1] <= m)
      BY <1>0, <1>7, <3>1
    <3>3. t[k] = t[k - 1] \div 2 /\ t[k - 1] \in Nat
      BY <1>1, <1>5, <3>1
    <3> QED  BY <3>2, <3>3
  <2> QED  BY <2>1, <2>2
<1> QED  BY <1>5, <1>7, <1>8, <1>9

-----------------------------------------------------------------------------
(* The decode: an inductive invariant *)

\* What row b knows after it wrote pos tokens and read `produced' answers: the
\* same as if it were alone.
RowAsAlone(b) ==
    /\ \A p \in 0 .. pos - 1 :
         cache[b][p + 1] = IF p < promptLen THEN PromptTok(p)
                                            ELSE Answer(b, p - promptLen + 1)
    /\ b \in finished <=> pos >= promptLen /\ ends[b] <= produced
    /\ pos >= promptLen /\ b \notin finished => nextTok[b] = Answer(b, produced)
    /\ Len(generated[b]) = Smaller(ends[b] - 1, produced)
    /\ \A k \in 1 .. Len(generated[b]) : generated[b][k] = k

\* All rows are in step, and what a row sees is its past.
Lockstep ==
    /\ nCtx \in Contexts /\ promptLen \in PromptLens
    /\ kvWindow \in 1 .. MaxKv /\ pos <= kvWindow /\ mask = 0 .. pos - 1
    /\ produced = IF pos < promptLen THEN 0 ELSE pos - promptLen + 1
    /\ Rows \ valid \subseteq finished
    /\ \A b \in Rows : Len(cache[b]) = pos
    /\ \A b \in valid : RowAsAlone(b)

\* The loop has not begun.
NotBegun ==
    /\ pos = 0 /\ produced = 0 /\ mask = {} /\ finished = {}
    /\ cache = [i \in Items |-> <<>>] /\ generated = [i \in Items |-> <<>>]

\* Rows that are left out have their reason.
Refused ==
    /\ valid \cap failed = {}
    /\ \A b \in Items : reject[b] \in {"invalid", "too_long"}
    /\ \A b \in failed : reject[b] = "invalid"

DecodeInv ==
    /\ BatchTypeOK
    /\ phase = "pool" => row = 0 /\ \A b \in Items : reject[b] = "invalid"
    /\ phase # "pool" => n > 0 /\ answer # "none" /\ Refused
    /\ phase \in {"pool", "encode"} => NotBegun
    /\ phase = "decode" => Lockstep
    /\ phase = "returned" <=> status # "none"
    /\ BatchAsSingle

-----------------------------------------------------------------------------
(* What the steps of the loop do *)

\* The cache holds the prompt, and the whole budget or the whole context.
LEMMA KvHoldsFor ==
  ASSUME NEW c \in Contexts, NEW p \in PromptLens,
         NEW kv, kv = Smaller(Doubled(KvFloor, p + MaxNew), c)
  PROVE  /\ kv \in Nat \ {0} /\ p <= kv /\ kv <= c
         /\ kv = c \/ p + MaxNew <= kv
         /\ c \in Nat \ {0} /\ p \in Nat \ {0}
<1>1. /\ c \in Nat \ {0} /\ p \in Nat \ {0} /\ p <= c
      /\ MaxNew \in Nat \ {0} /\ KvFloor \in Nat \ {0}
  BY DecodeAssumption
<1> DEFINE d == Doubled(KvFloor, p + MaxNew)
<1>2. p + MaxNew \in Nat
  BY <1>1
<1>3. d \in Nat /\ d >= p + MaxNew
  BY <1>1, <1>2, DoubledReaches
<1>4. kv = Smaller(d, c)
  OBVIOUS
<1> HIDE DEF d
<1> QED  BY <1>1, <1>3, <1>4 DEF Smaller

\* The same of the cache of this call.
LEMMA KvHolds ==
  ASSUME nCtx \in Contexts, promptLen \in PromptLens
  PROVE  /\ MaxKv \in Nat \ {0} /\ promptLen <= MaxKv /\ MaxKv <= nCtx
         /\ MaxKv = nCtx \/ promptLen + MaxNew <= MaxKv
         /\ nCtx \in Nat \ {0} /\ promptLen \in Nat \ {0}
<1>1. MaxKv = Smaller(Doubled(KvFloor, promptLen + MaxNew), nCtx)
  BY DEF MaxKv
<1> QED  BY <1>1, KvHoldsFor

\* ensure_window: the position fits, and the mask is still the past.
LEMMA WindowHolds ==
  ASSUME MaxKv \in Nat \ {0}, kvWindow \in 1 .. MaxKv, pos \in Nat, pos + 1 <= MaxKv,
         mask = 0 .. pos - 1
  PROVE  /\ WindowFor(pos) \in 1 .. MaxKv /\ pos + 1 <= WindowFor(pos)
         /\ Refilled(pos) \cup {pos} = 0 .. pos
<1> DEFINE need == Smaller(pos + 1, MaxKv)
           d == Doubled(kvWindow, need)
<1>1. need = pos + 1
  BY DEF Smaller
<1>2. kvWindow \in Nat \ {0} /\ pos + 1 \in Nat
  OBVIOUS
<1>3. d \in Nat /\ d >= pos + 1
  BY <1>1, <1>2, DoubledReaches
<1>4. WindowFor(pos) = IF pos + 1 <= kvWindow THEN kvWindow ELSE Smaller(d, MaxKv)
  BY DEF WindowFor
<1> HIDE DEF d, need
<1>5. Refilled(pos) = 0 .. pos - 1
  BY DEF Refilled
<1>6. (0 .. pos - 1) \cup {pos} = 0 .. pos
  OBVIOUS
<1> QED  BY <1>3, <1>4, <1>5, <1>6 DEF Smaller

\* A row that sees its prompt and its own answers so far gives the next one.
LEMMA HeardIsNext ==
  ASSUME NEW b, NEW c \in Seq(Int), Len(c) >= promptLen, promptLen \in Nat,
         Len(c) - promptLen < ends[b],
         \A p \in 0 .. Len(c) - 1 :
           c[p + 1] = IF p < promptLen THEN PromptTok(p) ELSE Answer(b, p - promptLen + 1)
  PROVE  Heard(b, c, 0 .. Len(c) - 1) = Answer(b, Len(c) - promptLen + 1)
BY DEF Heard

\* An answer is <eos> from the end of the row on.
LEMMA AnswerType ==
  ASSUME NEW e \in 1 .. MaxNew + 2, NEW k \in Nat \ {0}, NEW b, ends[b] = e
  PROVE  /\ Answer(b, k) \in 0 .. MaxNew + 2
         /\ Answer(b, k) = Eos <=> e <= k
<1>1. MaxNew \in Nat
  BY DecodeAssumption
<1> QED  BY <1>1 DEF Answer, Eos

-----------------------------------------------------------------------------
(* The batch up to the loop *)

\* Rows are items, and their number is.
LEMMA RowsAreItems ==
  ASSUME PoolTypeOK
  PROVE  n \in Nat /\ n <= MaxItems /\ Rows \subseteq Items
BY PoolAssumption DEF PoolTypeOK, Rows, Items

\* The invariant holds before the call ...
LEMMA DecodeStarts == Init => DecodeInv
<1> SUFFICES ASSUME Init  PROVE DecodeInv
  OBVIOUS
<1>1. PoolTypeOK
  BY PoolStarts DEF Init, PoolInv
<1>2. n \in Nat /\ Rows \subseteq Items
  BY <1>1, RowsAreItems
<1> USE DEF Init, DecodeInit
<1>3. BatchTypeOK
  <2>1. /\ reject \in [Items -> Statuses] /\ ends \in [Items -> 1 .. MaxNew + 2]
        /\ cache \in [Items -> Seq(Int)] /\ nextTok \in [Items -> Tokens]
        /\ generated \in [Items -> Seq(Tokens \ {Eos})]
    BY DecodeAssumption DEF Statuses, Tokens, Eos
  <2>2. row \in 0 .. n /\ pos \in Nat /\ kvWindow \in Nat /\ produced \in 0 .. MaxNew
    BY <1>2, DecodeAssumption
  <2>3. entries \in Seq([status : Statuses, text : Seq(Tokens)])
    OBVIOUS
  <2>4. valid \subseteq Rows /\ finished \subseteq Rows /\ mask \subseteq Nat
    OBVIOUS
  <2> QED  BY <1>1, <2>1, <2>2, <2>3, <2>4 DEF BatchTypeOK
<1> QED  BY <1>3 DEF DecodeInv, NotBegun, BatchAsSingle

\* When the pool has answered, it does nothing more.
LEMMA PoolOver ==
  ASSUME PoolInv, n > 0, answer # "none"
  PROVE  ~ PoolNext
<1>1. nThreads > 0 /\ \A w \in 0 .. nThreads - 1 : worker[w].at = "exited"
  BY DEF PoolInv, Answered, AllExited
<1>2. \A w \in Threads : worker[w].at \in {"asleep", "exited"}
  BY <1>1 DEF PoolInv, OnlyOurs, PoolTypeOK, Threads
<1>3. \A w \in Threads : ~ Start(w)
  BY <1>1 DEF Start, Threads, PoolInv, PoolTypeOK
<1>4. \A w \in Threads : ~ Step(w)
  BY <1>2 DEF Step, Fetch, Work, Store
<1>5. ~ NoItems /\ ~ Call /\ ~ Join
  BY <1>1 DEF NoItems, Call, Join, PoolInv, PoolTypeOK
<1> QED  BY <1>3, <1>4, <1>5 DEF PoolNext, CallerStep

\* The pool does not touch the decode.
LEMMA PoolKeeps ==
  ASSUME DecodeInv, PoolInv, PoolNext, UNCHANGED decodeVars, PoolTypeOK'
  PROVE  DecodeInv'
<1> USE DEF decodeVars, callVars, loopVars
<1>1. phase = "pool"
  <2>1. phase # "pool" => n > 0 /\ answer # "none"
    BY DEF DecodeInv
  <2> QED  BY <2>1, PoolOver
<1>2. n' = n
  BY DEF PoolNext, CallerStep, NoItems, Call, Join, Start, Step, Fetch, Work, Store
<1>3. BatchTypeOK'
  BY <1>2 DEF DecodeInv, BatchTypeOK, Rows
<1>4. status = "none"
  BY <1>1 DEF DecodeInv, BatchTypeOK
<1> QED  BY <1>1, <1>2, <1>3, <1>4 DEF DecodeInv, BatchAsSingle, NotBegun

\* Rows whose features failed are left out.
LEMMA PoolEndsKeeps ==
  ASSUME DecodeInv, PoolEnds
  PROVE  DecodeInv'
<1>1. /\ phase = "pool" /\ phase' = "encode" /\ valid' = Rows \ failed /\ n > 0
      /\ answer # "none"
      /\ UNCHANGED <<poolVars, row, reject, callVars, loopVars, entries, status>>
  BY DEF PoolEnds
<1>2. status = "none" /\ NotBegun /\ \A b \in Items : reject[b] = "invalid"
  BY <1>1 DEF DecodeInv, BatchTypeOK
<1>3. BatchTypeOK'
  BY <1>1 DEF DecodeInv, BatchTypeOK, Rows, PoolTypeOK, poolVars, callVars, loopVars
<1>4. Refused'
  <2>1. failed \subseteq Items
    BY DEF DecodeInv, BatchTypeOK, PoolTypeOK
  <2> QED  BY <1>1, <1>2, <2>1 DEF Refused, poolVars
<1>5. NotBegun'
  BY <1>1, <1>2 DEF NotBegun, loopVars
<1>6. BatchAsSingle'
  BY <1>1, <1>2 DEF BatchAsSingle
<1> QED  BY <1>1, <1>2, <1>3, <1>4, <1>5, <1>6 DEF DecodeInv, poolVars

\* A row that the encoder refuses is left out with its reason.
LEMMA EncodeKeeps ==
  ASSUME DecodeInv, NEW fate \in {"fits", "too_long", "fails"}, Encode(fate)
  PROVE  DecodeInv'
<1>1. /\ phase = "encode" /\ row < n /\ row' = row + 1
      /\ UNCHANGED <<poolVars, phase, callVars, loopVars, entries, status>>
  BY DEF Encode
<1>2. /\ status = "none" /\ NotBegun /\ Refused /\ n > 0 /\ answer # "none"
      /\ BatchTypeOK /\ PoolTypeOK
  BY <1>1 DEF DecodeInv, BatchTypeOK
<1>3. n \in Nat /\ Rows \subseteq Items
  BY <1>2, RowsAreItems
<1>4. \/ valid' = valid /\ reject' = reject
      \/ /\ row \in valid /\ valid' = valid \ {row}
         /\ \/ reject' = reject
            \/ reject' = [reject EXCEPT ![row] = "too_long"]
  <2>1. CASE fate = "too_long"
    BY <2>1 DEF Encode
  <2>2. CASE fate # "too_long"
    <3>1. reject' = [reject EXCEPT ![row] = @] \/ reject' = reject
      BY <2>2 DEF Encode
    <3>2. [reject EXCEPT ![row] = @] = reject
      BY <1>2 DEF BatchTypeOK
    <3> QED  BY <2>2, <3>1, <3>2 DEF Encode
  <2> QED  BY <2>1, <2>2
<1>5. BatchTypeOK'
  <2>1. row' \in 0 .. n'
    BY <1>1, <1>2, <1>3 DEF BatchTypeOK, poolVars
  <2>2. valid' \subseteq Rows'
    BY <1>1, <1>2, <1>4 DEF BatchTypeOK, poolVars, Rows
  <2>3. reject' \in [Items -> Statuses]
    BY <1>2, <1>4 DEF BatchTypeOK, Statuses
  <2> QED  BY <1>1, <1>2, <2>1, <2>2, <2>3
           DEF BatchTypeOK, Rows, PoolTypeOK, poolVars, callVars, loopVars
<1>6. Refused'
  <2>1. reject \in [Items -> Statuses] /\ failed \subseteq Items /\ failed' = failed
    BY <1>1, <1>2 DEF BatchTypeOK, PoolTypeOK, poolVars
  <2> QED  BY <1>2, <1>4, <2>1 DEF Refused
<1>7. NotBegun'
  BY <1>1, <1>2 DEF NotBegun, loopVars
<1>8. BatchAsSingle'
  BY <1>1, <1>2 DEF BatchAsSingle
<1> QED  BY <1>1, <1>2, <1>5, <1>6, <1>7, <1>8 DEF DecodeInv, poolVars

\* The loop begins with an empty past.
LEMMA LoadKeeps ==
  ASSUME DecodeInv, NEW c \in Contexts, NEW p \in PromptLens,
         NEW e \in [valid -> 1 .. MaxNew + 2],
         Load(c, p, [i \in Items |-> IF i \in valid THEN e[i] ELSE 1])
  PROVE  DecodeInv'
<1>1. /\ phase = "encode" /\ nCtx' = c /\ promptLen' = p /\ phase' = "decode"
      /\ ends' = [i \in Items |-> IF i \in valid THEN e[i] ELSE 1]
      /\ finished' = Rows \ valid /\ kvWindow' = InitWindow'
      /\ UNCHANGED <<poolVars, row, valid, reject, pos, produced, mask, cache,
                     nextTok, generated, entries, status>>
  BY DEF Load
<1>2. /\ status = "none" /\ NotBegun /\ Refused /\ n > 0 /\ answer # "none"
      /\ BatchTypeOK /\ PoolTypeOK
  BY <1>1 DEF DecodeInv, BatchTypeOK
<1>3. n \in Nat /\ Rows \subseteq Items /\ valid \subseteq Items /\ MaxNew \in Nat \ {0}
  BY <1>2, RowsAreItems, DecodeAssumption DEF BatchTypeOK
<1>4. ends' \in [Items -> 1 .. MaxNew + 2]
  BY <1>1, <1>3
<1>5. MaxKv' \in Nat \ {0} /\ promptLen' \in Nat \ {0}
  <2>1. MaxKv' = Smaller(Doubled(KvFloor, p + MaxNew), c)
    BY <1>1 DEF MaxKv
  <2> QED  BY <1>1, <2>1, KvHoldsFor
<1>6. InitWindow' \in 1 .. MaxKv'
  <2> DEFINE m == MaxKv'
  <2>1. InitWindow' =
          Half(FirstWindow)[Least({k \in 0 .. FirstWindow : Half(FirstWindow)[k] <= m})]
    BY DEF InitWindow
  <2> HIDE DEF m
  <2>2. m \in Nat \ {0}
    BY <1>5 DEF m
  <2>3. InitWindow' \in 1 .. m
    BY <2>1, <2>2, HalvedFits
  <2> QED  BY <2>3 DEF m
<1>7. BatchTypeOK'
  <2>1. kvWindow' \in Nat
    BY <1>1, <1>5, <1>6
  <2> QED  BY <1>1, <1>2, <1>4, <2>1 DEF BatchTypeOK, Rows, PoolTypeOK, poolVars
<1>8. Lockstep'
  <2>1. /\ pos' = 0 /\ produced' = 0 /\ mask' = {}
        /\ cache' = [i \in Items |-> <<>>] /\ generated' = [i \in Items |-> <<>>]
    BY <1>1, <1>2 DEF NotBegun
  <2>2. (\A b \in Rows : Len(cache[b]) = pos)'
    BY <1>1, <1>3, <2>1 DEF Rows, poolVars
  <2>3. (Rows \ valid \subseteq finished)'
    BY <1>1 DEF Rows, poolVars
  <2>4. ASSUME NEW b \in valid'  PROVE RowAsAlone(b)'
    <3>1. b \in Items /\ b \notin finished' /\ generated'[b] = <<>>
      BY <1>1, <1>3, <2>1, <2>4
    <3>2. ends'[b] - 1 \in Nat
      BY <1>4, <3>1, <1>3
    <3>3. Len(<<>>) = 0 /\ Smaller(ends'[b] - 1, 0) = 0
      BY <3>2 DEF Smaller
    <3> QED  BY <1>5, <2>1, <3>1, <3>3 DEF RowAsAlone
  <2> QED  BY <1>1, <1>5, <1>6, <2>1, <2>2, <2>3, <2>4 DEF Lockstep
<1>9. BatchAsSingle'
  BY <1>1, <1>2 DEF BatchAsSingle
<1> QED  BY <1>1, <1>2, <1>7, <1>8, <1>9 DEF DecodeInv, poolVars, Refused

-----------------------------------------------------------------------------
(* The loop *)

\* What a row writes at the position.
Due(b) == IF pos < promptLen THEN PromptTok(pos) ELSE Answer(b, pos - promptLen + 1)

\* The decode is under way, and what its numbers are.
LEMMA InDecode ==
  ASSUME DecodeInv, phase = "decode"
  PROVE  /\ BatchTypeOK /\ PoolTypeOK /\ Lockstep /\ Refused /\ status = "none"
         /\ n \in Nat \ {0} /\ answer # "none" /\ Rows \subseteq Items /\ valid \subseteq Rows
         /\ pos \in Nat /\ produced \in 0 .. MaxNew /\ promptLen \in Nat \ {0}
         /\ MaxNew \in Nat \ {0}
<1>1. BatchTypeOK /\ PoolTypeOK /\ Lockstep /\ Refused /\ n > 0 /\ answer # "none"
  BY DEF DecodeInv, BatchTypeOK
<1>2. status = "none"
  BY DEF DecodeInv, BatchTypeOK
<1>3. n \in Nat /\ Rows \subseteq Items
  BY <1>1, RowsAreItems
<1>4. promptLen \in Nat \ {0}
  BY <1>1, KvHolds DEF Lockstep
<1> QED  BY <1>1, <1>2, <1>3, <1>4, DecodeAssumption DEF BatchTypeOK

\* A step writes one token to the cache of each row, and lets it be seen.
LEMMA StepWrites ==
  ASSUME DecodeInv, phase = "decode", pos + 1 <= MaxKv,
         NEW tok \in [Items -> Int], Step1(tok), \A b \in valid : tok[b] = Due(b),
         UNCHANGED <<poolVars, callVars, valid>>
  PROVE  /\ kvWindow' \in 1 .. MaxKv' /\ pos' <= kvWindow' /\ pos' = pos + 1
         /\ mask' = 0 .. pos' - 1
         /\ cache' \in [Items -> Seq(Int)]
         /\ \A b \in Rows : Len(cache'[b]) = pos'
         /\ \A b \in valid : \A p \in 0 .. pos' - 1 :
              cache'[b][p + 1] = IF p < promptLen THEN PromptTok(p)
                                                  ELSE Answer(b, p - promptLen + 1)
<1>1. /\ kvWindow' = WindowFor(pos) /\ mask' = Refilled(pos) \cup {pos} /\ pos' = pos + 1
      /\ cache' = [b \in Items |-> IF b \in Rows THEN Append(cache[b], tok[b]) ELSE cache[b]]
  BY DEF Step1
<1>2. /\ pos \in Nat /\ Lockstep /\ BatchTypeOK /\ Rows \subseteq Items /\ valid \subseteq Rows
      /\ promptLen \in Nat
  BY InDecode
<1>3. MaxKv \in Nat \ {0} /\ kvWindow \in 1 .. MaxKv /\ mask = 0 .. pos - 1
  BY <1>2, KvHolds DEF Lockstep
<1>4. MaxKv' = MaxKv
  BY DEF MaxKv, callVars
<1>5. WindowFor(pos) \in 1 .. MaxKv /\ pos + 1 <= WindowFor(pos)
      /\ Refilled(pos) \cup {pos} = 0 .. pos
  BY <1>2, <1>3, WindowHolds
<1>6. cache \in [Items -> Seq(Int)]
  BY <1>2 DEF BatchTypeOK
<1>7. cache' \in [Items -> Seq(Int)]
  BY <1>1, <1>6
<1>8. ASSUME NEW b \in Rows  PROVE Len(cache'[b]) = pos'
  <2>1. Len(cache[b]) = pos /\ cache[b] \in Seq(Int) /\ tok[b] \in Int
    BY <1>2, <1>6 DEF Lockstep
  <2> QED  BY <1>1, <1>2, <2>1
<1>9. ASSUME NEW b \in valid, NEW p \in 0 .. pos' - 1
      PROVE  cache'[b][p + 1] = IF p < promptLen THEN PromptTok(p)
                                                 ELSE Answer(b, p - promptLen + 1)
  <2>1. /\ Len(cache[b]) = pos /\ cache[b] \in Seq(Int) /\ tok[b] \in Int
        /\ cache'[b] = Append(cache[b], tok[b]) /\ RowAsAlone(b)
    BY <1>1, <1>2, <1>6 DEF Lockstep
  <2>2. CASE p = pos
    <3>1. cache'[b][p + 1] = tok[b]
      BY <2>1, <2>2
    <3> QED  BY <2>2, <3>1 DEF Due
  <2>3. CASE p # pos
    <3>1. p \in 0 .. pos - 1
      BY <1>1, <1>2, <2>3
    <3>2. cache'[b][p + 1] = cache[b][p + 1]
      BY <2>1, <3>1, <1>2
    <3> QED  BY <2>1, <3>1, <3>2 DEF RowAsAlone
  <2> QED  BY <2>2, <2>3
<1>10. kvWindow' \in 1 .. MaxKv' /\ pos' <= kvWindow' /\ pos' = pos + 1
  BY <1>1, <1>4, <1>5
<1>11. mask' = 0 .. pos' - 1
  BY <1>1, <1>2, <1>5
<1> QED  BY <1>7, <1>8, <1>9, <1>10, <1>11

\* The rows that are not finished take the answer that they would alone.
LEMMA AnswersAsAlone ==
  ASSUME DecodeInv, phase = "decode", pos' = pos + 1, pos' >= promptLen,
         produced' = produced + 1,
         UNCHANGED <<callVars, valid>>,
         mask' = 0 .. pos' - 1,
         cache' \in [Items -> Seq(Int)],
         \A b \in Rows : Len(cache'[b]) = pos',
         \A b \in valid : \A p \in 0 .. pos' - 1 :
              cache'[b][p + 1] = IF p < promptLen THEN PromptTok(p)
                                                  ELSE Answer(b, p - promptLen + 1),
         TakeAnswers
  PROVE  /\ finished \subseteq finished' /\ finished' \subseteq Rows
         /\ nextTok' \in [Items -> Tokens]
         /\ generated' \in [Items -> Seq(Tokens \ {Eos})]
         /\ \A b \in valid : RowAsAlone(b)'
<1> DEFINE heard == [b \in Items |-> Heard(b, cache'[b], mask')]
<1>1. /\ nextTok' = [b \in Items |-> IF b \in OpenRows THEN heard[b] ELSE nextTok[b]]
      /\ finished' = finished \cup {b \in OpenRows : heard[b] = Eos}
      /\ generated' = [b \in Items |-> IF b \in OpenRows /\ heard[b] # Eos
                                       THEN Append(generated[b], heard[b]) ELSE generated[b]]
  BY DEF TakeAnswers
<1> HIDE DEF heard
<1>2. /\ pos \in Nat /\ Lockstep /\ BatchTypeOK /\ Rows \subseteq Items /\ valid \subseteq Rows
      /\ promptLen \in Nat /\ promptLen # 0 /\ produced \in Nat /\ MaxNew \in Nat
  BY InDecode
<1>3. OpenRows \subseteq valid /\ OpenRows = Rows \ finished
  BY <1>2 DEF OpenRows, Lockstep
<1>4. produced = pos - promptLen + 1
  BY <1>2 DEF Lockstep
<1>5. ends \in [Items -> 1 .. MaxNew + 2] /\ ends' = ends /\ promptLen' = promptLen
  BY <1>2 DEF BatchTypeOK, callVars
<1>6. ASSUME NEW b \in OpenRows
      PROVE  /\ heard[b] = Answer(b, produced + 1)
             /\ heard[b] \in 0 .. MaxNew + 2
             /\ heard[b] = Eos <=> ends[b] <= produced + 1
             /\ produced < ends[b]
  <2>1. b \in valid /\ b \in Rows /\ b \in Items /\ b \notin finished
    BY <1>2, <1>3
  <2>2. RowAsAlone(b) /\ ends[b] \in 1 .. MaxNew + 2
    BY <1>2, <1>5, <2>1 DEF Lockstep
  <2>3. produced < ends[b]
    <3>1. CASE pos < promptLen
      BY <3>1, <1>2, <1>4, <2>2
    <3>2. CASE pos >= promptLen
      BY <3>2, <1>2, <2>1, <2>2 DEF RowAsAlone
    <3> QED  BY <3>1, <3>2, <1>2
  <2> DEFINE c == cache'[b]
  <2>4. c \in Seq(Int) /\ Len(c) = pos + 1 /\ mask' = 0 .. Len(c) - 1
    BY <2>1
  <2>5. Len(c) >= promptLen /\ Len(c) - promptLen = produced
    BY <1>2, <1>4, <2>4
  <2>6. \A p \in 0 .. Len(c) - 1 :
           c[p + 1] = IF p < promptLen THEN PromptTok(p) ELSE Answer(b, p - promptLen + 1)
    BY <2>1, <2>4
  <2>7. heard[b] = Heard(b, c, 0 .. Len(c) - 1)
    BY <2>1, <2>4 DEF heard
  <2> HIDE DEF c
  <2>8. heard[b] = Answer(b, produced + 1)
    BY <1>2, <2>3, <2>4, <2>5, <2>6, <2>7, HeardIsNext
  <2>9. produced + 1 \in Nat \ {0}
    BY <1>2
  <2>10. /\ Answer(b, produced + 1) \in 0 .. MaxNew + 2
         /\ Answer(b, produced + 1) = Eos <=> ends[b] <= produced + 1
    BY <2>2, <2>9, AnswerType
  <2> QED  BY <2>3, <2>8, <2>10
<1>7. /\ finished \subseteq finished' /\ finished' \subseteq Rows
  BY <1>1, <1>2, <1>3 DEF BatchTypeOK
<1>8. nextTok' \in [Items -> Tokens]
  <2>1. nextTok \in [Items -> Tokens]
    BY <1>2 DEF BatchTypeOK
  <2>2. \A b \in OpenRows : heard[b] \in Tokens
    BY <1>6 DEF Tokens
  <2> QED  BY <1>1, <2>1, <2>2
<1>9. generated' \in [Items -> Seq(Tokens \ {Eos})]
  <2>1. generated \in [Items -> Seq(Tokens \ {Eos})]
    BY <1>2 DEF BatchTypeOK
  <2>2. \A b \in OpenRows : heard[b] # Eos => heard[b] \in Tokens \ {Eos}
    BY <1>6 DEF Tokens
  <2>3. ASSUME NEW b \in Items
        PROVE  (IF b \in OpenRows /\ heard[b] # Eos
                THEN Append(generated[b], heard[b]) ELSE generated[b]) \in Seq(Tokens \ {Eos})
    <3>1. generated[b] \in Seq(Tokens \ {Eos})
      BY <2>1
    <3>2. CASE b \in OpenRows /\ heard[b] # Eos
      <4>1. heard[b] \in Tokens \ {Eos}
        BY <2>2, <3>2
      <4> QED  BY <3>1, <3>2, <4>1
    <3> QED  BY <3>1, <3>2
  <2> QED  BY <1>1, <2>3
<1>10. ASSUME NEW b \in valid  PROVE RowAsAlone(b)'
  <2>1. RowAsAlone(b) /\ b \in Items /\ b \in Rows /\ ends[b] \in 1 .. MaxNew + 2
    BY <1>2, <1>5 DEF Lockstep
  <2>2. generated[b] \in Seq(Tokens \ {Eos})
    BY <1>2, <2>1 DEF BatchTypeOK
  <2>4. CASE b \in finished
    <3>1. /\ b \in finished' /\ generated'[b] = generated[b]
          /\ pos >= promptLen /\ ends[b] <= produced
      BY <1>1, <1>3, <1>7, <2>1, <2>4 DEF RowAsAlone
    <3>2. Smaller(ends[b] - 1, produced) = Smaller(ends[b] - 1, produced + 1)
      BY <1>2, <2>1, <3>1 DEF Smaller
    <3>3. ends'[b] <= produced'
      BY <1>2, <1>5, <2>1, <3>1
    <3> QED  BY <1>5, <2>1, <3>1, <3>2, <3>3 DEF RowAsAlone, Answer, PromptTok
  <2>5. CASE b \notin finished
    <3>1. b \in OpenRows
      BY <1>3, <2>1, <2>5
    <3>2. /\ heard[b] = Answer(b, produced + 1) /\ produced < ends[b]
          /\ heard[b] = Eos <=> ends[b] <= produced + 1
      BY <1>6, <3>1
    <3>3. /\ b \in finished' <=> ends[b] <= produced + 1
          /\ nextTok'[b] = Answer(b, produced + 1)
      BY <1>1, <2>1, <2>5, <3>1, <3>2
    <3>4. /\ Len(generated[b]) = produced
          /\ \A k \in 1 .. Len(generated[b]) : generated[b][k] = k
      BY <1>2, <2>1, <3>2 DEF RowAsAlone, Smaller
    <3>5. CASE ends[b] <= produced + 1
      <4>1. generated'[b] = generated[b]
        BY <1>1, <2>1, <3>2, <3>5
      <4>2. Smaller(ends[b] - 1, produced + 1) = produced
        <5>1. produced \in Nat /\ ends[b] \in Nat /\ ends[b] = produced + 1
          BY <1>2, <2>1, <3>2, <3>5
        <5> QED  BY <5>1 DEF Smaller
      <4> QED  BY <1>5, <2>1, <3>3, <3>4, <3>5, <4>1, <4>2 DEF RowAsAlone, Answer, PromptTok
    <3>6. CASE ~ (ends[b] <= produced + 1)
      <4>1. heard[b] = produced + 1 /\ generated'[b] = Append(generated[b], produced + 1)
        <5>1. heard[b] = produced + 1
          BY <1>2, <2>1, <3>2, <3>6 DEF Answer
        <5> QED  BY <1>1, <2>1, <3>1, <3>2, <3>6, <5>1
      <4>2. Smaller(ends[b] - 1, produced + 1) = produced + 1
        BY <1>2, <2>1, <3>6 DEF Smaller
      <4>3. heard[b] \in Tokens \ {Eos}
        BY <1>6, <3>1, <3>2, <3>6 DEF Tokens
      <4>4. /\ Len(generated'[b]) = produced + 1
            /\ \A k \in 1 .. Len(generated'[b]) : generated'[b][k] = k
        <5> DEFINE g == generated[b]
                   a == heard[b]
        <5>1. g \in Seq(Tokens \ {Eos}) /\ a \in Tokens \ {Eos} /\ Len(g) = produced
          BY <2>2, <3>4, <4>3
        <5>2. generated'[b] = Append(g, a) /\ a = produced + 1
          BY <4>1
        <5>3. \A k \in 1 .. produced : g[k] = k
          BY <3>4
        <5> HIDE DEF g, a
        <5>4. Len(Append(g, a)) = produced + 1 /\ Append(g, a)[produced + 1] = a
          BY <1>2, <5>1
        <5>5. ASSUME NEW k \in 1 .. produced  PROVE Append(g, a)[k] = g[k]
          BY <1>2, <5>1
        <5>6. ASSUME NEW k \in 1 .. produced + 1  PROVE Append(g, a)[k] = k
          <6>1. k = produced + 1 \/ k \in 1 .. produced
            BY <1>2
          <6> QED  BY <6>1, <5>2, <5>3, <5>4, <5>5
        <5> QED  BY <5>2, <5>4, <5>6
      <4>5. ~ (ends'[b] <= produced')
        BY <1>2, <1>5, <2>1, <3>6
      <4> QED  BY <1>5, <2>1, <3>3, <4>2, <4>4, <4>5 DEF RowAsAlone, Answer, PromptTok
    <3> QED  BY <3>5, <3>6
  <2> QED  BY <2>4, <2>5
<1> QED  BY <1>7, <1>8, <1>9, <1>10

\* What a step of the loop leaves alone keeps its type.
LEMMA LoopTypes ==
  ASSUME DecodeInv, phase = "decode", phase' = "decode",
         UNCHANGED <<poolVars, callVars, row, valid, reject, entries, status>>,
         pos' = pos + 1, produced' \in 0 .. MaxNew, kvWindow' \in 1 .. MaxKv',
         mask' = 0 .. pos' - 1, cache' \in [Items -> Seq(Int)],
         nextTok' \in [Items -> Tokens], finished' \subseteq Rows,
         generated' \in [Items -> Seq(Tokens \ {Eos})]
  PROVE  BatchTypeOK'
<1>1. BatchTypeOK /\ pos \in Nat /\ n \in Nat
  BY InDecode
<1>2. MaxKv' \in Nat
  <2>1. MaxKv' = MaxKv
    BY DEF MaxKv, callVars
  <2> QED  BY <2>1, InDecode, KvHolds DEF Lockstep
<1>3. pos' \in Nat /\ kvWindow' \in Nat /\ mask' \subseteq Nat
  BY <1>1, <1>2
<1>4. Rows' = Rows
  BY DEF Rows, poolVars
<1>5. PoolTypeOK'
  BY <1>1 DEF BatchTypeOK, PoolTypeOK, poolVars
<1> QED  BY <1>1, <1>3, <1>4, <1>5 DEF BatchTypeOK, callVars, poolVars

\* Beyond Lockstep a step of the loop changes nothing.
LEMMA LoopKeeps ==
  ASSUME DecodeInv, phase = "decode", BatchTypeOK', Lockstep',
         UNCHANGED <<poolVars, phase, row, valid, reject, callVars, entries, status>>
  PROVE  DecodeInv'
<1>1. Refused'
  BY InDecode DEF Refused, poolVars
<1>2. BatchAsSingle'
  BY InDecode DEF BatchAsSingle
<1>3. n' > 0 /\ answer' # "none" /\ status' = "none"
  BY InDecode DEF poolVars
<1> QED  BY <1>1, <1>2, <1>3 DEF DecodeInv

\* A token of the prompt; after the last one each row has its first answer.
LEMMA FeedPromptKeeps ==
  ASSUME DecodeInv, FeedPrompt
  PROVE  DecodeInv'
<1> DEFINE tok == [b \in Items |-> PromptTok(pos)]
<1>1. /\ phase = "decode" /\ pos < promptLen /\ Step1(tok)
      /\ UNCHANGED <<poolVars, phase, row, valid, reject, callVars, entries, status>>
  BY DEF FeedPrompt
<1>2. /\ BatchTypeOK /\ Lockstep /\ pos \in Nat /\ produced = 0 /\ promptLen \in Nat \ {0}
      /\ MaxNew \in Nat \ {0} /\ Rows \subseteq Items /\ valid \subseteq Rows
  BY <1>1, InDecode DEF Lockstep
<1>3. pos + 1 <= MaxKv
  BY <1>1, <1>2, KvHolds DEF Lockstep
<1>4. tok \in [Items -> Int]
  BY <1>2 DEF PromptTok
<1>5. \A b \in valid : tok[b] = Due(b)
  BY <1>1, <1>2 DEF Due
<1> HIDE DEF tok
<1>6. /\ kvWindow' \in 1 .. MaxKv' /\ pos' <= kvWindow' /\ pos' = pos + 1
      /\ mask' = 0 .. pos' - 1
      /\ cache' \in [Items -> Seq(Int)]
      /\ \A b \in Rows : Len(cache'[b]) = pos'
      /\ \A b \in valid : \A p \in 0 .. pos' - 1 :
           cache'[b][p + 1] = IF p < promptLen THEN PromptTok(p)
                                               ELSE Answer(b, p - promptLen + 1)
  BY <1>1, <1>3, <1>4, <1>5, StepWrites
<1>7. promptLen' = promptLen /\ nCtx' = nCtx /\ ends' = ends /\ Rows' = Rows /\ valid' = valid
  BY <1>1 DEF callVars, poolVars, Rows
<1>8. CASE pos + 1 = promptLen
  <2>1. TakeAnswers /\ produced' = 1
    BY <1>8 DEF FeedPrompt
  <2>2. pos' >= promptLen /\ produced' = produced + 1
    BY <1>2, <1>6, <1>8, <2>1
  <2>3. /\ finished \subseteq finished' /\ finished' \subseteq Rows
        /\ nextTok' \in [Items -> Tokens]
        /\ generated' \in [Items -> Seq(Tokens \ {Eos})]
        /\ \A b \in valid : RowAsAlone(b)'
    BY <1>1, <1>6, <2>1, <2>2, AnswersAsAlone
  <2>4. Lockstep'
    <3>1. produced' = IF pos' < promptLen' THEN 0 ELSE pos' - promptLen' + 1
      BY <1>2, <1>6, <1>7, <1>8, <2>1
    <3>2. (Rows \ valid \subseteq finished)'
      BY <1>2, <1>7, <2>3 DEF Lockstep
    <3> QED  BY <1>2, <1>6, <1>7, <2>3, <3>1, <3>2 DEF Lockstep
  <2>5. BatchTypeOK'
    BY <1>1, <1>2, <1>6, <2>1, <2>3, LoopTypes
  <2> QED  BY <1>1, <2>4, <2>5, LoopKeeps
<1>9. CASE pos + 1 # promptLen
  <2>1. UNCHANGED <<nextTok, finished, generated, produced>> /\ pos' < promptLen
    BY <1>1, <1>2, <1>6, <1>9 DEF FeedPrompt
  <2>2. ASSUME NEW b \in valid  PROVE RowAsAlone(b)'
    <3>1. /\ b \notin finished /\ RowAsAlone(b)
      BY <1>1, <1>2 DEF Lockstep, RowAsAlone
    <3> QED  BY <1>1, <1>2, <1>6, <1>7, <2>1, <3>1 DEF RowAsAlone, Answer, PromptTok
  <2>3. Lockstep'
    <3>1. produced' = IF pos' < promptLen' THEN 0 ELSE pos' - promptLen' + 1
      BY <1>2, <1>7, <2>1
    <3> QED  BY <1>2, <1>6, <1>7, <2>1, <2>2, <3>1 DEF Lockstep
  <2>4. BatchTypeOK'
    <3>1. produced' \in 0 .. MaxNew
      BY <1>2, <2>1
    <3> QED  BY <1>1, <1>2, <1>6, <2>1, <3>1, LoopTypes DEF BatchTypeOK
  <2> QED  BY <1>1, <2>3, <2>4, LoopKeeps
<1> QED  BY <1>8, <1>9

\* A lockstep of all rows, the finished ones at <eos>.
LEMMA GenerateKeeps ==
  ASSUME DecodeInv, Generate
  PROVE  DecodeInv'
<1> DEFINE tok == [b \in Items |-> IF b \in finished THEN Eos ELSE nextTok[b]]
<1>1. /\ phase = "decode" /\ pos >= promptLen /\ Goes /\ Step1(tok) /\ TakeAnswers
      /\ produced' = produced + 1
      /\ UNCHANGED <<poolVars, phase, row, valid, reject, callVars, entries, status>>
  BY DEF Generate
<1>2. /\ BatchTypeOK /\ Lockstep /\ pos \in Nat /\ produced = pos - promptLen + 1
      /\ promptLen \in Nat \ {0}
      /\ MaxNew \in Nat \ {0} /\ Rows \subseteq Items /\ valid \subseteq Rows
      /\ ends \in [Items -> 1 .. MaxNew + 2] /\ nextTok \in [Items -> Tokens]
      /\ produced \in Nat /\ produced < MaxNew
  <2>1. /\ BatchTypeOK /\ Lockstep /\ pos \in Nat /\ promptLen \in Nat \ {0}
        /\ MaxNew \in Nat \ {0} /\ Rows \subseteq Items /\ valid \subseteq Rows
    BY <1>1, InDecode
  <2>2. produced = pos - promptLen + 1
    BY <1>1, <2>1 DEF Lockstep
  <2>3. /\ ends \in [Items -> 1 .. MaxNew + 2] /\ nextTok \in [Items -> Tokens]
        /\ produced \in Nat
    BY <2>1 DEF BatchTypeOK
  <2>4. produced < MaxNew
    BY <1>1 DEF Goes
  <2> QED  BY <2>1, <2>2, <2>3, <2>4
<1>3. pos + 1 <= MaxKv
  BY <1>1 DEF Goes
<1>4. tok \in [Items -> Int]
  <2>1. Tokens \subseteq Int /\ Eos \in Int
    BY <1>2 DEF Tokens, Noise, Eos
  <2> QED  BY <1>2, <2>1
<1>5. ASSUME NEW b \in valid  PROVE tok[b] = Due(b)
  <2>1. RowAsAlone(b) /\ b \in Items /\ ends[b] \in 1 .. MaxNew + 2
    BY <1>2 DEF Lockstep
  <2>2. Due(b) = Answer(b, produced)
    BY <1>1, <1>2 DEF Due
  <2>3. CASE b \in finished
    <3>1. ends[b] <= produced
      BY <2>1, <2>3 DEF RowAsAlone
    <3>2. ~ (produced < ends[b])
      BY <1>2, <2>1, <3>1
    <3> QED  BY <2>1, <2>2, <2>3, <3>2 DEF Answer
  <2>4. CASE b \notin finished
    BY <1>1, <1>2, <2>1, <2>2, <2>4 DEF RowAsAlone
  <2> QED  BY <2>3, <2>4
<1> HIDE DEF tok
<1>6. /\ kvWindow' \in 1 .. MaxKv' /\ pos' <= kvWindow' /\ pos' = pos + 1
      /\ mask' = 0 .. pos' - 1
      /\ cache' \in [Items -> Seq(Int)]
      /\ \A b \in Rows : Len(cache'[b]) = pos'
      /\ \A b \in valid : \A p \in 0 .. pos' - 1 :
           cache'[b][p + 1] = IF p < promptLen THEN PromptTok(p)
                                               ELSE Answer(b, p - promptLen + 1)
  BY <1>1, <1>3, <1>4, <1>5, StepWrites
<1>7. promptLen' = promptLen /\ nCtx' = nCtx /\ ends' = ends /\ Rows' = Rows /\ valid' = valid
  BY <1>1 DEF callVars, poolVars, Rows
<1>8. pos' >= promptLen
  BY <1>1, <1>2, <1>6
<1>9. /\ finished \subseteq finished' /\ finished' \subseteq Rows
      /\ nextTok' \in [Items -> Tokens]
      /\ generated' \in [Items -> Seq(Tokens \ {Eos})]
      /\ \A b \in valid : RowAsAlone(b)'
  BY <1>1, <1>6, <1>8, AnswersAsAlone
<1>10. Lockstep'
  <2>1. produced' = IF pos' < promptLen' THEN 0 ELSE pos' - promptLen' + 1
    BY <1>1, <1>2, <1>6, <1>7, <1>8
  <2>2. (Rows \ valid \subseteq finished)'
    BY <1>2, <1>7, <1>9 DEF Lockstep
  <2> QED  BY <1>2, <1>6, <1>7, <1>9, <2>1, <2>2 DEF Lockstep
<1>11. BatchTypeOK'
  <2>1. produced' \in 0 .. MaxNew
    BY <1>1, <1>2
  <2> QED  BY <1>1, <1>6, <1>9, <2>1, LoopTypes
<1> QED  BY <1>1, <1>10, <1>11, LoopKeeps

\* An answer has as many entries as it says, of their type.
LEMMA AnswersKeep ==
  ASSUME BatchTypeOK, NEW st \in {"ok", "aborted", "oom", "gguf"}, NEW rows \in {0, n},
         Answers(st, rows),
         UNCHANGED <<poolVars, row, valid, reject, callVars, loopVars>>
  PROVE  BatchTypeOK' /\ Len(entries') = rows /\ \A b \in 0 .. rows - 1 : entries'[b + 1] = Entry(b)
<1>1. n \in Nat /\ Rows \subseteq Items /\ PoolTypeOK
  BY RowsAreItems DEF BatchTypeOK
<1>2. ASSUME NEW b \in Items  PROVE Entry(b) \in [status : Statuses, text : Seq(Tokens)]
  <2>1. reject[b] \in Statuses /\ generated[b] \in Seq(Tokens \ {Eos})
    BY DEF BatchTypeOK
  <2>2. generated[b] \in Seq(Tokens)
    BY <2>1
  <2> QED  BY <2>1, <2>2 DEF Entry, Statuses
<1>3. entries' = [k \in 1 .. rows |-> Entry(k - 1)] /\ status' = st /\ phase' = "returned"
  BY DEF Answers
<1>4. rows \in Nat /\ \A k \in 1 .. rows : k - 1 \in Items
  BY <1>1 DEF Rows
<1>5. /\ entries' \in Seq([status : Statuses, text : Seq(Tokens)])
      /\ Len(entries') = rows
  BY <1>2, <1>3, <1>4
<1>6. \A b \in 0 .. rows - 1 : entries'[b + 1] = Entry(b)
  BY <1>3, <1>4
<1>7. BatchTypeOK'
  BY <1>1, <1>3, <1>5 DEF BatchTypeOK, Rows, PoolTypeOK, poolVars, callVars, loopVars
<1> QED  BY <1>5, <1>6, <1>7

\* A call that fails has no entries.
LEMMA GivesUpKeeps ==
  ASSUME DecodeInv, NEW st \in {"aborted", "oom", "gguf"}, GivesUp(st)
  PROVE  DecodeInv'
<1>1. /\ phase \in {"encode", "decode"} /\ Answers(st, 0)
      /\ UNCHANGED <<poolVars, row, valid, reject, callVars, loopVars>>
  BY DEF GivesUp
<1>2. BatchTypeOK /\ Refused /\ n > 0 /\ answer # "none"
  BY <1>1 DEF DecodeInv
<1>3. BatchTypeOK'
  BY <1>1, <1>2, AnswersKeep
<1>4. phase' = "returned" /\ status' = st
  BY <1>1 DEF Answers
<1>5. Refused'
  BY <1>1, <1>2 DEF Refused, poolVars
<1> QED  BY <1>1, <1>2, <1>3, <1>4, <1>5 DEF DecodeInv, BatchAsSingle, poolVars

\* A batch of refusals.
LEMMA NothingToDecodeKeeps ==
  ASSUME DecodeInv, NothingToDecode
  PROVE  DecodeInv'
<1>1. /\ phase = "encode" /\ valid = {} /\ Answers("ok", n)
      /\ UNCHANGED <<poolVars, row, valid, reject, callVars, loopVars>>
  BY DEF NothingToDecode
<1>2. BatchTypeOK /\ Refused /\ n > 0 /\ answer # "none"
  BY <1>1 DEF DecodeInv
<1>3. /\ BatchTypeOK' /\ Len(entries') = n
      /\ \A b \in 0 .. n - 1 : entries'[b + 1] = Entry(b)
  BY <1>1, <1>2, AnswersKeep
<1>4. phase' = "returned" /\ status' = "ok"
  BY <1>1 DEF Answers
<1>5. Refused'
  BY <1>1, <1>2 DEF Refused, poolVars
<1>6. BatchAsSingle'
  <2>1. Rows' = Rows /\ n' = n /\ valid' = {} /\ failed' = failed /\ Rows \subseteq Items
    BY <1>1, <1>2, RowsAreItems DEF poolVars, Rows, BatchTypeOK
  <2>2. ASSUME NEW b \in Rows
        PROVE  /\ entries'[b + 1].status = reject[b] /\ entries'[b + 1].text = <<>>
               /\ reject[b] \in {"invalid", "too_long"}
               /\ b \in failed => reject[b] = "invalid"
    <3>1. b \in 0 .. n - 1 /\ b \in Items /\ b \notin valid
      BY <1>1, <2>1 DEF Rows
    <3>2. entries'[b + 1] = [status |-> reject[b], text |-> <<>>]
      BY <1>3, <3>1 DEF Entry
    <3> QED  BY <1>2, <3>1, <3>2 DEF Refused
  <2> QED  BY <1>3, <2>1, <2>2 DEF BatchAsSingle
<1> QED  BY <1>1, <1>2, <1>3, <1>4, <1>5, <1>6 DEF DecodeInv, poolVars

\* The lengths: a decode of q answers ends at its budget, at <eos> or with the
\* context; one of its own ends with `reads'.
LEMMA LengthsAgree ==
  ASSUME NEW e \in Nat \ {0}, NEW q \in Nat \ {0}, NEW m \in Nat \ {0},
         NEW p \in Nat \ {0}, NEW c \in Nat, NEW kv \in Nat, p <= kv, kv <= c,
         kv = c \/ p + m <= kv, q <= m, p + q - 1 <= kv,
         q >= m \/ e <= q \/ p + q > kv
  PROVE  LET reads == Larger(1, Smaller(m, c - p))
         IN  /\ Smaller(e - 1, q) - Smaller(e - 1, reads) \in {0, 1}
             /\ p + m <= c => /\ Smaller(e - 1, q) = Smaller(e - 1, reads)
                              /\ e <= q <=> e <= reads
BY DEF Larger, Smaller

\* The loop ends, and each row is as it would be alone.
LEMMA CaptureKeeps ==
  ASSUME DecodeInv, Capture
  PROVE  DecodeInv'
<1>1. /\ phase = "decode" /\ pos >= promptLen /\ ~Goes /\ Answers("ok", n)
      /\ UNCHANGED <<poolVars, row, valid, reject, callVars, loopVars>>
  BY DEF Capture
<1>2. BatchTypeOK /\ Refused /\ n > 0 /\ answer # "none" /\ Lockstep
  BY <1>1 DEF DecodeInv
<1>3. /\ BatchTypeOK' /\ Len(entries') = n
      /\ \A b \in 0 .. n - 1 : entries'[b + 1] = Entry(b)
  BY <1>1, <1>2, AnswersKeep
<1>4. phase' = "returned" /\ status' = "ok"
  BY <1>1 DEF Answers
<1>5. Refused'
  BY <1>1, <1>2 DEF Refused, poolVars
<1>6. /\ pos \in Nat /\ produced \in Nat \ {0} /\ promptLen \in Nat \ {0} /\ nCtx \in Nat
      /\ produced = pos - promptLen + 1 /\ produced <= MaxNew /\ MaxNew \in Nat \ {0}
      /\ MaxKv \in Nat /\ promptLen <= MaxKv /\ MaxKv <= nCtx
      /\ MaxKv = nCtx \/ promptLen + MaxNew <= MaxKv
      /\ pos <= MaxKv
  <2>1. /\ pos \in Nat /\ promptLen \in Nat \ {0} /\ MaxNew \in Nat \ {0} /\ produced \in 0 .. MaxNew
    BY <1>1, InDecode
  <2>2. produced = pos - promptLen + 1
    BY <1>1, <1>2, <2>1 DEF Lockstep
  <2>3. /\ MaxKv \in Nat /\ promptLen <= MaxKv /\ MaxKv <= nCtx /\ nCtx \in Nat
        /\ MaxKv = nCtx \/ promptLen + MaxNew <= MaxKv
    BY <1>2, KvHolds DEF Lockstep
  <2>4. pos <= MaxKv
    BY <1>2, <2>1, <2>3 DEF Lockstep
  <2> QED  BY <1>1, <2>1, <2>2, <2>3, <2>4
<1>7. ASSUME NEW b \in valid
      PROVE  LET e == entries'[b + 1]
                 s == Single(b)
             IN  /\ Len(e.text) - Len(s.text) \in {0, 1}
                 /\ \A k \in 1 .. Len(e.text) : e.text[k] = k
                 /\ promptLen + MaxNew <= nCtx => e = s
  <2> DEFINE reads == Larger(1, Smaller(MaxNew, nCtx - promptLen))
             g == generated[b]
  <2>1. b \in Rows /\ b \in Items /\ RowAsAlone(b) /\ ends[b] \in Nat \ {0} /\ g \in Seq(Tokens \ {Eos})
    BY <1>2, <1>6, RowsAreItems DEF BatchTypeOK, Lockstep
  <2>2. entries'[b + 1] = [status |-> IF b \in finished THEN "ok" ELSE "truncated", text |-> g]
    BY <1>3, <2>1 DEF Entry, Rows
  <2>3. /\ b \in finished <=> ends[b] <= produced
        /\ Len(g) = Smaller(ends[b] - 1, produced)
        /\ \A k \in 1 .. Len(g) : g[k] = k
    BY <1>1, <2>1 DEF RowAsAlone
  <2>4. produced >= MaxNew \/ ends[b] <= produced \/ promptLen + produced > MaxKv
    <3>1. CASE Rows \subseteq finished
      BY <3>1, <2>1, <2>3
    <3>2. CASE ~ (produced < MaxNew)
      BY <3>2, <1>6
    <3>3. CASE ~ (pos + 1 <= MaxKv)
      BY <3>3, <1>6
    <3> QED  BY <1>1, <3>1, <3>2, <3>3 DEF Goes
  <2>5. promptLen + produced - 1 <= MaxKv
    BY <1>6
  <2>6. /\ Smaller(ends[b] - 1, produced) - Smaller(ends[b] - 1, reads) \in {0, 1}
        /\ promptLen + MaxNew <= nCtx =>
             /\ Smaller(ends[b] - 1, produced) = Smaller(ends[b] - 1, reads)
             /\ ends[b] <= produced <=> ends[b] <= reads
    <3> DEFINE e == ends[b]
               q == produced
               m == MaxNew
               p == promptLen
               c == nCtx
               kv == MaxKv
    <3>1. /\ e \in Nat \ {0} /\ q \in Nat \ {0} /\ m \in Nat \ {0} /\ p \in Nat \ {0}
          /\ c \in Nat /\ kv \in Nat /\ p <= kv /\ kv <= c
          /\ kv = c \/ p + m <= kv
          /\ q <= m /\ p + q - 1 <= kv
          /\ q >= m \/ e <= q \/ p + q > kv
      BY <1>6, <2>1, <2>4, <2>5
    <3> HIDE DEF e, q, m, p, c, kv
    <3>2. LET r == Larger(1, Smaller(m, c - p))
          IN  /\ Smaller(e - 1, q) - Smaller(e - 1, r) \in {0, 1}
              /\ p + m <= c => /\ Smaller(e - 1, q) = Smaller(e - 1, r)
                               /\ e <= q <=> e <= r
      BY <3>1, LengthsAgree
    <3> QED  BY <3>2 DEF e, q, m, p, c, kv
  <2>7. Single(b) = [status |-> IF ends[b] <= reads THEN "ok" ELSE "truncated",
                     text   |-> [k \in 1 .. Smaller(ends[b] - 1, reads) |-> k]]
    BY DEF Single, MaxTokens
  <2>8. reads \in Nat
    BY <1>6 DEF Larger, Smaller
  <2> HIDE DEF reads, g
  <2>9. Smaller(ends[b] - 1, reads) \in Nat
    BY <2>1, <2>8 DEF Smaller
  <2>10. Len([k \in 1 .. Smaller(ends[b] - 1, reads) |-> k]) = Smaller(ends[b] - 1, reads)
    BY <2>9
  <2>11. Len(entries'[b + 1].text) - Len(Single(b).text) \in {0, 1}
    <3>1. Len(entries'[b + 1].text) = Smaller(ends[b] - 1, produced)
      BY <2>2, <2>3
    <3>2. Single(b).text = [k \in 1 .. Smaller(ends[b] - 1, reads) |-> k]
      BY <2>7
    <3> QED  BY <2>6, <2>10, <3>1, <3>2
  <2>12. ASSUME promptLen + MaxNew <= nCtx  PROVE entries'[b + 1] = Single(b)
    <3>1. Len(g) = Smaller(ends[b] - 1, reads) /\ Len(g) \in Nat
      BY <2>3, <2>6, <2>9, <2>12
    <3>2. g = [k \in 1 .. Len(g) |-> g[k]]
      BY <2>1
    <3>3. [k \in 1 .. Len(g) |-> g[k]] = [k \in 1 .. Len(g) |-> k]
      BY <2>3
    <3>4. g = [k \in 1 .. Smaller(ends[b] - 1, reads) |-> k]
      BY <3>1, <3>2, <3>3
    <3>5. b \in finished <=> ends[b] <= reads
      BY <2>3, <2>6, <2>12
    <3> QED  BY <2>2, <2>7, <3>4, <3>5
  <2> QED  BY <2>2, <2>3, <2>11, <2>12
<1>8. BatchAsSingle'
  <2>1. /\ Rows' = Rows /\ n' = n /\ valid' = valid /\ failed' = failed
        /\ promptLen' = promptLen /\ nCtx' = nCtx /\ ends' = ends
        /\ Rows \subseteq Items
    BY <1>1, <1>2, RowsAreItems DEF poolVars, callVars, Rows, BatchTypeOK
  <2>2. \A b \in Rows : Single(b)' = Single(b)
    BY <2>1 DEF Single, MaxTokens
  <2>3. ASSUME NEW b \in Rows, b \notin valid
        PROVE  /\ entries'[b + 1].status = reject[b] /\ entries'[b + 1].text = <<>>
               /\ reject[b] \in {"invalid", "too_long"}
               /\ b \in failed => reject[b] = "invalid"
    <3>1. b \in 0 .. n - 1 /\ b \in Items
      BY <2>1 DEF Rows
    <3>2. entries'[b + 1] = [status |-> reject[b], text |-> <<>>]
      BY <1>3, <2>3, <3>1 DEF Entry
    <3> QED  BY <1>2, <3>1, <3>2 DEF Refused
  <2>4. \A b \in valid : b \notin failed
    BY <1>2 DEF Refused
  <2>5. ASSUME NEW b \in Rows
        PROVE  LET e == entries'[b + 1]
                   s == Single(b)
               IN  /\ b \in failed => e.status = "invalid"
                   /\ b \notin valid => e.status \in {"invalid", "too_long"} /\ e.text = <<>>
                   /\ b \in valid => /\ Len(e.text) - Len(s.text) \in {0, 1}
                                      /\ \A k \in 1 .. Len(e.text) : e.text[k] = k
                                      /\ promptLen + MaxNew <= nCtx => e = s
    <3>1. CASE b \in valid
      BY <3>1, <1>7, <2>4
    <3>2. CASE b \notin valid
      BY <3>2, <2>3
    <3> QED  BY <3>1, <3>2
  <2> QED  BY <1>3, <2>1, <2>2, <2>5 DEF BatchAsSingle
<1> QED  BY <1>1, <1>2, <1>3, <1>4, <1>5, <1>8 DEF DecodeInv, poolVars

\* ... and in every state.
LEMMA DecodeInvariant == Spec => [](DecodeInv /\ PoolInv)
<1>1. Init => DecodeInv
  BY DecodeStarts
<1>2. DecodeInv /\ PoolInv /\ PoolInv' /\ [Next]_vars => DecodeInv'
  <2> SUFFICES ASSUME DecodeInv, PoolInv, PoolInv', [Next]_vars  PROVE DecodeInv'
    OBVIOUS
  <2>1. CASE UNCHANGED vars
    <3>1. UNCHANGED <<poolVars, decodeVars>>
      BY <2>1 DEF vars
    <3> USE DEF decodeVars, callVars, loopVars, poolVars
    <3>2. BatchTypeOK => BatchTypeOK'
      BY <3>1 DEF BatchTypeOK, PoolTypeOK, Rows
    <3>3. Lockstep => Lockstep'
      <4>1. \A b \in valid : RowAsAlone(b) => RowAsAlone(b)'
        BY <3>1 DEF RowAsAlone, Answer, PromptTok
      <4> QED  BY <3>1, <4>1 DEF Lockstep, MaxKv, Rows
    <3>4. BatchAsSingle => BatchAsSingle'
      BY <3>1 DEF BatchAsSingle, Single, MaxTokens, Rows
    <3>5. (Refused => Refused') /\ (NotBegun => NotBegun')
      BY <3>1 DEF Refused, NotBegun
    <3> QED  BY <3>1, <3>2, <3>3, <3>4, <3>5 DEF DecodeInv
  <2>2. CASE PoolNext /\ UNCHANGED decodeVars
    BY <2>2, PoolKeeps DEF PoolInv
  <2>3. CASE PoolEnds
    BY <2>3, PoolEndsKeeps
  <2>4. CASE NothingToDecode
    BY <2>4, NothingToDecodeKeeps
  <2>5. CASE FeedPrompt
    BY <2>5, FeedPromptKeeps
  <2>6. CASE Generate
    BY <2>6, GenerateKeeps
  <2>7. CASE Capture
    BY <2>7, CaptureKeeps
  <2>8. ASSUME NEW fate \in {"fits", "too_long", "fails"}, Encode(fate)  PROVE DecodeInv'
    BY <2>8, EncodeKeeps
  <2>9. ASSUME NEW c \in Contexts, NEW p \in PromptLens, NEW e \in [valid -> 1 .. MaxNew + 2],
               Load(c, p, [i \in Items |-> IF i \in valid THEN e[i] ELSE 1])
        PROVE  DecodeInv'
    BY <2>9, LoadKeeps
  <2>10. ASSUME NEW st \in {"aborted", "oom", "gguf"}, GivesUp(st)  PROVE DecodeInv'
    BY <2>10, GivesUpKeeps
  <2> QED  BY <2>1, <2>2, <2>3, <2>4, <2>5, <2>6, <2>7, <2>8, <2>9, <2>10 DEF Next, DecodeNext
<1>3. Spec => []PoolInv
  BY BatchUsesPool, PoolInvariant, PTL
<1>4. Spec => Init /\ [][Next]_vars
  BY DEF Spec
<1> QED  BY <1>1, <1>2, <1>3, <1>4, PTL

(* Type correctness of the pool and of the decode.                         *)
THEOREM BatchTypeCorrect == Spec => []BatchTypeOK
  BY DecodeInvariant, PTL DEF DecodeInv

(* However often ensure_window widens the read window, for every length of *)
(* prompt, budget and context ceiling: each row sees what it has written,  *)
(* all of it and nothing else, and never writes beyond the cache.          *)
THEOREM RowsSeeTheirPast == Spec => []MaskIsPast
<1>1. DecodeInv => MaskIsPast
  BY DEF DecodeInv, Lockstep, MaskIsPast
<1> QED  BY <1>1, DecodeInvariant, PTL

(* For any number of utterances, whichever fail, whenever the others end,  *)
(* and however the features were shared out to threads: what               *)
(* run_batched_encdec_step_loop gives a row is what transcribe_run would.  *)
THEOREM BatchesAreSingles == Spec => []BatchAsSingle
  BY DecodeInvariant, PTL DEF DecodeInv
=============================================================================
