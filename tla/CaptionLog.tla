----------------------------- MODULE CaptionLog -----------------------------
(***************************************************************************)
(* What a stream promises to whoever displays its committed text, and      *)
(* nothing about how it decides what to commit: an append-only log.        *)
(***************************************************************************)
EXTENDS Sequences, SequencesExt

CONSTANT Byte

VARIABLES
  open,  \* the stream accepts audio
  log    \* the committed text

logVars == << open, log >>

Init == ~ open /\ log = << >>

\* begin, reset and run start over; after a refused begin the log is not open.
Clear ==
  /\ log' = << >>
  /\ open' \in BOOLEAN

\* feed and finalize may extend an open log, and may close it.
Grow ==
  /\ open
  /\ log' \in Seq(Byte)
  /\ IsPrefix(log, log')
  /\ open' \in BOOLEAN

Next == Clear \/ Grow

Spec == Init /\ [][Next]_logVars
=============================================================================
