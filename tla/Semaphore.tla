----------------------------- MODULE Semaphore -----------------------------
(***************************************************************************)
(* What a thread that waits for items of work expects of Conditional: a    *)
(* counting semaphore.  Each signal adds one permit, each wait that        *)
(* returns took one.                                                       *)
(***************************************************************************)
EXTENDS Integers

CONSTANT Threads

VARIABLES
  permits,   \* signals nobody has taken yet
  asking     \* the threads inside wait()

SemInit == permits = 0 /\ asking = {}

Post == permits' = permits + 1 /\ UNCHANGED asking

Ask(t) == t \notin asking /\ asking' = asking \cup {t} /\ UNCHANGED permits

Take(t) == /\ t \in asking /\ permits > 0
           /\ asking' = asking \ {t}
           /\ permits' = permits - 1

\* A wait that finds a permit takes it without waiting.
TakeAtOnce(t) == t \notin asking /\ permits > 0 /\ permits' = permits - 1 /\ UNCHANGED asking

SemNext == Post \/ \E t \in Threads : Ask(t) \/ Take(t) \/ TakeAtOnce(t)

SemSpec == SemInit /\ [][SemNext]_<<permits, asking>>
=============================================================================
