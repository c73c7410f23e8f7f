---------------------------- MODULE Conditional ----------------------------
(***************************************************************************)
(* common/CriticalSection: class Conditional, a condition variable with    *)
(* its mutex and a count of signals, as its threads use it.  A section of  *)
(* code that runs from enterMutex() to leaveMutex() without waiting is one *)
(* step; pthread_cond_wait() leaves the mutex, waits on the condition and  *)
(* takes the mutex again before it returns.                                *)
(***************************************************************************)
EXTENDS Integers, FiniteSets

CONSTANTS
  Threads,
  MaxSignals,   \* bound: calls of signal()
  MaxWaits,     \* bound: calls of wait()
  Micros,       \* readings of the clock's microseconds
  Timeouts      \* timeouts in milliseconds

NoThread == "none"

\* Units of the clock and of a deadline.
MicrosPerSecond == 1000000
MicrosPerMilli == 1000
MillisPerSecond == 1000
NanosPerMilli == 1000000
NanosPerSecond == 1000000000

ASSUME ConditionalAssumption ==
  /\ NoThread \notin Threads
  /\ MaxSignals \in Nat /\ MaxWaits \in Nat
  /\ Micros \subseteq 0..(MicrosPerSecond - 1) /\ Timeouts \subseteq Nat

VARIABLES
  use,          \* how the threads use it: "items", signal(false) and wait(0) alone and no
                \* spurious wake-up, or "any": broadcasts, timeouts and spurious wake-ups too
  owner,        \* the thread that holds _mutex between two of its calls, or NoThread
  miDataCount,
  waiting,      \* threads on _cond's queue
  state,        \* state[t]: "out", "held" (between enterMutex and leaveMutex), "cond" (in wait)
  timed,        \* timed[t]: this wait has a timeout
  locked,       \* locked[t]: this wait was called with locked = true
  verdict,      \* verdict[t]: what woke t: "none", "signal", "spurious", "timeout"
  posted,       \* history: calls of signal()
  asked,        \* history: calls of wait()
  taken         \* history: waits that returned true

condVars == <<use, owner, miDataCount, waiting, state, timed, locked, verdict, posted, asked, taken>>

CondInit ==
  /\ use \in {"items", "any"}
  /\ owner = NoThread /\ miDataCount = 0 /\ waiting = {}
  /\ state = [t \in Threads |-> "out"]
  /\ timed = [t \in Threads |-> FALSE]
  /\ locked = [t \in Threads |-> FALSE]
  /\ verdict = [t \in Threads |-> "none"]
  /\ posted = 0 /\ asked = 0 /\ taken = 0

\* enterMutex(), or tryEnterMutex() that succeeded.
EnterMutex(t) ==
  /\ state[t] = "out" /\ owner = NoThread
  /\ owner' = t
  /\ state' = [state EXCEPT ![t] = "held"]
  /\ UNCHANGED <<use, miDataCount, waiting, timed, locked, verdict, posted, asked, taken>>

LeaveMutex(t) ==
  /\ state[t] = "held"
  /\ owner' = NoThread
  /\ state' = [state EXCEPT ![t] = "out"]
  /\ UNCHANGED <<use, miDataCount, waiting, timed, locked, verdict, posted, asked, taken>>

\* pthread_cond_signal() and pthread_cond_broadcast(): which waiters are woken.
Woken(broadcast) ==
  IF broadcast \/ waiting = {} THEN {waiting} ELSE {{t} : t \in waiting}

\* Mutant: the count is raised only when somebody waits, as a plain condition would.
SignalForgets(t, broadcast) ==
  /\ state[t] = "out" /\ owner = NoThread /\ posted < MaxSignals
  /\ miDataCount' = IF waiting = {} THEN miDataCount ELSE miDataCount + 1
  /\ \E w \in Woken(broadcast) :
       /\ waiting' = waiting \ w
       /\ verdict' = [u \in Threads |-> IF u \in w THEN "signal" ELSE verdict[u]]
  /\ posted' = posted + 1
  /\ UNCHANGED <<use, owner, state, timed, locked, asked, taken>>

Signal(t, broadcast) ==
  /\ state[t] = "out" /\ owner = NoThread /\ posted < MaxSignals
  /\ miDataCount' = miDataCount + 1
  /\ \E w \in Woken(broadcast) :
       /\ waiting' = waiting \ w
       /\ verdict' = [u \in Threads |-> IF u \in w THEN "signal" ELSE verdict[u]]
  /\ posted' = posted + 1
  /\ UNCHANGED <<use, owner, state, timed, locked, asked, taken>>

\* A caller with locked = true holds the mutex; one with locked = false takes it first.
MayCall(t, lock) == IF lock THEN state[t] = "held" ELSE state[t] = "out" /\ owner = NoThread

\* t goes to sleep in pthread_cond_wait() or pthread_cond_timedwait().
Sleep(t, lock, time) ==
  /\ waiting' = waiting \cup {t}
  /\ state' = [state EXCEPT ![t] = "cond"]
  /\ timed' = [timed EXCEPT ![t] = time]
  /\ locked' = [locked EXCEPT ![t] = lock]
  /\ verdict' = [verdict EXCEPT ![t] = "none"]
  /\ owner' = NoThread
  /\ UNCHANGED <<use, posted, taken>>

\* Mutant: the test of the count takes place before the count is lowered, with "< 0".
WaitOffByOne(t, lock) ==
  /\ MayCall(t, lock) /\ asked < MaxWaits
  /\ asked' = asked + 1
  /\ miDataCount' = miDataCount - 1
  /\ IF miDataCount < 0 THEN Sleep(t, lock, FALSE)
     ELSE /\ taken' = taken + 1
          /\ UNCHANGED <<use, owner, waiting, state, timed, locked, verdict, posted>>

\* wait(0, lock): one test of the count, and one cond_wait with no loop around it.
Wait(t, lock) ==
  /\ MayCall(t, lock) /\ asked < MaxWaits
  /\ asked' = asked + 1
  /\ miDataCount' = miDataCount - 1
  /\ IF miDataCount <= 0 THEN Sleep(t, lock, FALSE)
     ELSE /\ taken' = taken + 1
          /\ UNCHANGED <<use, owner, waiting, state, timed, locked, verdict, posted>>

\* wait(timeout, lock): the count is neither read nor changed.
WaitTimed(t, lock) ==
  /\ use = "any" /\ MayCall(t, lock) /\ asked < MaxWaits
  /\ asked' = asked + 1
  /\ Sleep(t, lock, TRUE)
  /\ UNCHANGED miDataCount

\* The deadline of a timed wait passes, or the kernel wakes a waiter for nothing.
WakeUnsignalled(t) ==
  /\ t \in waiting
  /\ \E why \in (IF timed[t] THEN {"timeout"} ELSE {}) \cup (IF use = "any" THEN {"spurious"} ELSE {}) :
       verdict' = [verdict EXCEPT ![t] = why]
  /\ waiting' = waiting \ {t}
  /\ UNCHANGED <<use, owner, miDataCount, state, timed, locked, posted, asked, taken>>

\* What wait() kept in its frame.
Forget(t) ==
  /\ timed' = [timed EXCEPT ![t] = FALSE]
  /\ locked' = [locked EXCEPT ![t] = FALSE]
  /\ verdict' = [verdict EXCEPT ![t] = "none"]

\* The mutex is taken again and wait() returns, false only after a timeout.
Return(t) ==
  /\ state[t] = "cond" /\ t \notin waiting /\ owner = NoThread
  /\ owner' = IF locked[t] THEN t ELSE NoThread
  /\ state' = [state EXCEPT ![t] = IF locked[t] THEN "held" ELSE "out"]
  /\ taken' = IF verdict[t] = "timeout" THEN taken ELSE taken + 1
  /\ Forget(t)
  /\ UNCHANGED <<use, miDataCount, waiting, posted, asked>>

CondNext == \E t \in Threads :
  \/ EnterMutex(t) \/ LeaveMutex(t) \/ Return(t) \/ WakeUnsignalled(t)
  \/ \E b \in IF use = "items" THEN {FALSE} ELSE BOOLEAN : Signal(t, b)
  \/ \E l \in BOOLEAN : Wait(t, l) \/ WaitTimed(t, l)

CondSpec == CondInit /\ [][CondNext]_condVars

\* A thread that holds the mutex leaves it, a thread that was woken gets the mutex in the end,
\* and a deadline passes; nobody has to signal.
CondFairness == \A t \in Threads :
  /\ WF_condVars(LeaveMutex(t)) /\ SF_condVars(Return(t))
  /\ WF_condVars(timed[t] /\ WakeUnsignalled(t))

CondFairSpec == CondSpec /\ CondFairness

-----------------------------------------------------------------------------
(* getTimeoutEx(): the absolute time of the deadline. *)

Deadline(sec, usec, timer) ==
  [tv_sec |-> sec + ((timer + (usec \div MicrosPerMilli)) \div MillisPerSecond),
   tv_nsec |-> (((usec \div MicrosPerMilli) + timer) % MillisPerSecond) * NanosPerMilli]

\* The deadline is the time asked for after now, to the millisecond, and its nanoseconds are those
\* pthread_cond_timedwait() accepts (it fails with EINVAL otherwise, which wait() takes for true).
DeadlineRight == \A usec \in Micros, timer \in Timeouts :
  LET d == Deadline(0, usec, timer) IN
  /\ d.tv_nsec \in 0..(NanosPerSecond - 1)
  /\ (d.tv_sec * MillisPerSecond) + (d.tv_nsec \div NanosPerMilli) - (usec \div MicrosPerMilli) = timer

-----------------------------------------------------------------------------
Asking == {t \in Threads : state[t] = "cond"}
Woke(v) == {t \in Asking \ waiting : verdict[t] = v}

CondTypeOK ==
  /\ use \in {"items", "any"}
  /\ owner \in Threads \cup {NoThread}
  /\ miDataCount \in Int
  /\ waiting \subseteq Asking
  /\ state \in [Threads -> {"out", "held", "cond"}]
  /\ timed \in [Threads -> BOOLEAN]
  /\ locked \in [Threads -> BOOLEAN]
  /\ verdict \in [Threads -> {"none", "signal", "spurious", "timeout"}]
  /\ posted \in 0..MaxSignals /\ asked \in 0..MaxWaits
  /\ taken \in Nat

\* The mutex is held exactly by the thread that is between its calls with it: a wait that was
\* called with the mutex returns with the mutex, whatever woke it.
MutexHeld == \A t \in Threads : state[t] = "held" <=> owner = t

\* No signal sleeps: a thread stays on the queue only while every signal so far was taken or has
\* a woken thread of its own.  (The count alone does not say it: it goes below zero.)
NoSignalSleeps == use = "items" /\ waiting # {} => posted - taken <= Cardinality(Woke("signal"))

\* Conditional::wait() and signal() keep the mutex with its holder, leave no signal with a thread
\* still asleep, and compute deadlines pthread accepts.
ConditionalSafe == CondTypeOK /\ MutexHeld /\ NoSignalSleeps /\ DeadlineRight

\* Used for items, Conditional is the counting semaphore: a signal sent before its wait is kept,
\* one sent to several waiters lets one go on, and a thread that comes between the signal and the
\* waiter's return cannot take it.
Sem == INSTANCE Semaphore WITH
  permits <- IF use = "items" THEN posted - taken ELSE 0,
  asking <- IF use = "items" THEN Asking ELSE {}

SemaphoreSpec == Sem!SemSpec

\* A signal that is left over reaches a thread that waits: the two do not stay there together.
\* And a timed wait ends, and so does a wait that was woken, however busy the mutex is.
WaitsEnd ==
  /\ (use = "items" /\ posted > taken /\ Asking # {}) ~> (posted <= taken \/ Asking = {})
  /\ \A t \in Threads :
       (state[t] = "cond" /\ (t \notin waiting \/ timed[t])) ~> state[t] # "cond"
=============================================================================
