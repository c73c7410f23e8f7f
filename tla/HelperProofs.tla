---------------------------- MODULE HelperProofs ----------------------------
(***************************************************************************)
(* What the reactor and the programs beside it call, for every value of    *)
(* the constants: a Conditional is safe and, used for items, the counting  *)
(* semaphore of module Semaphore; the lines of a log are of one thread     *)
(* each, their parts in order, none lost, in files that grow past the      *)
(* limit only within their minute; a client is answered for the key its    *)
(* request holds, however the request was cut into reads; an ini file is   *)
(* read as what its statements say; a text encoded for a URL, a query of   *)
(* such texts, and octets encoded in base64 are read back, whatever their  *)
(* length.                                                                 *)
(***************************************************************************)
EXTENDS Conditional, DebugTrace, Handshake, Configure, UrlText, Base64,
        SequenceTheorems, FiniteSetTheorems, Induction

(* Conditional: the queue of a condition, CriticalSection.h and .cpp *)

\* Used for items, no wait has a deadline and whoever left the queue was signalled.
OnlySignals == \A t \in Asking : ~timed[t] /\ (t \in waiting \/ verdict[t] = "signal")

\* Used for items, the count is what was posted and not taken, less the threads inside wait(); it is
\* the number of threads on the queue, negated, while there is one.
Counted ==
  /\ posted - taken = miDataCount + Cardinality(Asking)
  /\ waiting = {} => miDataCount >= 0
  /\ waiting # {} => miDataCount = -Cardinality(waiting)

\* The inductive invariant.  That finitely many threads are inside wait() is part of it, so that
\* nothing is assumed of the set of threads.
CondInv ==
  /\ CondTypeOK
  /\ MutexHeld
  /\ IsFiniteSet(Asking)
  /\ use = "items" => OnlySignals /\ Counted

-----------------------------------------------------------------------------
(* The deadline, and what the assumption says of the other constants. *)

\* The bounds are numbers, and NoThread is no thread.
LEMMA CondConstants ==
  /\ MaxSignals \in Nat /\ MaxWaits \in Nat /\ NoThread \notin Threads
  /\ \A usec \in Micros : usec \in Nat
  /\ \A timer \in Timeouts : timer \in Nat
<1>1. MicrosPerSecond - 1 \in Nat
  BY SMT DEF MicrosPerSecond
<1>. QED
  BY <1>1, ConditionalAssumption, SMT

\* Dividing milliseconds by 1000 leaves the seconds and a rest below 1000.
LEMMA SecondsAndRest ==
  ASSUME NEW n \in Nat
  PROVE  /\ n \div MillisPerSecond \in Nat /\ n % MillisPerSecond \in 0..999
         /\ ((n \div MillisPerSecond) * MillisPerSecond) + (n % MillisPerSecond) = n
  BY SMT DEF MillisPerSecond

\* The same of the clock's microseconds.
LEMMA MillisOfClock ==
  ASSUME NEW usec \in Nat
  PROVE  usec \div MicrosPerMilli \in Nat
  BY SMT DEF MicrosPerMilli

\* A rest in milliseconds, in nanoseconds.
LEMMA NanosOfRest ==
  ASSUME NEW r \in 0..999
  PROVE  /\ r * NanosPerMilli \in 0..(NanosPerSecond - 1)
         /\ (r * NanosPerMilli) \div NanosPerMilli = r
<1>1. r * 1000000 >= 0 /\ r * 1000000 <= 1000000000 - 1 /\ (r * 1000000) \div 1000000 = r
  BY SMT
<1>2. r * NanosPerMilli \in Int /\ NanosPerSecond - 1 \in Int
  BY SMT DEF NanosPerMilli, NanosPerSecond
<1>3. r * NanosPerMilli >= 0 /\ r * NanosPerMilli <= NanosPerSecond - 1
  BY <1>1, SMT DEF NanosPerMilli, NanosPerSecond
<1>4. (r * NanosPerMilli) \div NanosPerMilli = r
  BY <1>1, SMT DEF NanosPerMilli
<1>. QED
  BY <1>2, <1>3, <1>4, SMT

\* A time in milliseconds, as seconds and nanoseconds and back.
LEMMA TimeAndBack ==
  ASSUME NEW sum \in Nat
  PROVE  \E sec \in Nat, nsec \in 0..(NanosPerSecond - 1), milli \in Nat :
           /\ sec = sum \div MillisPerSecond
           /\ nsec = (sum % MillisPerSecond) * NanosPerMilli
           /\ milli = nsec \div NanosPerMilli
           /\ sec * MillisPerSecond + milli = sum
<1>1. PICK r \in 0..999 : r = sum % MillisPerSecond
  BY SecondsAndRest
<1>2. PICK sec \in Nat : sec = sum \div MillisPerSecond
  BY SecondsAndRest
<1>3. sec * MillisPerSecond + r = sum /\ r \in Nat
  <2>1. r \in Nat
    OBVIOUS
  <2>. QED
    BY <2>1, <1>1, <1>2, SecondsAndRest, Zenon
<1>4. PICK nsec \in 0..(NanosPerSecond - 1) : nsec = r * NanosPerMilli
  BY NanosOfRest
<1>5. r = nsec \div NanosPerMilli
  BY <1>4, NanosOfRest
<1>. QED
  BY <1>1, <1>2, <1>3, <1>4, <1>5

\* getTimeoutEx() computes the deadline asked for, in the form pthread_cond_timedwait() accepts,
\* for every reading of the clock and every timeout.
LEMMA DeadlineCorrect == DeadlineRight
<1>1. ASSUME NEW usec \in Micros, NEW timer \in Timeouts
      PROVE  /\ Deadline(0, usec, timer).tv_nsec \in 0..(NanosPerSecond - 1)
             /\ (Deadline(0, usec, timer).tv_sec * MillisPerSecond)
                + (Deadline(0, usec, timer).tv_nsec \div NanosPerMilli) - (usec \div MicrosPerMilli) = timer
  <2>1. usec \in Nat /\ timer \in Nat
    BY CondConstants
  <2>2. PICK ms \in Nat : ms = usec \div MicrosPerMilli
    BY <2>1, MillisOfClock
  <2>3. PICK sum \in Nat : sum = timer + ms
    BY <2>1, <2>2
  <2>4. PICK sec \in Nat, nsec \in 0..(NanosPerSecond - 1), milli \in Nat :
          /\ sec = sum \div MillisPerSecond
          /\ nsec = (sum % MillisPerSecond) * NanosPerMilli
          /\ milli = nsec \div NanosPerMilli
          /\ sec * MillisPerSecond + milli = sum
    BY TimeAndBack
  <2>5. (usec \div MicrosPerMilli) + timer = sum /\ timer + (usec \div MicrosPerMilli) = sum
    BY <2>1, <2>2, <2>3
  <2>6. Deadline(0, usec, timer).tv_sec = 0 + sec /\ Deadline(0, usec, timer).tv_nsec = nsec
    BY <2>4, <2>5, Zenon DEF Deadline
  <2>7. (0 + sec) * MillisPerSecond + milli - ms = timer
    BY <2>1, <2>3, <2>4, SMT DEF MillisPerSecond
  <2>. QED
    BY <2>2, <2>4, <2>6, <2>7, Zenon
<1>. QED
  BY <1>1, Zenon DEF DeadlineRight

-----------------------------------------------------------------------------
\* The threads inside wait() after a step that sends t to sleep.
LEMMA AskingGrows ==
  ASSUME state \in [Threads -> {"out", "held", "cond"}], NEW t \in Threads,
         state' = [state EXCEPT ![t] = "cond"]
  PROVE  Asking' = Asking \cup {t}
  BY DEF Asking

\* The threads inside wait() after a step in which t leaves it, or takes or leaves the mutex.
LEMMA AskingShrinks ==
  ASSUME state \in [Threads -> {"out", "held", "cond"}], NEW t \in Threads,
         NEW s \in {"out", "held"}, state' = [state EXCEPT ![t] = s]
  PROVE  Asking' = Asking \ {t}
  BY DEF Asking

\* The queue before the queue after: a signal takes one thread of a queue that has one, a
\* broadcast takes all.
LEMMA WokenOnes ==
  ASSUME NEW b \in BOOLEAN, NEW w \in Woken(b)
  PROVE  /\ w \subseteq waiting
         /\ waiting = {} => w = {}
         /\ waiting # {} /\ ~b => \E t \in waiting : w = {t}
  BY DEF Woken

\* Init establishes the invariant.
LEMMA CondInitInv == CondInit => CondInv
<1>. SUFFICES ASSUME CondInit PROVE CondInv
  OBVIOUS
<1>1. Asking = {}
  BY DEF CondInit, Asking
<1>2. IsFiniteSet(Asking) /\ Cardinality(Asking) = 0
  BY <1>1, FS_EmptySet
<1>3. CondTypeOK
  BY CondConstants, <1>1 DEF CondInit, CondTypeOK
<1>4. MutexHeld
  BY CondConstants DEF CondInit, MutexHeld
<1>5. OnlySignals /\ Counted
  BY <1>1, <1>2 DEF CondInit, OnlySignals, Counted
<1>. QED
  BY <1>2, <1>3, <1>4, <1>5 DEF CondInv

-----------------------------------------------------------------------------
(* The steps.  Each shows what becomes of the threads inside wait() and of the queue. *)

\* A step that leaves the queue, the waits and the three numbers alone, and the mutex in order.
LEMMA SameWaits ==
  ASSUME CondInv, CondTypeOK', MutexHeld', Asking' = Asking,
         UNCHANGED <<use, miDataCount, waiting, timed, verdict, posted, taken>>
  PROVE  CondInv'
<1>1. OnlySignals => OnlySignals'
  BY DEF OnlySignals
<1>2. Counted => Counted'
  BY DEF Counted
<1>. QED
  BY <1>1, <1>2 DEF CondInv

\* enterMutex() keeps the invariant.
LEMMA EnterMutexInv ==
  ASSUME CondInv, NEW t \in Threads, EnterMutex(t)
  PROVE  CondInv'
<1>1. CondTypeOK /\ MutexHeld
  BY DEF CondInv
<1>2. Asking' = Asking
  BY <1>1 DEF EnterMutex, CondTypeOK, Asking
<1>3. CondTypeOK'
  BY <1>1, <1>2 DEF EnterMutex, CondTypeOK
<1>4. MutexHeld'
  BY <1>1, CondConstants DEF EnterMutex, CondTypeOK, MutexHeld
<1>. QED
  BY <1>2, <1>3, <1>4, SameWaits DEF EnterMutex

\* leaveMutex() keeps the invariant.
LEMMA LeaveMutexInv ==
  ASSUME CondInv, NEW t \in Threads, LeaveMutex(t)
  PROVE  CondInv'
<1>1. CondTypeOK /\ MutexHeld
  BY DEF CondInv
<1>2. Asking' = Asking
  BY <1>1 DEF LeaveMutex, CondTypeOK, Asking
<1>3. CondTypeOK'
  BY <1>1, <1>2 DEF LeaveMutex, CondTypeOK
<1>4. MutexHeld'
  BY <1>1, CondConstants DEF LeaveMutex, CondTypeOK, MutexHeld
<1>. QED
  BY <1>2, <1>3, <1>4, SameWaits DEF LeaveMutex

\* signal() keeps the invariant: the count rises by one and the queue, if there is one, loses one
\* thread, so its length is the negated count until it is empty.
LEMMA SignalInv ==
  ASSUME CondInv, NEW t \in Threads,
         NEW b \in IF use = "items" THEN {FALSE} ELSE BOOLEAN, Signal(t, b)
  PROVE  CondInv'
<1>1. CondTypeOK /\ MutexHeld /\ IsFiniteSet(Asking)
  BY DEF CondInv
<1>2. PICK w \in Woken(b) :
        /\ waiting' = waiting \ w
        /\ verdict' = [u \in Threads |-> IF u \in w THEN "signal" ELSE verdict[u]]
  BY DEF Signal
<1>3. w \subseteq waiting /\ (waiting = {} => w = {}) /\ (waiting # {} /\ ~b => \E u \in waiting : w = {u})
  BY WokenOnes
<1>4. Asking' = Asking /\ UNCHANGED <<use, owner, state, timed, locked, asked, taken>>
  BY DEF Signal, Asking
<1>5. posted' = posted + 1 /\ miDataCount' = miDataCount + 1 /\ posted < MaxSignals
  BY DEF Signal
<1>6. CondTypeOK'
  <2>1. verdict' \in [Threads -> {"none", "signal", "spurious", "timeout"}]
    BY <1>1, <1>2 DEF CondTypeOK
  <2>2. waiting' \subseteq Asking'
    BY <1>1, <1>2, <1>4 DEF CondTypeOK
  <2>3. posted' \in 0..MaxSignals /\ miDataCount' \in Int
    BY <1>1, <1>5, CondConstants DEF CondTypeOK
  <2>. QED
    BY <1>1, <1>4, <2>1, <2>2, <2>3 DEF CondTypeOK
<1>7. MutexHeld'
  BY <1>1, <1>4 DEF MutexHeld
<1>8. ASSUME use = "items" PROVE OnlySignals' /\ Counted'
  <2>1. OnlySignals /\ Counted /\ ~b
    BY <1>8 DEF CondInv
  <2>2. waiting \subseteq Asking /\ IsFiniteSet(waiting)
    BY <1>1, FS_Subset DEF CondTypeOK
  <2>3. Asking \subseteq Threads
    BY DEF Asking
  <2>4. OnlySignals'
    BY <2>1, <2>3, <1>2, <1>3, <1>4 DEF OnlySignals
  <2>5. Cardinality(Asking) \in Nat /\ Cardinality(waiting) \in Nat
    BY <1>1, <2>2, FS_CardinalityType
  <2>6. waiting = {} => waiting' = {}
    BY <1>2
  <2>7. waiting # {} => Cardinality(waiting') = Cardinality(waiting) - 1 /\ IsFiniteSet(waiting')
    BY <1>2, <1>3, <2>1, <2>2, FS_RemoveElement
  <2>8. IsFiniteSet(waiting') /\ (Cardinality(waiting') = 0 <=> waiting' = {})
    BY <2>6, <2>7, FS_EmptySet
  <2>9. Counted'
    BY <2>1, <2>5, <2>6, <2>7, <2>8, <1>1, <1>4, <1>5 DEF Counted, CondTypeOK
  <2>. QED
    BY <2>4, <2>9
<1>. QED
  BY <1>1, <1>4, <1>6, <1>7, <1>8 DEF CondInv

\* A caller of wait() is not inside wait(), and either holds the mutex or finds it free.
LEMMA CallerOutside ==
  ASSUME CondTypeOK, MutexHeld, NEW t \in Threads, NEW l \in BOOLEAN, MayCall(t, l)
  PROVE  t \notin Asking /\ t \notin waiting /\ \A u \in Threads \ {t} : state[u] # "held"
  BY CondConstants DEF CondTypeOK, MutexHeld, MayCall, Asking

\* A thread that goes to sleep gives the mutex up and joins the queue.
LEMMA SleepKeeps ==
  ASSUME CondTypeOK, MutexHeld, NEW t \in Threads, NEW l \in BOOLEAN, NEW d \in BOOLEAN,
         MayCall(t, l), asked < MaxWaits, asked' = asked + 1, miDataCount' \in Int, Sleep(t, l, d)
  PROVE  CondTypeOK' /\ MutexHeld' /\ Asking' = Asking \cup {t} /\ waiting' = waiting \cup {t}
<1>1. Asking' = Asking \cup {t} /\ waiting' = waiting \cup {t}
  BY AskingGrows DEF Sleep, CondTypeOK
<1>2. CondTypeOK'
  <2>1. asked' \in 0..MaxWaits
    BY CondConstants DEF CondTypeOK
  <2>. QED
    BY <1>1, <2>1 DEF Sleep, CondTypeOK
<1>3. MutexHeld'
  BY CallerOutside, CondConstants DEF Sleep, CondTypeOK, MutexHeld
<1>. QED
  BY <1>1, <1>2, <1>3

\* wait() without a timeout keeps the invariant: it sleeps on a count that is not positive, which
\* then is the negated length of the queue, itself included.
LEMMA WaitInv ==
  ASSUME CondInv, NEW t \in Threads, NEW l \in BOOLEAN, Wait(t, l)
  PROVE  CondInv'
<1>1. CondTypeOK /\ MutexHeld /\ IsFiniteSet(Asking)
  BY DEF CondInv
<1>2. t \notin Asking /\ t \notin waiting
  BY <1>1, CallerOutside DEF Wait
<1>3. IsFiniteSet(waiting) /\ Cardinality(waiting) \in Nat /\ Cardinality(Asking) \in Nat
  BY <1>1, FS_Subset, FS_CardinalityType DEF CondTypeOK
<1>4. use = "items" => OnlySignals /\ Counted
  BY DEF CondInv
<1>5. miDataCount' = miDataCount - 1 /\ miDataCount' \in Int /\ asked' = asked + 1 /\ asked < MaxWaits
  BY <1>1 DEF Wait, CondTypeOK
<1>6. CASE miDataCount <= 0
  <2>1. Sleep(t, l, FALSE)
    BY <1>6 DEF Wait
  <2>2. CondTypeOK' /\ MutexHeld' /\ Asking' = Asking \cup {t} /\ waiting' = waiting \cup {t}
    BY <1>1, <1>5, <2>1, SleepKeeps DEF Wait
  <2>3. IsFiniteSet(Asking') /\ Cardinality(Asking') = Cardinality(Asking) + 1
    BY <1>1, <1>2, <2>2, FS_AddElement
  <2>4. Cardinality(waiting') = Cardinality(waiting) + 1 /\ waiting' # {}
    BY <1>2, <1>3, <2>2, FS_AddElement
  <2>5. ASSUME use = "items" PROVE OnlySignals' /\ Counted'
    <3>1. OnlySignals'
      BY <1>1, <1>4, <2>1, <2>2, <2>5 DEF Sleep, OnlySignals, CondTypeOK, Asking
    <3>2. UNCHANGED <<posted, taken>>
      BY <2>1 DEF Sleep
    <3>3. Cardinality(waiting) = 0 <=> waiting = {}
      BY <1>3, FS_EmptySet
    <3>4. Counted'
      BY <1>1, <1>3, <1>4, <1>5, <1>6, <2>3, <2>4, <2>5, <3>2, <3>3 DEF Counted, CondTypeOK
    <3>. QED
      BY <3>1, <3>4
  <2>. QED
    BY <2>1, <2>2, <2>3, <2>5 DEF CondInv, Sleep
<1>7. CASE miDataCount > 0
  <2>1. taken' = taken + 1 /\ UNCHANGED <<use, owner, waiting, state, timed, locked, verdict, posted>>
    <3>1. ~(miDataCount <= 0)
      BY <1>1, <1>7 DEF CondTypeOK
    <3>. QED
      BY <3>1, Zenon DEF Wait
  <2>2. Asking' = Asking
    BY <2>1 DEF Asking
  <2>3. CondTypeOK'
    <3>1. asked' \in 0..MaxWaits /\ taken' \in Nat
      BY <1>1, <1>5, <2>1, CondConstants DEF CondTypeOK
    <3>. QED
      BY <1>1, <1>5, <2>1, <2>2, <3>1 DEF CondTypeOK
  <2>4. MutexHeld'
    BY <1>1, <2>1 DEF MutexHeld
  <2>5. ASSUME use = "items" PROVE OnlySignals' /\ Counted'
    <3>1. OnlySignals'
      BY <1>4, <2>1, <2>2, <2>5 DEF OnlySignals
    <3>2. waiting = {}
      BY <1>1, <1>3, <1>4, <1>7, <2>5 DEF Counted, CondTypeOK
    <3>3. Counted'
      BY <1>1, <1>3, <1>4, <1>5, <1>7, <2>1, <2>2, <2>5, <3>2 DEF Counted, CondTypeOK
    <3>. QED
      BY <3>1, <3>3
  <2>. QED
    BY <1>1, <2>1, <2>2, <2>3, <2>4, <2>5 DEF CondInv
<1>. QED
  BY <1>1, <1>6, <1>7 DEF CondTypeOK

\* wait() with a timeout keeps the invariant; a Conditional used for items has no such call.
LEMMA WaitTimedInv ==
  ASSUME CondInv, NEW t \in Threads, NEW l \in BOOLEAN, WaitTimed(t, l)
  PROVE  CondInv'
<1>1. CondTypeOK /\ MutexHeld /\ IsFiniteSet(Asking)
  BY DEF CondInv
<1>2. CondTypeOK' /\ MutexHeld' /\ Asking' = Asking \cup {t}
  BY <1>1, SleepKeeps DEF WaitTimed, CondTypeOK
<1>3. IsFiniteSet(Asking')
  BY <1>1, <1>2, FS_AddElement
<1>4. use' = "any"
  BY DEF WaitTimed, Sleep
<1>. QED
  BY <1>2, <1>3, <1>4 DEF CondInv

\* A wake-up nobody signalled keeps the invariant; used for items there is none.
LEMMA WakeUnsignalledInv ==
  ASSUME CondInv, NEW t \in Threads, WakeUnsignalled(t)
  PROVE  CondInv'
<1>1. CondTypeOK /\ MutexHeld /\ IsFiniteSet(Asking)
  BY DEF CondInv
<1>2. use # "items"
  BY DEF WakeUnsignalled, CondInv, OnlySignals, CondTypeOK
<1>3. Asking' = Asking /\ UNCHANGED <<use, owner, state>>
  BY DEF WakeUnsignalled, Asking
<1>4. CondTypeOK'
  BY <1>1, <1>3 DEF WakeUnsignalled, CondTypeOK
<1>5. MutexHeld'
  BY <1>1, <1>3 DEF MutexHeld
<1>. QED
  BY <1>1, <1>2, <1>3, <1>4, <1>5 DEF CondInv

\* The return from wait() keeps the invariant: the thread takes the mutex if its caller had it,
\* and one item, but neither count nor queue.
LEMMA ReturnInv ==
  ASSUME CondInv, NEW t \in Threads, Return(t)
  PROVE  CondInv'
<1>1. CondTypeOK /\ MutexHeld /\ IsFiniteSet(Asking)
  BY DEF CondInv
<1>2. Asking' = Asking \ {t} /\ t \in Asking /\ t \notin waiting
  BY <1>1, AskingShrinks DEF Return, CondTypeOK, Asking
<1>3. IsFiniteSet(Asking') /\ Cardinality(Asking') = Cardinality(Asking) - 1
  BY <1>1, <1>2, FS_RemoveElement
<1>4. UNCHANGED <<use, miDataCount, waiting, posted, asked>>
  BY DEF Return
<1>5. CondTypeOK'
  <2>1. taken' \in Nat /\ owner' \in Threads \cup {NoThread}
    BY <1>1 DEF Return, CondTypeOK
  <2>2. waiting' \subseteq Asking'
    BY <1>1, <1>2, <1>4 DEF CondTypeOK
  <2>3. /\ state' \in [Threads -> {"out", "held", "cond"}]
        /\ timed' \in [Threads -> BOOLEAN] /\ locked' \in [Threads -> BOOLEAN]
        /\ verdict' \in [Threads -> {"none", "signal", "spurious", "timeout"}]
    BY <1>1 DEF Return, Forget, CondTypeOK
  <2>. QED
    BY <1>1, <1>4, <2>1, <2>2, <2>3 DEF CondTypeOK
<1>6. MutexHeld'
  BY <1>1, CondConstants DEF Return, CondTypeOK, MutexHeld
<1>7. ASSUME use = "items" PROVE OnlySignals' /\ Counted'
  <2>1. OnlySignals /\ Counted
    BY <1>7 DEF CondInv
  <2>2. Asking \subseteq Threads
    BY DEF Asking
  <2>3. \A u \in Asking' : timed'[u] = timed[u] /\ verdict'[u] = verdict[u]
    BY <1>1, <1>2, <2>2 DEF Return, Forget, CondTypeOK
  <2>4. OnlySignals'
    BY <1>2, <1>4, <2>1, <2>3 DEF OnlySignals
  <2>5. taken' = taken + 1
    BY <1>2, <2>1 DEF Return, OnlySignals
  <2>6. Cardinality(Asking) \in Nat
    BY <1>1, FS_CardinalityType
  <2>7. Counted'
    <3>1. posted' - taken' = miDataCount' + Cardinality(Asking')
      <4>1. posted' = posted /\ miDataCount' = miDataCount
        BY <1>4
      <4>2. posted \in Int /\ taken \in Int /\ miDataCount \in Int
        BY <1>1 DEF CondTypeOK
      <4>. QED
        BY <1>3, <2>1, <2>5, <2>6, <4>1, <4>2 DEF Counted
    <3>. QED
      BY <1>4, <2>1, <3>1 DEF Counted
  <2>. QED
    BY <2>4, <2>7
<1>. QED
  BY <1>3, <1>4, <1>5, <1>6, <1>7 DEF CondInv

\* Every step keeps the invariant.
LEMMA CondNextInv == CondInv /\ [CondNext]_condVars => CondInv'
<1>. SUFFICES ASSUME CondInv, [CondNext]_condVars PROVE CondInv'
  OBVIOUS
<1>1. ASSUME NEW t \in Threads,
             EnterMutex(t) \/ LeaveMutex(t) \/ Return(t) \/ WakeUnsignalled(t)
      PROVE  CondInv'
  BY <1>1, EnterMutexInv, LeaveMutexInv, ReturnInv, WakeUnsignalledInv
<1>2. ASSUME NEW t \in Threads, NEW b \in IF use = "items" THEN {FALSE} ELSE BOOLEAN, Signal(t, b)
      PROVE  CondInv'
  BY <1>2, SignalInv
<1>3. ASSUME NEW t \in Threads, NEW l \in BOOLEAN, Wait(t, l) \/ WaitTimed(t, l)
      PROVE  CondInv'
  BY <1>3, WaitInv, WaitTimedInv
<1>4. CASE UNCHANGED condVars
  <2>1. Asking' = Asking /\ CondTypeOK' /\ MutexHeld'
    BY <1>4 DEF condVars, CondInv, CondTypeOK, MutexHeld, Asking
  <2>. QED
    BY <1>4, <2>1, SameWaits DEF condVars
<1>. QED
  BY <1>1, <1>2, <1>3, <1>4 DEF CondNext

\* The inductive invariant holds in every reachable state.
THEOREM CondInvariance == CondSpec => []CondInv
<1>1. CondInit => CondInv
  BY CondInitInv
<1>2. CondInv /\ [CondNext]_condVars => CondInv'
  BY CondNextInv
<1>. QED
  BY <1>1, <1>2, PTL DEF CondSpec

-----------------------------------------------------------------------------
(* What follows from it. *)

\* Used for items: there are as many permits left as the count says, and one for every thread that
\* left the queue and has not returned.
LEMMA PermitsLeft ==
  ASSUME CondInv, use = "items"
  PROVE  /\ IsFiniteSet(Woke("signal")) /\ Asking \ waiting = Woke("signal")
         /\ waiting # {} => posted - taken = Cardinality(Woke("signal"))
         /\ waiting = {} => posted - taken = miDataCount + Cardinality(Woke("signal"))
<1>1. CondTypeOK /\ IsFiniteSet(Asking) /\ OnlySignals /\ Counted
  BY DEF CondInv
<1>2. Asking \ waiting = Woke("signal")
  BY <1>1 DEF OnlySignals, Woke
<1>3. waiting \subseteq Asking /\ IsFiniteSet(waiting)
  BY <1>1, FS_Subset DEF CondTypeOK
<1>4. /\ IsFiniteSet(Woke("signal"))
      /\ Cardinality(Woke("signal")) = Cardinality(Asking) - Cardinality(Asking \cap waiting)
  BY <1>1, <1>2, FS_Difference
<1>5. Asking \cap waiting = waiting
  BY <1>3
<1>6. Cardinality(Woke("signal")) = Cardinality(Asking) - Cardinality(waiting)
  BY <1>4, <1>5, Zenon
<1>7. Cardinality(Asking) \in Nat /\ Cardinality(waiting) \in Nat
  BY <1>1, <1>3, FS_CardinalityType
<1>8. waiting = {} => Cardinality(waiting) = 0
  BY FS_EmptySet
<1>9. posted - taken = miDataCount + Cardinality(Asking) /\ posted - taken \in Int
  BY <1>1 DEF Counted, CondTypeOK
<1>10. miDataCount \in Int /\ (waiting # {} => miDataCount = -Cardinality(waiting))
  BY <1>1 DEF Counted, CondTypeOK
<1>11. waiting # {} => posted - taken = Cardinality(Woke("signal"))
  BY <1>7, <1>6, <1>9, <1>10
<1>12. waiting = {} => posted - taken = miDataCount + Cardinality(Woke("signal"))
  BY <1>7, <1>8, <1>6, <1>9, <1>10
<1>. QED
  BY <1>2, <1>4, <1>11, <1>12

\* The mutex is held exactly by the thread between its calls with it, no signal sleeps while a
\* thread does, and every deadline is the one asked for.
THEOREM Safety == CondSpec => []ConditionalSafe
<1>1. CondInv => ConditionalSafe
  <2>1. CondInv => NoSignalSleeps
    <3>. SUFFICES ASSUME CondInv, use = "items", waiting # {}
                  PROVE  posted - taken <= Cardinality(Woke("signal"))
      BY DEF NoSignalSleeps
    <3>1. posted - taken = Cardinality(Woke("signal")) /\ Cardinality(Woke("signal")) \in Nat
      BY PermitsLeft, FS_CardinalityType
    <3>. QED
      BY <3>1
  <2>. QED
    BY <2>1, DeadlineCorrect DEF CondInv, ConditionalSafe
<1>. QED
  BY <1>1, CondInvariance, PTL

-----------------------------------------------------------------------------
(* A Conditional used for items is a counting semaphore: every step is a   *)
(* step of Semaphore, or leaves permits and asking alone.                  *)

\* What a step that is not used for items, or concerns the mutex alone, leaves of the semaphore.
LEMMA SemStutter ==
  ASSUME use' = use, use = "items" => UNCHANGED <<posted, taken>> /\ Asking' = Asking
  PROVE  UNCHANGED <<IF use = "items" THEN posted - taken ELSE 0,
                     IF use = "items" THEN Asking ELSE {}>>
  OBVIOUS

\* signal() posts a permit.
LEMMA SignalPosts ==
  ASSUME CondInv, NEW t \in Threads, NEW b \in BOOLEAN, Signal(t, b), use = "items"
  PROVE  Sem!Post
<1>1. posted' = posted + 1 /\ taken' = taken /\ use' = use /\ Asking' = Asking
  BY DEF Signal, Asking
<1>2. posted \in Int /\ taken \in Int
  BY DEF CondInv, CondTypeOK
<1>. QED
  BY <1>1, <1>2 DEF Sem!Post

\* wait() either joins the threads that ask or takes a permit at once, and then there is one.
LEMMA WaitAsksOrTakes ==
  ASSUME CondInv, NEW t \in Threads, NEW l \in BOOLEAN, Wait(t, l), use = "items"
  PROVE  Sem!Ask(t) \/ Sem!TakeAtOnce(t)
<1>1. CondTypeOK /\ MutexHeld /\ use' = use
  BY DEF CondInv, Wait, Sleep
<1>2. t \notin Asking
  BY <1>1, CallerOutside DEF Wait
<1>3. CASE miDataCount <= 0
  <2>1. Sleep(t, l, FALSE)
    BY <1>3 DEF Wait
  <2>2. Asking' = Asking \cup {t}
    BY <1>1, <2>1, AskingGrows DEF Sleep, CondTypeOK
  <2>. QED
    BY <1>1, <1>2, <2>1, <2>2 DEF Sleep, Sem!Ask
<1>4. CASE miDataCount > 0
  <2>1. ~(miDataCount <= 0)
    BY <1>1, <1>4 DEF CondTypeOK
  <2>2. taken' = taken + 1 /\ posted' = posted /\ state' = state
    BY <2>1, Zenon DEF Wait
  <2>3. Asking' = Asking
    BY <2>2 DEF Asking
  <2>4. posted - taken > 0
    <3>1. posted - taken = miDataCount + Cardinality(Asking) /\ IsFiniteSet(Asking)
      BY DEF CondInv, Counted
    <3>2. Cardinality(Asking) \in Nat
      BY <3>1, FS_CardinalityType
    <3>. QED
      BY <1>1, <1>4, <3>1, <3>2 DEF CondTypeOK
  <2>5. posted' - taken' = (posted - taken) - 1
    BY <1>1, <2>2 DEF CondTypeOK
  <2>. QED
    BY <1>1, <1>2, <2>3, <2>4, <2>5 DEF Sem!TakeAtOnce
<1>. QED
  BY <1>1, <1>3, <1>4 DEF CondTypeOK

\* A return from wait() takes a permit, and there is one: the signal that woke the thread is still
\* there, whoever ran in between.
LEMMA ReturnTakes ==
  ASSUME CondInv, NEW t \in Threads, Return(t), use = "items"
  PROVE  Sem!Take(t)
<1>1. CondTypeOK /\ OnlySignals /\ use' = use /\ posted' = posted
  BY DEF CondInv, Return
<1>2. Asking' = Asking \ {t} /\ t \in Asking /\ t \notin waiting
  BY <1>1, AskingShrinks DEF Return, CondTypeOK, Asking
<1>3. verdict[t] = "signal" /\ taken' = taken + 1
  BY <1>1, <1>2 DEF OnlySignals, Return
<1>4. posted - taken > 0
  <2>1. t \in Woke("signal") /\ IsFiniteSet(Woke("signal"))
    BY <1>2, PermitsLeft
  <2>2. Cardinality(Woke("signal")) \in Nat /\ Cardinality(Woke("signal")) # 0
    BY <2>1, FS_CardinalityType, FS_EmptySet
  <2>3. Counted
    BY DEF CondInv
  <2>. QED
    BY <1>1, <2>2, <2>3, PermitsLeft DEF Counted, CondTypeOK
<1>5. posted' - taken' = (posted - taken) - 1
  BY <1>1, <1>3 DEF CondTypeOK
<1>. QED
  BY <1>1, <1>2, <1>4, <1>5 DEF Sem!Take

\* Used for items, Conditional implements the counting semaphore.
THEOREM ImplementsSemaphore == CondSpec => SemaphoreSpec
<1>1. CondInit => Sem!SemInit
  BY DEF CondInit, Sem!SemInit, Asking
<1>2. CondInv /\ [CondNext]_condVars
        => [Sem!SemNext]_<<IF use = "items" THEN posted - taken ELSE 0,
                           IF use = "items" THEN Asking ELSE {}>>
  <2>. SUFFICES ASSUME CondInv, [CondNext]_condVars
                PROVE  \/ Sem!SemNext
                       \/ UNCHANGED <<IF use = "items" THEN posted - taken ELSE 0,
                                      IF use = "items" THEN Asking ELSE {}>>
    OBVIOUS
  <2>1. ASSUME NEW t \in Threads, EnterMutex(t) \/ LeaveMutex(t)
        PROVE  Asking' = Asking /\ UNCHANGED <<use, posted, taken>>
    BY <2>1 DEF EnterMutex, LeaveMutex, Asking, CondInv, CondTypeOK
  <2>2. ASSUME NEW t \in Threads, WakeUnsignalled(t)
        PROVE  Asking' = Asking /\ UNCHANGED <<use, posted, taken>>
    BY <2>2 DEF WakeUnsignalled, Asking
  <2>3. ASSUME NEW t \in Threads, Return(t)
        PROVE  use' = use /\ (use = "items" => Sem!SemNext)
    BY <2>3, ReturnTakes DEF Sem!SemNext, Return
  <2>4. ASSUME NEW t \in Threads, NEW b \in IF use = "items" THEN {FALSE} ELSE BOOLEAN, Signal(t, b)
        PROVE  use' = use /\ (use = "items" => Sem!SemNext)
    BY <2>4, SignalPosts DEF Sem!SemNext, Signal
  <2>5. ASSUME NEW t \in Threads, NEW l \in BOOLEAN, Wait(t, l)
        PROVE  use' = use /\ (use = "items" => Sem!SemNext)
    BY <2>5, WaitAsksOrTakes DEF Sem!SemNext, Wait, Sleep
  <2>6. ASSUME NEW t \in Threads, NEW l \in BOOLEAN, WaitTimed(t, l)
        PROVE  use' = use /\ use # "items"
    BY <2>6 DEF WaitTimed, Sleep
  <2>7. ASSUME UNCHANGED condVars
        PROVE  Asking' = Asking /\ UNCHANGED <<use, posted, taken>>
    BY <2>7 DEF condVars, Asking
  <2>. QED
    BY <2>1, <2>2, <2>3, <2>4, <2>5, <2>6, <2>7, SemStutter DEF CondNext
<1>. QED
  BY <1>1, <1>2, CondInvariance, PTL DEF CondSpec, SemaphoreSpec, Sem!SemSpec

-----------------------------------------------------------------------------
(* DebugTrace: the log, debugtrace.cpp *)

\* What is printed into the buffer, a line of a file and the name of a file.
Printed == [by : Tracers, part : Nat]
Line == [by : Tracers, text : Seq(Printed), at : Nat]
FileName == [pre : LogNames, minute : Nat, len : Nat]

\* Types.
TraceTypes ==
  /\ LogTypeOK
  /\ left \in [Tracers -> Seq([part : Nat, size : Nat])]
  /\ mszPrintBuff \in Seq(Printed)
  /\ mszLogFileName \in FileName \cup {NoFile}
  /\ lfpTraceFile \in FileName \cup {NoFile}
  /\ DOMAIN disk \subseteq FileName
  /\ disk \in [DOMAIN disk -> Seq(Line)]
  /\ meant \in Seq(Tracers)

\* A thread is in the midst of a line exactly if it has the section.
InSection == \A t \in Tracers : tracing[t] # "out" <=> moCriticalSection = t

\* The parts a thread has still to print are in the order of its arguments.
PartsInOrder == \A t \in Tracers : \A i, j \in 1..Len(left[t]) :
  i < j => left[t][i].part < left[t][j].part

\* What the buffer holds while a thread prints is of that thread, in order, and comes before what it
\* has still to print.
BufferOfOne == \A t \in Tracers : tracing[t] \in {"parts", "ended"} =>
  /\ \A k \in 1..Len(mszPrintBuff) : mszPrintBuff[k].by = t
  /\ \A k \in 2..Len(mszPrintBuff) : mszPrintBuff[k - 1].part < mszPrintBuff[k].part
  /\ \A k \in 1..Len(mszPrintBuff) : \A i \in 1..Len(left[t]) : mszPrintBuff[k].part < left[t][i].part

\* NoLineLost counts finite sets.
FinitelyMany == \A t \in Tracers : IsFiniteSet(LinesBy(t))

\* The inductive invariant.
TraceInv ==
  /\ TraceTypes /\ InSection /\ PartsInOrder /\ BufferOfOne
  /\ OneSpeaker /\ FinitelyMany /\ NoLineLost /\ GrowsWithinItsMinute

-----------------------------------------------------------------------------
\* The parts of a line are numbered from 1.
LEMMA PartsType ==
  ASSUME NEW line \in Lines
  PROVE  /\ Parts(line) \in Seq([part : Nat, size : Nat])
         /\ \A i \in 1..Len(Parts(line)) : Parts(line)[i].part = i
<1>1. line \in Seq(Nat) /\ Len(line) \in Nat
  BY DebugTraceAssumption, LenProperties
<1>2. \A i \in 1..Len(line) + 1 : Append(line, 1)[i] \in Nat
  <2>1. Append(line, 1) \in Seq(Nat) /\ Len(Append(line, 1)) = Len(line) + 1
    BY <1>1, AppendProperties
  <2>. QED
    BY <1>1, <2>1, ElementOfSeq
<1>3. Parts(line) \in [1..Len(line) + 1 -> [part : Nat, size : Nat]]
  BY <1>1, <1>2 DEF Parts
<1>4. Parts(line) \in Seq([part : Nat, size : Nat]) /\ Len(Parts(line)) = Len(line) + 1
  <2>1. Len(line) + 1 \in Nat
    BY <1>1
  <2>2. Parts(line) \in Seq([part : Nat, size : Nat])
    BY <1>3, <2>1, SeqDef, Zenon
  <2>3. DOMAIN Parts(line) = 1..Len(line) + 1
    BY DEF Parts
  <2>. QED
    BY <2>1, <2>2, <2>3, LenProperties
<1>. QED
  BY <1>1, <1>4 DEF Parts

\* The name that is made of a known prefix.
LEMMA NamedType ==
  ASSUME TraceTypes, NEW pre \in LogNames
  PROVE  Named(pre) \in FileName /\ Named(pre).minute = minute
<1>1. LogNameLen[pre] + DateLen \in Nat
  BY DebugTraceAssumption DEF DateLen
<1>2. mszLogFileName.len \in Nat /\ minute \in Nat
  BY DebugTraceAssumption DEF TraceTypes, LogTypeOK, FileName, NoFile
<1>. QED
  BY <1>1, <1>2 DEF Named, FileName

\* What a file holds, and nothing for one that does not exist.
LEMMA LinesType ==
  ASSUME TraceTypes, NEW opened
  PROVE  LinesOf(opened) \in Seq(Line)
  BY DEF TraceTypes, LinesOf

\* The places of the lines of a thread.
LEMMA LinesPlaces ==
  ASSUME NEW t, NEW p
  PROVE  p \in LinesBy(t) <=>
           \E f \in DOMAIN disk : \E i \in DOMAIN disk[f] : p = <<f, i>> /\ disk[f][i].by = t
  BY DEF LinesBy

\* Init establishes the invariant.
LEMMA TraceInitInv == TraceInit => TraceInv
<1>. SUFFICES ASSUME TraceInit PROVE TraceInv
  OBVIOUS
<1>. USE DEF TraceInit
<1>1. DOMAIN disk = {}
  OBVIOUS
<1>2. TraceTypes
  <2>1. disk \in [DOMAIN disk -> Seq(Line)]
    BY <1>1
  <2>. QED
    BY <1>1, <2>1, DebugTraceAssumption DEF TraceTypes, LogTypeOK
<1>3. InSection
  BY DebugTraceAssumption DEF InSection, NoTracer
<1>4. PartsInOrder /\ BufferOfOne
  BY DEF PartsInOrder, BufferOfOne
<1>5. OneSpeaker /\ GrowsWithinItsMinute
  BY <1>1 DEF OneSpeaker, GrowsWithinItsMinute
<1>6. \A t \in Tracers : LinesBy(t) = {} /\ {i \in DOMAIN meant : meant[i] = t} = {}
  BY <1>1 DEF LinesBy
<1>7. FinitelyMany /\ NoLineLost
  BY <1>6, FS_EmptySet DEF FinitelyMany, NoLineLost
<1>. QED
  BY <1>2, <1>3, <1>4, <1>5, <1>7 DEF TraceInv

\* EndTrace() writes no line, or one to the file it leaves open: a file that is not over the limit
\* yet, or one named by this minute.
LEMMA EndTraceWrites ==
  ASSUME TraceTypes, NEW t \in Tracers, NEW granted, NEW again, EndTrace(t, granted, again)
  PROVE  /\ mszLogFileName' \in FileName \cup {NoFile}
         /\ \/ UNCHANGED <<disk, meant>> /\ lfpTraceFile' \in {lfpTraceFile, NoFile}
            \/ /\ lfpTraceFile' \in FileName
               /\ Len(LinesOf(lfpTraceFile')) <= MaxFile \/ lfpTraceFile'.minute = minute
               /\ WriteLine(t, lfpTraceFile') /\ meant' = Append(meant, t)
<1>1. CASE ~("AppendToFile" \in muTraceOptions /\ mszLogFileName # NoFile)
  BY <1>1 DEF EndTrace, TraceTypes
<1>2. CASE "AppendToFile" \in muTraceOptions /\ mszLogFileName # NoFile
  <2>. DEFINE opened == IF lfpTraceFile = NoFile THEN Opened(mszLogFileName, granted) ELSE lfpTraceFile
              over == opened # NoFile /\ Len(LinesOf(opened)) > MaxFile
              name == IF over THEN Named(mszLogFileName.pre) ELSE mszLogFileName
              final == IF over THEN Opened(name, again) ELSE opened
  <2>1. mszLogFileName \in FileName /\ lfpTraceFile \in FileName \cup {NoFile}
    BY <1>2 DEF TraceTypes
  <2>2. Named(mszLogFileName.pre) \in FileName /\ Named(mszLogFileName.pre).minute = minute
    <3>1. mszLogFileName.pre \in LogNames
      BY <2>1 DEF FileName
    <3>. QED
      BY <3>1, NamedType
  <2>3. opened \in FileName \cup {NoFile} /\ name \in FileName
    BY <2>1, <2>2 DEF Opened
  <2>4. final \in FileName \cup {NoFile} /\ (final # NoFile /\ over => final.minute = minute)
    BY <2>2, <2>3 DEF Opened
  <2>5. final # NoFile => Len(LinesOf(final)) <= MaxFile \/ final.minute = minute
    <3>1. Len(LinesOf(opened)) \in Nat /\ MaxFile \in Nat
      BY LinesType, LenProperties, DebugTraceAssumption
    <3>2. ~over /\ opened # NoFile => Len(LinesOf(opened)) <= MaxFile
      BY <3>1
    <3>. QED
      BY <2>4, <3>2
  <2>6. /\ mszLogFileName' = name /\ lfpTraceFile' = final
        /\ IF final = NoFile
           THEN UNCHANGED <<disk, meant>>
           ELSE WriteLine(t, final) /\ meant' = Append(meant, t)
    BY <1>2 DEF EndTrace
  <2>. HIDE DEF opened, over, name, final
  <2>7. CASE final = NoFile
    BY <2>3, <2>6, <2>7
  <2>8. CASE final # NoFile
    BY <2>3, <2>4, <2>5, <2>6, <2>8
  <2>. QED
    BY <2>7, <2>8
<1>. QED
  BY <1>1, <1>2

\* Where a line goes that is written.
LEMMA WriteLineFacts ==
  ASSUME TraceTypes, NEW t \in Tracers, NEW f \in FileName, WriteLine(t, f)
  PROVE  /\ DOMAIN disk' = DOMAIN disk \cup {f}
         /\ disk'[f] = Append(LinesOf(f), [by |-> t, text |-> mszPrintBuff, at |-> minute])
         /\ \A g \in DOMAIN disk \ {f} : disk'[g] = disk[g]
         /\ \A g \in DOMAIN disk' : \A i \in 1..Len(disk'[g]) :
              \/ g \in DOMAIN disk /\ i \in 1..Len(disk[g]) /\ disk'[g][i] = disk[g][i]
              \/ /\ g = f /\ i = Len(LinesOf(f)) + 1
                 /\ disk'[g][i] = [by |-> t, text |-> mszPrintBuff, at |-> minute]
         /\ \A g \in DOMAIN disk : \A i \in 1..Len(disk[g]) :
              i \in 1..Len(disk'[g]) /\ disk'[g][i] = disk[g][i]
         /\ disk' \in [DOMAIN disk' -> Seq(Line)]
<1>. DEFINE line == [by |-> t, text |-> mszPrintBuff, at |-> minute]
<1>1. line \in Line
  BY DebugTraceAssumption DEF TraceTypes, LogTypeOK, Line
<1>2. LinesOf(f) \in Seq(Line) /\ Len(LinesOf(f)) \in Nat
  BY LinesType, LenProperties
<1>3. /\ Append(LinesOf(f), line) \in Seq(Line)
      /\ Len(Append(LinesOf(f), line)) = Len(LinesOf(f)) + 1
      /\ \A i \in 1..Len(LinesOf(f)) : Append(LinesOf(f), line)[i] = LinesOf(f)[i]
      /\ Append(LinesOf(f), line)[Len(LinesOf(f)) + 1] = line
  BY <1>1, <1>2, AppendProperties
<1>4. disk' = [g \in DOMAIN disk \cup {f} |-> IF g = f THEN Append(LinesOf(g), line) ELSE disk[g]]
  BY DEF WriteLine
<1>. HIDE DEF line
<1>5. /\ DOMAIN disk' = DOMAIN disk \cup {f}
      /\ disk'[f] = Append(LinesOf(f), line)
      /\ \A g \in DOMAIN disk \ {f} : disk'[g] = disk[g]
  BY <1>4
<1>6. \A g \in DOMAIN disk : disk[g] \in Seq(Line) /\ Len(disk[g]) \in Nat
  <2>1. \A g \in DOMAIN disk : disk[g] \in Seq(Line)
    BY DEF TraceTypes
  <2>. QED
    BY <2>1, LenProperties
<1>7. f \in DOMAIN disk => LinesOf(f) = disk[f]
  BY DEF LinesOf
<1>8. f \notin DOMAIN disk => LinesOf(f) = <<>>
  BY DEF LinesOf
<1>9. ASSUME NEW g \in DOMAIN disk', NEW i \in 1..Len(disk'[g])
      PROVE  \/ g \in DOMAIN disk /\ i \in 1..Len(disk[g]) /\ disk'[g][i] = disk[g][i]
             \/ g = f /\ i = Len(LinesOf(f)) + 1 /\ disk'[g][i] = line
  <2>1. CASE g # f
    BY <1>5, <2>1
  <2>2. CASE g = f
    <3>1. i \in 1..Len(LinesOf(f)) \/ i = Len(LinesOf(f)) + 1
      BY <1>2, <1>3, <1>5, <2>2
    <3>2. CASE i \in 1..Len(LinesOf(f))
      <4>1. f \in DOMAIN disk
        BY <1>8, <3>2
      <4>. QED
        BY <1>3, <1>5, <1>7, <2>2, <3>2, <4>1
    <3>3. CASE i = Len(LinesOf(f)) + 1
      BY <1>3, <1>5, <2>2, <3>3
    <3>. QED
      BY <3>1, <3>2, <3>3
  <2>. QED
    BY <2>1, <2>2
<1>10. ASSUME NEW g \in DOMAIN disk, NEW i \in 1..Len(disk[g])
       PROVE  i \in 1..Len(disk'[g]) /\ disk'[g][i] = disk[g][i]
  <2>1. CASE g # f
    BY <1>5, <2>1
  <2>2. CASE g = f
    BY <1>2, <1>3, <1>5, <1>7, <2>2
  <2>. QED
    BY <2>1, <2>2
<1>11. disk' \in [DOMAIN disk' -> Seq(Line)]
  BY <1>3, <1>4, <1>6
<1>12. line = [by |-> t, text |-> mszPrintBuff, at |-> minute]
  BY DEF line
<1>. QED
  BY <1>5, <1>9, <1>10, <1>11, <1>12

\* Types are kept.
LEMMA TraceTypesNext ==
  ASSUME TraceTypes, TraceNext
  PROVE  TraceTypes'
<1>. USE DEF TraceTypes, LogTypeOK
<1>1. ASSUME NEW t \in Tracers, NEW line \in Lines, TraceLock(t, line)
      PROVE  TraceTypes'
  BY <1>1, PartsType DEF TraceLock
<1>2. ASSUME NEW t \in Tracers, BeginTrace(t)
      PROVE  TraceTypes'
  BY <1>2, DebugTraceAssumption DEF BeginTrace
<1>3. ASSUME NEW t \in Tracers, PrintPart(t)
      PROVE  TraceTypes'
  <2>1. left[t] \in Seq([part : Nat, size : Nat]) /\ left[t] # <<>>
    BY <1>3 DEF PrintPart
  <2>2. Head(left[t]) \in [part : Nat, size : Nat] /\ Tail(left[t]) \in Seq([part : Nat, size : Nat])
    BY <2>1, HeadTailProperties
  <2>3. left' \in [Tracers -> Seq([part : Nat, size : Nat])]
    BY <1>3, <2>2 DEF PrintPart
  <2>4. mszPrintBuff' \in Seq(Printed) /\ mlDataLen' \in 0..MaxBuff
    <3>1. [by |-> t, part |-> Head(left[t]).part] \in Printed
      BY <2>2 DEF Printed
    <3>2. Append(mszPrintBuff, [by |-> t, part |-> Head(left[t]).part]) \in Seq(Printed)
      BY <3>1, AppendProperties
    <3>3. mlDataLen < MaxBuff - Head(left[t]).size => mlDataLen + Head(left[t]).size \in 0..MaxBuff
      <4>1. Head(left[t]).size \in Nat
        BY <2>2
      <4>2. MaxBuff \in Nat /\ mlDataLen \in 0..MaxBuff
        BY DebugTraceAssumption
      <4>3. \A a, b \in Nat : \A n \in 0..a : n < a - b => n + b \in 0..a
        OBVIOUS
      <4>. QED
        BY <4>1, <4>2, <4>3, Zenon
    <3>. QED
      BY <1>3, <3>2, <3>3 DEF PrintPart
  <2>. QED
    BY <1>3, <2>3, <2>4 DEF PrintPart
<1>4. ASSUME NEW t \in Tracers, TraceUnLock(t)
      PROVE  TraceTypes'
  BY <1>4 DEF TraceUnLock
<1>5. ASSUME NEW t \in Tracers, NEW granted, NEW again, EndTrace(t, granted, again)
      PROVE  TraceTypes'
  <2>1. /\ UNCHANGED <<moCriticalSection, left, mszPrintBuff, mlDataLen, muTraceOptions, minute, sets>>
        /\ tracing' = [tracing EXCEPT ![t] = "ended"]
    BY <1>5 DEF EndTrace
  <2>2. mszLogFileName' \in FileName \cup {NoFile}
    BY <1>5, EndTraceWrites
  <2>3. CASE UNCHANGED <<disk, meant>> /\ lfpTraceFile' \in {lfpTraceFile, NoFile}
    BY <2>1, <2>2, <2>3
  <2>4. CASE lfpTraceFile' \in FileName /\ WriteLine(t, lfpTraceFile') /\ meant' = Append(meant, t)
    <3>1. /\ DOMAIN disk' = DOMAIN disk \cup {lfpTraceFile'}
          /\ disk' \in [DOMAIN disk' -> Seq(Line)]
      BY <2>4, WriteLineFacts
    <3>2. meant' \in Seq(Tracers)
      BY <2>4, AppendProperties
    <3>. QED
      BY <2>1, <2>2, <2>4, <3>1, <3>2
  <2>. QED
    BY <1>5, <2>3, <2>4, EndTraceWrites
<1>6. ASSUME NEW pre \in LogNames, SetLogFileName(pre)
      PROVE  TraceTypes'
  BY <1>6, NamedType DEF SetLogFileName
<1>7. ASSUME NEW options \in SUBSET {"Timestamp", "AppendToFile"}, SetTraceOptions(options)
      PROVE  TraceTypes'
  BY <1>7 DEF SetTraceOptions
<1>8. ASSUME MinutePasses
      PROVE  TraceTypes'
  BY <1>8, DebugTraceAssumption DEF MinutePasses
<1>. QED
  BY <1>1, <1>2, <1>3, <1>4, <1>5, <1>6, <1>7, <1>8 DEF TraceNext

\* Who has the section, and what the buffer holds.
LEMMA SectionNext ==
  ASSUME TraceTypes, InSection, PartsInOrder, BufferOfOne, TraceNext
  PROVE  InSection' /\ PartsInOrder' /\ BufferOfOne'
<1>. USE DEF InSection, PartsInOrder, BufferOfOne
<1>1. tracing \in [Tracers -> {"out", "locked", "parts", "ended"}] /\ NoTracer \notin Tracers
  BY DebugTraceAssumption DEF TraceTypes, LogTypeOK, NoTracer
<1>2. ASSUME NEW t \in Tracers, NEW line \in Lines, TraceLock(t, line)
      PROVE  InSection' /\ PartsInOrder' /\ BufferOfOne'
  <2>1. left' = [left EXCEPT ![t] = Parts(line)] /\ left \in [Tracers -> Seq([part : Nat, size : Nat])]
    BY <1>2 DEF TraceLock, TraceTypes
  <2>2. \A i, j \in 1..Len(Parts(line)) : i < j => Parts(line)[i].part < Parts(line)[j].part
    BY PartsType
  <2>3. PartsInOrder'
    BY <2>1, <2>2
  <2>4. InSection'
    BY <1>1, <1>2 DEF TraceLock
  <2>5. \A u \in Tracers : tracing'[u] \notin {"parts", "ended"}
    BY <1>1, <1>2, <2>1 DEF TraceLock
  <2>. QED
    BY <2>3, <2>4, <2>5
<1>3. ASSUME NEW t \in Tracers, BeginTrace(t)
      PROVE  InSection' /\ PartsInOrder' /\ BufferOfOne'
  BY <1>1, <1>3 DEF BeginTrace
<1>4. ASSUME NEW t \in Tracers, PrintPart(t)
      PROVE  InSection' /\ PartsInOrder' /\ BufferOfOne'
  <2>1. left[t] \in Seq([part : Nat, size : Nat]) /\ left[t] # <<>>
    BY <1>4 DEF PrintPart, TraceTypes
  <2>2. /\ Head(left[t]) = left[t][1] /\ Len(left[t]) \in Nat /\ Len(left[t]) > 0
        /\ Len(Tail(left[t])) = Len(left[t]) - 1
        /\ \A i \in 1..Len(left[t]) - 1 : Tail(left[t])[i] = left[t][i + 1]
    BY <2>1
  <2>3. left' = [left EXCEPT ![t] = Tail(left[t])] /\ left \in [Tracers -> Seq([part : Nat, size : Nat])]
    BY <1>4 DEF PrintPart, TraceTypes
  <2>4. \A u \in Tracers : left'[u] = IF u = t THEN Tail(left[t]) ELSE left[u]
    BY <2>3
  <2>5. PartsInOrder'
    <3>1. \A i, j \in 1..Len(Tail(left[t])) : i < j => Tail(left[t])[i].part < Tail(left[t])[j].part
      <4>. TAKE i, j \in 1..Len(Tail(left[t]))
      <4>1. i + 1 \in 1..Len(left[t]) /\ j + 1 \in 1..Len(left[t]) /\ (i < j => i + 1 < j + 1)
        BY <2>2
      <4>. QED
        BY <2>2, <4>1
    <3>. QED
      BY <2>4, <3>1
  <2>6. InSection'
    BY <1>4 DEF PrintPart
  <2>7. \A u \in Tracers : tracing'[u] \in {"parts", "ended"} => u = t
    BY <1>1, <1>4 DEF PrintPart
  <2>8. CASE UNCHANGED mszPrintBuff
    <3>1. \A i \in 1..Len(Tail(left[t])) : i + 1 \in 1..Len(left[t])
      BY <2>2
    <3>2. \A k \in 1..Len(mszPrintBuff) : \A i \in 1..Len(Tail(left[t])) :
            mszPrintBuff[k].part < Tail(left[t])[i].part
      BY <1>4, <2>2, <3>1 DEF PrintPart
    <3>. QED
      BY <1>4, <2>4, <2>5, <2>6, <2>7, <2>8, <3>2 DEF PrintPart
  <2>9. CASE mszPrintBuff' = Append(mszPrintBuff, [by |-> t, part |-> Head(left[t]).part])
    <3>. DEFINE new == [by |-> t, part |-> Head(left[t]).part]
                n == Len(mszPrintBuff)
    <3>1. n \in Nat /\ mszPrintBuff \in Seq(Printed) /\ new.by = t /\ new.part = left[t][1].part
      BY <2>2, LenProperties DEF TraceTypes
    <3>2. /\ Len(mszPrintBuff') = n + 1 /\ mszPrintBuff'[n + 1] = new
          /\ \A k \in 1..n : mszPrintBuff'[k] = mszPrintBuff[k]
      BY <2>9, <3>1
    <3>. HIDE DEF new
    <3>3. \A k \in 1..n : mszPrintBuff[k].part < left[t][1].part
      BY <1>4, <2>2 DEF PrintPart
    <3>4. \A i \in 1..Len(Tail(left[t])) :
            i + 1 \in 1..Len(left[t]) /\ Tail(left[t])[i] = left[t][i + 1] /\ left[t][1].part < left[t][i + 1].part
      <4>1. \A i \in 1..Len(Tail(left[t])) : i + 1 \in 1..Len(left[t]) /\ 1 < i + 1 /\ 1 \in 1..Len(left[t])
        BY <2>2
      <4>. QED
        BY <2>2, <4>1
    <3>. HIDE DEF n
    <3>5. \A k \in 1..n + 1 : k \in 1..n \/ k = n + 1
      BY <3>1
    <3>6. \A k \in 1..n + 1 : mszPrintBuff'[k].by = t
      BY <1>4, <3>1, <3>2, <3>5 DEF PrintPart, n
    <3>7. \A k \in 2..n + 1 : mszPrintBuff'[k - 1].part < mszPrintBuff'[k].part
      <4>. TAKE k \in 2..n + 1
      <4>1. (k \in 2..n /\ k - 1 \in 1..n /\ k \in 1..n) \/ (k = n + 1 /\ k - 1 = n /\ n \in 1..n)
        BY <3>1
      <4>2. CASE k \in 2..n /\ k - 1 \in 1..n /\ k \in 1..n
        BY <1>4, <3>2, <4>2 DEF PrintPart, n
      <4>3. CASE k = n + 1 /\ k - 1 = n /\ n \in 1..n
        BY <3>1, <3>2, <3>3, <4>3
      <4>. QED
        BY <4>1, <4>2, <4>3
    <3>8. \A k \in 1..n + 1 : \A i \in 1..Len(Tail(left[t])) : mszPrintBuff'[k].part < Tail(left[t])[i].part
      <4>. TAKE k \in 1..n + 1
      <4>1. CASE k \in 1..n
        <5>1. \A i \in 1..Len(left[t]) : mszPrintBuff[k].part < left[t][i].part
          BY <1>4, <4>1 DEF PrintPart, n
        <5>. QED
          BY <3>2, <3>4, <4>1, <5>1
      <4>2. CASE k = n + 1
        BY <3>1, <3>2, <3>4, <4>2
      <4>. QED
        BY <3>5, <4>1, <4>2
    <3>. QED
      BY <2>4, <2>5, <2>6, <2>7, <3>2, <3>6, <3>7, <3>8
  <2>. QED
    BY <1>4, <2>8, <2>9 DEF PrintPart
<1>5. ASSUME NEW t \in Tracers, NEW granted, NEW again, EndTrace(t, granted, again)
      PROVE  InSection' /\ PartsInOrder' /\ BufferOfOne'
  BY <1>1, <1>5 DEF EndTrace
<1>6. ASSUME NEW t \in Tracers, TraceUnLock(t)
      PROVE  InSection' /\ PartsInOrder' /\ BufferOfOne'
  BY <1>1, <1>6 DEF TraceUnLock
<1>7. ASSUME NEW pre \in LogNames, SetLogFileName(pre)
      PROVE  InSection' /\ PartsInOrder' /\ BufferOfOne'
  BY <1>7 DEF SetLogFileName
<1>8. ASSUME NEW options \in SUBSET {"Timestamp", "AppendToFile"}, SetTraceOptions(options)
      PROVE  InSection' /\ PartsInOrder' /\ BufferOfOne'
  BY <1>8 DEF SetTraceOptions
<1>9. ASSUME MinutePasses
      PROVE  InSection' /\ PartsInOrder' /\ BufferOfOne'
  BY <1>9 DEF MinutePasses
<1>. QED
  BY <1>2, <1>3, <1>4, <1>5, <1>6, <1>7, <1>8, <1>9 DEF TraceNext

\* What the files hold changes only where EndTrace() writes a line.
LEMMA DiskNext ==
  ASSUME TraceTypes, TraceNext
  PROVE  \/ UNCHANGED <<disk, meant>>
         \/ \E t \in Tracers : \E f \in FileName :
              /\ tracing[t] = "parts"
              /\ Len(LinesOf(f)) <= MaxFile \/ f.minute = minute
              /\ WriteLine(t, f) /\ meant' = Append(meant, t)
<1>1. ASSUME NEW t \in Tracers, NEW granted, NEW again, EndTrace(t, granted, again)
      PROVE  \/ UNCHANGED <<disk, meant>>
             \/ \E f \in FileName :
                  /\ tracing[t] = "parts"
                  /\ Len(LinesOf(f)) <= MaxFile \/ f.minute = minute
                  /\ WriteLine(t, f) /\ meant' = Append(meant, t)
  <2>1. tracing[t] = "parts"
    BY <1>1 DEF EndTrace
  <2>. QED
    BY <1>1, <2>1, EndTraceWrites
<1>2. ASSUME NEW t \in Tracers,
             BeginTrace(t) \/ PrintPart(t) \/ TraceUnLock(t) \/ \E line \in Lines : TraceLock(t, line)
      PROVE  UNCHANGED <<disk, meant>>
  BY <1>2 DEF BeginTrace, PrintPart, TraceUnLock, TraceLock
<1>3. ASSUME (\E pre \in LogNames : SetLogFileName(pre)) \/ MinutePasses
               \/ \E options \in SUBSET {"Timestamp", "AppendToFile"} : SetTraceOptions(options)
      PROVE  UNCHANGED <<disk, meant>>
  BY <1>3 DEF SetLogFileName, SetTraceOptions, MinutePasses
<1>. QED
  BY <1>1, <1>2, <1>3 DEF TraceNext

\* A line more of one thread in the files, and one more in the count.
LEMMA OneLineMore ==
  ASSUME TraceTypes, FinitelyMany, NoLineLost,
         NEW t \in Tracers, NEW f \in FileName, WriteLine(t, f), meant' = Append(meant, t)
  PROVE  FinitelyMany' /\ NoLineLost'
<1>. DEFINE new == <<f, Len(LinesOf(f)) + 1>>
            Of(u) == {i \in DOMAIN meant : meant[i] = u}
<1>1. Len(LinesOf(f)) \in Nat /\ \A g \in DOMAIN disk : disk[g] \in Seq(Line) /\ DOMAIN disk[g] = 1..Len(disk[g])
  BY LinesType, LenProperties DEF TraceTypes
<1>2. f \in DOMAIN disk' /\ \A g \in DOMAIN disk' : DOMAIN disk'[g] = 1..Len(disk'[g])
  <2>1. f \in DOMAIN disk' /\ \A g \in DOMAIN disk' : disk'[g] \in Seq(Line)
    BY WriteLineFacts
  <2>. QED
    BY <2>1, LenProperties
<1>w. \A g \in DOMAIN disk' : \A i \in 1..Len(disk'[g]) :
          \/ g \in DOMAIN disk /\ i \in 1..Len(disk[g]) /\ disk'[g][i] = disk[g][i]
          \/ /\ g = f /\ i = Len(LinesOf(f)) + 1
             /\ disk'[g][i] = [by |-> t, text |-> mszPrintBuff, at |-> minute]
  BY WriteLineFacts
<1>3. \A u \in Tracers : LinesBy(u)' = IF u = t THEN LinesBy(u) \cup {new} ELSE LinesBy(u)
  <2>. TAKE u \in Tracers
  <2>1. ASSUME NEW p \in LinesBy(u)
        PROVE  p \in LinesBy(u)'
    <3>1. PICK g \in DOMAIN disk : \E i \in DOMAIN disk[g] : p = <<g, i>> /\ disk[g][i].by = u
      BY <2>1, LinesPlaces
    <3>2. PICK i \in DOMAIN disk[g] : p = <<g, i>> /\ disk[g][i].by = u
      BY <3>1
    <3>3. g \in DOMAIN disk' /\ i \in DOMAIN disk'[g] /\ disk'[g][i] = disk[g][i]
      <4>1. i \in 1..Len(disk[g])
        BY <1>1, <3>2
      <4>2. g \in DOMAIN disk' /\ i \in 1..Len(disk'[g]) /\ disk'[g][i] = disk[g][i]
        BY <4>1, WriteLineFacts
      <4>. QED
        BY <1>2, <4>2
    <3>. QED
      BY <3>2, <3>3 DEF LinesBy
  <2>2. ASSUME NEW p \in LinesBy(u)', p # new \/ u # t
        PROVE  p \in LinesBy(u)
    <3>1. PICK g \in DOMAIN disk' : \E i \in DOMAIN disk'[g] : p = <<g, i>> /\ disk'[g][i].by = u
      BY <2>2 DEF LinesBy
    <3>2. PICK i \in DOMAIN disk'[g] : p = <<g, i>> /\ disk'[g][i].by = u
      BY <3>1
    <3>3. \/ g \in DOMAIN disk /\ i \in 1..Len(disk[g]) /\ disk'[g][i] = disk[g][i]
          \/ /\ g = f /\ i = Len(LinesOf(f)) + 1
             /\ disk'[g][i] = [by |-> t, text |-> mszPrintBuff, at |-> minute]
      <4>1. g \in DOMAIN disk' /\ i \in 1..Len(disk'[g])
        BY <1>2
      <4>. QED
        BY <1>w, <4>1
    <3>4. g \in DOMAIN disk /\ i \in DOMAIN disk[g] /\ disk[g][i].by = u
      BY <1>1, <2>2, <3>2, <3>3
    <3>. QED
      BY <3>2, <3>4, LinesPlaces
  <2>3. u = t => new \in LinesBy(u)'
    <3>1. disk'[f] = Append(LinesOf(f), [by |-> t, text |-> mszPrintBuff, at |-> minute])
      BY WriteLineFacts
    <3>2. /\ Len(LinesOf(f)) + 1 \in 1..Len(disk'[f])
          /\ disk'[f][Len(LinesOf(f)) + 1] = [by |-> t, text |-> mszPrintBuff, at |-> minute]
      <4>1. [by |-> t, text |-> mszPrintBuff, at |-> minute] \in Line /\ LinesOf(f) \in Seq(Line)
        <5>1. minute \in Nat /\ mszPrintBuff \in Seq(Printed)
          BY DebugTraceAssumption DEF TraceTypes, LogTypeOK
        <5>. QED
          BY <5>1, LinesType DEF Line
      <4>. QED
        BY <1>1, <3>1, <4>1, AppendProperties
    <3>. QED
      BY <1>2, <3>2 DEF LinesBy
  <2>. HIDE DEF new
  <2>. QED
    BY <2>1, <2>2, <2>3
<1>4. new \notin LinesBy(t)
  <2>1. SUFFICES ASSUME new \in LinesBy(t) PROVE FALSE
    OBVIOUS
  <2>2. PICK g \in DOMAIN disk : \E i \in DOMAIN disk[g] : new = <<g, i>>
    BY <2>1, LinesPlaces
  <2>3. f \in DOMAIN disk /\ Len(LinesOf(f)) + 1 \in DOMAIN disk[f]
    BY <2>2
  <2>4. LinesOf(f) = disk[f]
    BY <2>3 DEF LinesOf
  <2>. QED
    BY <1>1, <2>3, <2>4
<1>. HIDE DEF new
<1>5. FinitelyMany'
  BY <1>3, FS_AddElement DEF FinitelyMany
<1>6. meant \in Seq(Tracers) /\ Len(meant) \in Nat /\ DOMAIN meant = 1..Len(meant)
  BY LenProperties DEF TraceTypes
<1>7. /\ DOMAIN meant' = 1..Len(meant) + 1 /\ meant'[Len(meant) + 1] = t
      /\ \A i \in 1..Len(meant) : meant'[i] = meant[i]
  BY <1>6, AppendProperties
<1>8. \A u \in Tracers : {i \in DOMAIN meant' : meant'[i] = u} =
                           IF u = t THEN Of(u) \cup {Len(meant) + 1} ELSE Of(u)
  BY <1>6, <1>7
<1>9. \A u \in Tracers : IsFiniteSet(Of(u)) /\ Len(meant) + 1 \notin Of(u)
  <2>1. IsFiniteSet(1..Len(meant)) 
    BY <1>6, FS_Interval
  <2>2. \A u \in Tracers : Of(u) \subseteq 1..Len(meant)
    BY <1>6
  <2>. QED
    BY <1>6, <2>1, <2>2, FS_Subset
<1>. HIDE DEF Of
<1>10. \A u \in Tracers : Cardinality(LinesBy(u)) = Cardinality(Of(u))
  BY DEF NoLineLost, Of
<1>11. \A u \in Tracers : Cardinality(LinesBy(u)') = Cardinality({i \in DOMAIN meant' : meant'[i] = u})
  <2>. TAKE u \in Tracers
  <2>1. CASE u # t
    BY <1>3, <1>8, <1>10, <2>1
  <2>2. CASE u = t
    <3>1. Cardinality(LinesBy(u) \cup {new}) = Cardinality(LinesBy(u)) + 1
      BY <1>4, <2>2, FS_AddElement DEF FinitelyMany
    <3>2. Cardinality(Of(u) \cup {Len(meant) + 1}) = Cardinality(Of(u)) + 1
      BY <1>9, FS_AddElement
    <3>. QED
      BY <1>3, <1>8, <1>10, <2>2, <3>1, <3>2
  <2>. QED
    BY <2>1, <2>2
<1>. QED
  BY <1>5, <1>11 DEF NoLineLost

\* Next keeps the invariant.
LEMMA TraceNextInv ==
  ASSUME TraceInv, TraceNext
  PROVE  TraceInv'
<1>. USE DEF TraceInv
<1>0. TraceTypes
  OBVIOUS
<1>1. TraceTypes'
  BY TraceTypesNext
<1>2. InSection' /\ PartsInOrder' /\ BufferOfOne'
  BY SectionNext
<1>3. CASE UNCHANGED <<disk, meant>>
  <2>1. OneSpeaker' /\ GrowsWithinItsMinute'
    BY <1>3 DEF OneSpeaker, GrowsWithinItsMinute
  <2>2. FinitelyMany' /\ NoLineLost'
    BY <1>3 DEF FinitelyMany, NoLineLost, LinesBy
  <2>. QED
    BY <1>1, <1>2, <2>1, <2>2
<1>4. CASE \E t \in Tracers : \E f \in FileName :
             /\ tracing[t] = "parts"
             /\ Len(LinesOf(f)) <= MaxFile \/ f.minute = minute
             /\ WriteLine(t, f) /\ meant' = Append(meant, t)
  <2>1. PICK t \in Tracers, f \in FileName :
               /\ tracing[t] = "parts"
               /\ Len(LinesOf(f)) <= MaxFile \/ f.minute = minute
               /\ WriteLine(t, f) /\ meant' = Append(meant, t)
    BY <1>4
  <2>2. FinitelyMany' /\ NoLineLost'
    BY <2>1, OneLineMore
  <2>. DEFINE line == [by |-> t, text |-> mszPrintBuff, at |-> minute]
  <2>3. /\ \A g \in DOMAIN disk' : disk'[g] \in Seq(Line) /\ DOMAIN disk'[g] = 1..Len(disk'[g])
        /\ \A g \in DOMAIN disk : DOMAIN disk[g] = 1..Len(disk[g])
        /\ DOMAIN mszPrintBuff = 1..Len(mszPrintBuff)
    BY <1>1, LenProperties DEF TraceTypes
  <2>w. \A g \in DOMAIN disk' : \A i \in 1..Len(disk'[g]) :
          \/ g \in DOMAIN disk /\ i \in 1..Len(disk[g]) /\ disk'[g][i] = disk[g][i]
          \/ g = f /\ i = Len(LinesOf(f)) + 1 /\ disk'[g][i] = line
    BY <1>0, <2>1, WriteLineFacts
  <2>4. ASSUME NEW g \in DOMAIN disk', NEW i \in DOMAIN disk'[g]
        PROVE  \/ g \in DOMAIN disk /\ i \in DOMAIN disk[g] /\ disk'[g][i] = disk[g][i]
               \/ g = f /\ i = Len(LinesOf(f)) + 1 /\ disk'[g][i] = line
    <3>1. i \in 1..Len(disk'[g])
      BY <2>3
    <3>. QED
      BY <2>3, <2>w, <3>1
  <2>5. /\ \A k \in DOMAIN line.text : line.text[k].by = line.by
        /\ \A k \in 2..Len(line.text) : line.text[k - 1].part < line.text[k].part
    BY <2>1, <2>3 DEF BufferOfOne
  <2>6. line.at = minute
    OBVIOUS
  <2>. HIDE DEF line
  <2>7. OneSpeaker'
    BY <2>4, <2>5 DEF OneSpeaker
  <2>8. GrowsWithinItsMinute'
    <3>. SUFFICES ASSUME NEW g \in DOMAIN disk', NEW i \in DOMAIN disk'[g], i > MaxFile + 1
                  PROVE  disk'[g][i].at = g.minute
      BY DEF GrowsWithinItsMinute
    <3>1. CASE g \in DOMAIN disk /\ i \in DOMAIN disk[g] /\ disk'[g][i] = disk[g][i]
      BY <3>1 DEF GrowsWithinItsMinute
    <3>2. CASE g = f /\ i = Len(LinesOf(f)) + 1 /\ disk'[g][i] = line
      <4>1. Len(LinesOf(f)) \in Nat /\ MaxFile \in Nat
        BY LinesType, LenProperties, DebugTraceAssumption
      <4>2. ~(Len(LinesOf(f)) <= MaxFile)
        BY <3>2, <4>1
      <4>. QED
        BY <2>1, <2>6, <3>2, <4>2
    <3>. QED
      BY <2>4, <3>1, <3>2
  <2>. QED
    BY <1>1, <1>2, <2>2, <2>7, <2>8
<1>. QED
  BY <1>3, <1>4, DiskNext

\* The invariant holds of every behaviour of the log.
THEOREM TraceInvariance == TraceSpec => []TraceInv
<1>1. ASSUME TraceInv, UNCHANGED traceVars
      PROVE  TraceInv'
  <2>. USE <1>1 DEF traceVars, TraceInv
  <2>1. TraceTypes'
    BY DEF TraceTypes, LogTypeOK
  <2>2. InSection' /\ PartsInOrder' /\ BufferOfOne'
    BY DEF InSection, PartsInOrder, BufferOfOne
  <2>3. OneSpeaker' /\ GrowsWithinItsMinute'
    BY DEF OneSpeaker, GrowsWithinItsMinute
  <2>4. \A t \in Tracers : LinesBy(t)' = LinesBy(t)
    BY DEF LinesBy
  <2>5. FinitelyMany' /\ NoLineLost'
    BY <2>4 DEF FinitelyMany, NoLineLost
  <2>. QED
    BY <2>1, <2>2, <2>3, <2>5
<1>. QED
  BY <1>1, TraceInitInv, TraceNextInv, PTL DEF TraceSpec

\* The log of several threads that trace, rename and set options: lines of one thread each, their parts
\* in the order of its arguments, less those the buffer had no room for (the newline may be one), no line
\* lost, in files that grow past the limit only within the minute they are named by (debugtrace.cpp,
\* TRACE under one critical section).
THEOREM LogIsKept == TraceSpec => []LogKept
<1>1. TraceInv => LogKept
  BY DEF TraceInv, TraceTypes, LogKept
<1>. QED
  BY <1>1, TraceInvariance, PTL

-----------------------------------------------------------------------------
(* Handshake: the upgrade request, websocket_handler.cpp *)

\* The minimum of a set of numbers.
LEMMA MinOf ==
  ASSUME NEW S, S \subseteq Nat, S # {}
  PROVE  Min(S) \in S /\ \A n \in S : Min(S) <= n
<1>1. \E m \in S : \A n \in S : m <= n
  BY LeastOf
<1> QED BY <1>1 DEF Min

\* A part of a sequence.
LEMMA PartOf ==
  ASSUME NEW S, NEW s \in Seq(S), NEW m \in 1 .. Len(s) + 1, NEW n \in m - 1 .. Len(s)
  PROVE  /\ SubSeq(s, m, n) \in Seq(S)
         /\ Len(SubSeq(s, m, n)) = n - m + 1
         /\ \A i \in 1 .. n - m + 1 : SubSeq(s, m, n)[i] = s[m + i - 1]
<1>1. Len(s) \in Nat /\ \A i \in m .. n : s[i] \in S
  BY ElementOfSeq, LenProperties
<1> QED BY <1>1, SubSeqProperties

\* A part of a part of a sequence.
LEMMA PartOfPart ==
  ASSUME NEW S, NEW s \in Seq(S), NEW m \in 1 .. Len(s) + 1,
         NEW i \in 1 .. Len(s) - m + 2, NEW j \in i - 1 .. Len(s) - m + 1
  PROVE  SubSeq(SubSeq(s, m, Len(s)), i, j) = SubSeq(s, m + i - 1, m + j - 1)
<1> DEFINE t == SubSeq(s, m, Len(s))
<1>1. /\ Len(s) \in Nat /\ t \in Seq(S) /\ Len(t) = Len(s) - m + 1
      /\ \A k \in 1 .. Len(t) : t[k] = s[m + k - 1]
  BY PartOf, LenProperties
<1>2. /\ SubSeq(t, i, j) \in Seq(S) /\ Len(SubSeq(t, i, j)) = j - i + 1
      /\ \A k \in 1 .. j - i + 1 : SubSeq(t, i, j)[k] = t[i + k - 1]
  BY <1>1, PartOf
<1> DEFINE u == SubSeq(s, m + i - 1, m + j - 1)
<1>3. /\ u \in Seq(S) /\ Len(u) = j - i + 1
      /\ \A k \in 1 .. j - i + 1 : u[k] = s[m + i - 1 + k - 1]
  BY <1>1, PartOf
<1>4. \A k \in 1 .. j - i + 1 : SubSeq(t, i, j)[k] = u[k]
  <2>1. ASSUME NEW k \in 1 .. j - i + 1 PROVE SubSeq(t, i, j)[k] = u[k]
    <3>1. i + k - 1 \in 1 .. Len(t) /\ m + (i + k - 1) - 1 = m + i - 1 + k - 1
      BY <1>1
    <3> QED BY <1>1, <1>2, <1>3, <3>1
  <2> QED BY <2>1
<1> HIDE DEF t, u
<1>5. SubSeq(t, i, j) = u
  BY <1>2, <1>3, <1>4, SeqEqual
<1> QED BY <1>5 DEF t, u

-----------------------------------------------------------------------------
(* The lines of a text *)

\* A text that ends in an LF has the end of each of its lines.
LEMMA LineEnds ==
  ASSUME NEW s \in Seq(Token), Len(s) > 0, s[Len(s)] = LF, NEW i \in 1 .. Len(s)
  PROVE  /\ LineEnd(s, i) \in i .. Len(s) /\ s[LineEnd(s, i)] = LF
         /\ \A k \in i .. LineEnd(s, i) - 1 : s[k] # LF
<1> DEFINE S == {j \in i .. Len(s) : s[j] = LF}
<1>1. Len(s) \in Nat /\ Len(s) \in S /\ S \subseteq Nat
  BY LenProperties
<1>2. PICK m \in S : \A n \in S : m <= n
  <2> HIDE DEF S
  <2> QED BY <1>1, LeastOf, Zenon
<1>3. m \in i .. Len(s) /\ s[m] = LF /\ \A k \in i .. m - 1 : s[k] # LF
  BY <1>1, <1>2
<1> QED BY <1>3 DEF LineEnd

\* Only one position is the end of a line.
LEMMA LineEndIs ==
  ASSUME NEW s \in Seq(Token), NEW i \in 1 .. Len(s), NEW e \in i .. Len(s),
         s[e] = LF, \A k \in i .. e - 1 : s[k] # LF
  PROVE  LineEnd(s, i) = e
<1>1. Len(s) \in Nat
  BY LenProperties
<1>2. ASSUME NEW j \in i .. Len(s), s[j] = LF, \A k \in i .. j - 1 : s[k] # LF
      PROVE  j = e
  BY <1>1, <1>2
<1> QED BY <1>2 DEF LineEnd

\* getline() on what is left of a text from the start of a line on.
LEMMA FirstLineAt ==
  ASSUME NEW s \in Seq(Token), NEW q \in 1 .. Len(s), s[Len(s)] = LF
  PROVE  LET e == LineEnd(s, q)
         IN  FirstLine(SubSeq(s, q, Len(s))) = [line |-> SubSeq(s, q, e - 1), rest |-> SubSeq(s, e + 1, Len(s))]
<1> DEFINE e == LineEnd(s, q)
           t == SubSeq(s, q, Len(s))
           I == {i \in 1 .. Len(t) : t[i] = LF}
<1>1. Len(s) \in Nat
  BY LenProperties
<1>2. e \in q .. Len(s) /\ s[e] = LF /\ \A k \in q .. e - 1 : s[k] # LF
  BY <1>1, LineEnds
<1> HIDE DEF e
<1>3. t \in Seq(Token) /\ Len(t) = Len(s) - q + 1 /\ \A i \in 1 .. Len(t) : t[i] = s[q + i - 1]
  BY <1>1, PartOf
<1> HIDE DEF t
<1>4. e - q + 1 \in I /\ I \subseteq Nat
  BY <1>1, <1>2, <1>3
<1>5. \A i \in I : e - q + 1 <= i
  <2>1. ASSUME NEW i \in 1 .. Len(s) - q + 1, t[i] = LF PROVE e - q + 1 <= i
    <3>1. s[q + i - 1] = LF /\ q + i - 1 \in q .. Len(s)
      BY <1>1, <1>3, <2>1
    <3>2. ~(q + i - 1 \in q .. e - 1)
      BY <1>2, <3>1
    <3> QED BY <1>1, <1>2, <2>1, <3>1, <3>2
  <2> QED BY <1>3, <2>1
<1>6. Min(I) \in I /\ \A i \in I : Min(I) <= i
  <2>. HIDE DEF I
  <2>. QED BY <1>4, MinOf
<1>7. Min(I) = e - q + 1
  BY <1>1, <1>2, <1>4, <1>5, <1>6
<1>8. FirstLine(t) = [line |-> SubSeq(t, 1, (e - q + 1) - 1), rest |-> SubSeq(t, (e - q + 1) + 1, Len(t))]
  BY <1>4, <1>7 DEF FirstLine, SelectInSeq
<1>9. SubSeq(t, 1, (e - q + 1) - 1) = SubSeq(s, q, e - 1)
  <2>1. SubSeq(t, 1, e - q) = SubSeq(s, q + 1 - 1, q + (e - q) - 1)
    BY <1>1, <1>2, PartOfPart DEF t
  <2>2. (e - q + 1) - 1 = e - q /\ q + 1 - 1 = q /\ q + (e - q) - 1 = e - 1
    BY <1>1, <1>2
  <2> QED BY <2>1, <2>2
<1>10. SubSeq(t, (e - q + 1) + 1, Len(t)) = SubSeq(s, e + 1, Len(s))
  <2>1. SubSeq(t, e - q + 2, Len(s) - q + 1) = SubSeq(s, q + (e - q + 2) - 1, q + (Len(s) - q + 1) - 1)
    BY <1>1, <1>2, PartOfPart DEF t
  <2>2. (e - q + 1) + 1 = e - q + 2 /\ Len(t) = Len(s) - q + 1 /\ q + (e - q + 2) - 1 = e + 1
        /\ q + (Len(s) - q + 1) - 1 = Len(s)
    BY <1>1, <1>2, <1>3
  <2> QED BY <2>1, <2>2
<1> QED BY <1>8, <1>9, <1>10 DEF e, t

-----------------------------------------------------------------------------
(* The header loop *)

\* What the loop keeps.
Turn == [rest : Seq(Token), key : Seq(Token)]

\* The key of a key line.
KeyTextAt(s, i) == SubSeq(s, i + 1, LineEnd(s, i) - 2)

\* A text that ends in a blank line, as HeadersOf gives one.
EndsBlank(s) ==
  /\ s \in Seq(Token) /\ Len(s) >= 4
  /\ s[Len(s) - 3] = CR /\ s[Len(s) - 2] = LF /\ s[Len(s) - 1] = CR /\ s[Len(s)] = LF

\* key is that of the last key line before q.
KeyBefore(s, q, key) ==
  \/ \E i \in LineStarts(s) : /\ i < q /\ KeyLineAt(s, i) /\ key = KeyTextAt(s, i)
                              /\ \A m \in LineStarts(s) : i < m /\ m < q => ~KeyLineAt(s, m)
  \/ key = <<>> /\ \A m \in LineStarts(s) : m < q => ~KeyLineAt(s, m)

\* The loop stands at q.
StandsAt(s, r, q) ==
  /\ r \in Turn /\ q \in LineStarts(s) /\ r.rest = SubSeq(s, q, Len(s))
  /\ \A m \in LineStarts(s) : m < q => ~BlankAt(s, m)
  /\ KeyBefore(s, q, r.key)

\* getline() gives two texts, whatever it is given.
LEMMA FirstLineType ==
  ASSUME NEW s \in Seq(Token)
  PROVE  FirstLine(s).line \in Seq(Token) /\ FirstLine(s).rest \in Seq(Token)
<1> DEFINE I == {i \in 1 .. Len(s) : s[i] = LF}
           n == SelectInSeq(s, LAMBDA t : t = LF)
<1>1. Len(s) \in Nat
  BY LenProperties
<1>2. n \in 0 .. Len(s)
  <2>1. n = IF I # {} THEN Min(I) ELSE 0
    BY DEF SelectInSeq
  <2>2. I # {} => Min(I) \in I
    <3>1. I \subseteq Nat
      OBVIOUS
    <3> HIDE DEF I
    <3> QED BY <3>1, MinOf
  <2>. HIDE DEF n
  <2>. QED BY <1>1, <2>1, <2>2
<1>3. FirstLine(s) = [line |-> SubSeq(s, 1, n - 1), rest |-> SubSeq(s, n + 1, Len(s))]
  BY DEF FirstLine
<1> HIDE DEF n
<1>4. SubSeq(s, n + 1, Len(s)) \in Seq(Token)
  BY <1>1, <1>2, PartOf
<1>5. SubSeq(s, 1, n - 1) \in Seq(Token)
  <2>1. CASE n = 0
    <3>1. SubSeq(s, 1, n - 1) = <<>>
      BY <2>1, SubSeqEmpty
    <3> QED BY <3>1, EmptySeq
  <2>2. CASE n # 0
    BY <1>1, <1>2, <2>2, PartOf
  <2> QED BY <2>1, <2>2
<1> QED BY <1>3, <1>4, <1>5

\* The value of a line without its CR is a text.
LEMMA ValueType ==
  ASSUME NEW l \in Seq(Token), EndsInCR(l), Head(l) = Key
  PROVE  /\ Len(l) >= 2 /\ Tail(Front(l)) \in Seq(Token)
         /\ Tail(Front(l)) = SubSeq(l, 2, Len(l) - 1)
<1>1. Len(l) \in Nat /\ Len(l) # 0 /\ l[Len(l)] = CR /\ l[1] = Key
  <2>1. Len(l) \in Nat /\ l # <<>> /\ Len(l) # 0
    BY EmptySeq, LenProperties DEF EndsInCR
  <2>2. Head(l) = l[1]
    BY <2>1
  <2> QED BY <2>1, <2>2 DEF EndsInCR, Last
<1>2. Len(l) >= 2
  BY <1>1 DEF CR, Key
<1>3. Front(l) = SubSeq(l, 1, Len(l) - 1)
  BY DEF Front
<1>4. Tail(SubSeq(l, 1, Len(l) - 1)) = SubSeq(l, 2, Len(l) - 1)
  <2>1. 1 \in 1 .. Len(l) /\ Len(l) - 1 \in 1 .. Len(l) /\ 1 + 1 = 2
    BY <1>1, <1>2
  <2>2. Tail(SubSeq(l, 1, Len(l) - 1)) = SubSeq(l, 1 + 1, Len(l) - 1)
    BY <2>1, HeadTailOfSubSeq
  <2> QED BY <2>1, <2>2
<1>5. SubSeq(l, 2, Len(l) - 1) \in Seq(Token)
  BY <1>1, <1>2, PartOf
<1> QED BY <1>2, <1>3, <1>4, <1>5

\* A turn keeps the types.
LEMMA TurnType ==
  ASSUME NEW r \in Turn
  PROVE  HeaderLine(r) \in Turn
<1>1. FirstLine(r.rest).line \in Seq(Token) /\ FirstLine(r.rest).rest \in Seq(Token)
  BY FirstLineType DEF Turn
<1>2. EndsInCR(FirstLine(r.rest).line) /\ Head(FirstLine(r.rest).line) = Key
        => Tail(Front(FirstLine(r.rest).line)) \in Seq(Token)
  BY <1>1, ValueType
<1> QED BY <1>1, <1>2 DEF HeaderLine, Turn

\* One turn: at the empty line nothing more happens, else the loop stands at the next line.
LEMMA TurnOf ==
  ASSUME NEW s, EndsBlank(s), NEW r, NEW q, StandsAt(s, r, q)
  PROVE  /\ BlankAt(s, q) => HeaderLine(r) = r
         /\ ~BlankAt(s, q) => StandsAt(s, HeaderLine(r), LineEnd(s, q) + 1)
<1> DEFINE e == LineEnd(s, q)
           l == SubSeq(s, q, e - 1)
<1>1. s \in Seq(Token) /\ Len(s) \in Nat /\ Len(s) >= 4 /\ s[Len(s)] = LF
  BY LenProperties DEF EndsBlank
<1>2. q \in 2 .. Len(s) /\ s[q - 1] = LF /\ r \in Turn /\ r.rest = SubSeq(s, q, Len(s))
  BY DEF StandsAt, LineStarts
<1>3. e \in q .. Len(s) /\ s[e] = LF /\ \A k \in q .. e - 1 : s[k] # LF
  BY <1>1, <1>2, LineEnds
<1>4. FirstLine(r.rest) = [line |-> l, rest |-> SubSeq(s, e + 1, Len(s))]
  BY <1>1, <1>2, FirstLineAt
<1> HIDE DEF e
<1>5. l \in Seq(Token) /\ Len(l) = e - q /\ \A i \in 1 .. e - q : l[i] = s[q + i - 1]
  <2>1. q \in 1 .. Len(s) + 1 /\ e - 1 \in q - 1 .. Len(s) /\ (e - 1) - q + 1 = e - q
    BY <1>1, <1>2, <1>3
  <2>2. /\ l \in Seq(Token) /\ Len(l) = (e - 1) - q + 1
        /\ \A i \in 1 .. (e - 1) - q + 1 : l[i] = s[q + i - 1]
    BY <1>1, <2>1, PartOf
  <2> HIDE DEF l
  <2> QED BY <2>1, <2>2
<1>6. r.rest # <<>>
  <2>1. q \in 1 .. Len(s) + 1 /\ Len(s) \in q - 1 .. Len(s) /\ Len(s) - q + 1 > 0
    BY <1>1, <1>2
  <2>2. Len(r.rest) = Len(s) - q + 1
    BY <1>1, <1>2, <2>1, PartOf
  <2>3. Len(<<>>) = 0
    OBVIOUS
  <2> QED BY <2>1, <2>2, <2>3
<1>7. l = <<CR>> <=> BlankAt(s, q)
  <2>1. ASSUME l = <<CR>> PROVE BlankAt(s, q)
    <3>1. e - q = 1 /\ l[1] = CR
      <4>1. Len(<<CR>>) = 1 /\ <<CR>>[1] = CR
        OBVIOUS
      <4> HIDE DEF l
      <4> QED BY <1>5, <2>1, <4>1
    <3>2. e = q + 1 /\ l[1] = s[q + 1 - 1]
      BY <1>1, <1>2, <1>3, <1>5, <3>1
    <3> QED BY <1>2, <3>1, <3>2 DEF BlankAt, e
  <2>2. ASSUME BlankAt(s, q) PROVE l = <<CR>>
    <3>1. e = q + 1 /\ s[q] = CR
      BY <2>2 DEF BlankAt, e
    <3>2. Len(l) = 1 /\ l[1] = CR
      BY <1>2, <1>5, <3>1
    <3>3. <<CR>> \in Seq(Token) /\ Len(<<CR>>) = 1 /\ <<CR>>[1] = CR
      BY DEF Token
    <3> HIDE DEF l
    <3>4. Len(l) = Len(<<CR>>) /\ \A i \in 1 .. Len(l) : l[i] = <<CR>>[i]
      BY <3>2, <3>3
    <3> QED BY <1>5, <3>3, <3>4, SeqEqual, Zenon
  <2> QED BY <2>1, <2>2
<1>8. EndsInCR(l) /\ Head(l) = Key <=> KeyLineAt(s, q)
  <2>1. ASSUME EndsInCR(l), Head(l) = Key PROVE KeyLineAt(s, q)
    <3>1. Len(l) >= 2
      BY <1>5, <2>1, ValueType
    <3>2. l[1] = Key /\ l[Len(l)] = CR
      BY <1>5, <2>1, <3>1 DEF EndsInCR, Last
    <3>3. l[1] = s[q + 1 - 1] /\ l[Len(l)] = s[q + (e - q) - 1] /\ q + 1 - 1 = q /\ q + (e - q) - 1 = e - 1
      BY <1>1, <1>2, <1>3, <1>5, <3>1
    <3> QED BY <3>2, <3>3 DEF KeyLineAt, e
  <2>2. ASSUME KeyLineAt(s, q) PROVE EndsInCR(l) /\ Head(l) = Key
    <3>1. s[q] = Key /\ s[e - 1] = CR
      BY <2>2 DEF KeyLineAt, e
    <3>2. e # q
      BY <1>3, <3>1 DEF LF, Key
    <3>3. l[1] = s[q + 1 - 1] /\ l[Len(l)] = s[q + (e - q) - 1] /\ q + 1 - 1 = q /\ q + (e - q) - 1 = e - 1
          /\ Len(l) > 0
      BY <1>1, <1>2, <1>3, <1>5, <3>2
    <3>4. l # <<>> /\ Head(l) = l[1]
      <4>1. Len(<<>>) = 0
        OBVIOUS
      <4> HIDE DEF l
      <4>2. l # <<>>
        BY <3>3, <4>1
      <4> QED BY <1>5, <4>2
    <3> QED BY <3>1, <3>3, <3>4 DEF EndsInCR, Last
  <2> QED BY <2>1, <2>2
<1>9. KeyLineAt(s, q) => Tail(Front(l)) = KeyTextAt(s, q)
  <2>1. SUFFICES ASSUME KeyLineAt(s, q) PROVE Tail(Front(l)) = SubSeq(s, q + 1, e - 2)
    BY DEF KeyTextAt, e
  <2>2. Len(l) >= 2 /\ Tail(Front(l)) = SubSeq(l, 2, Len(l) - 1)
    BY <1>5, <1>8, <2>1, ValueType
  <2>3. q \in 1 .. Len(s) /\ e - 1 \in 1 .. Len(s) /\ 2 \in 1 .. (e - 1) - q + 1
    <3>1. q \in 2 .. Len(s) /\ e \in q .. Len(s) /\ e - q >= 2 /\ Len(s) \in Nat
      BY <1>1, <1>2, <1>3, <1>5, <2>2
    <3> QED BY <3>1
  <2>4. CASE Len(l) = 2
    <3>1. SubSeq(l, 2, Len(l) - 1) = <<>>
      <4> DEFINE n == Len(l) - 1
      <4>1. n \in Int /\ n < 2
        <5> HIDE DEF l
        <5> QED BY <2>4
      <4> HIDE DEF n
      <4>2. SubSeq(l, 2, n) = <<>>
        BY <4>1, SubSeqEmpty
      <4> QED BY <4>2 DEF n
    <3>2. SubSeq(s, q + 1, e - 2) = <<>>
      <4>1. e - 2 \in Int /\ q + 1 \in Int /\ e - 2 < q + 1
        BY <1>1, <1>2, <1>3, <1>5, <2>4
      <4> QED BY <4>1, SubSeqEmpty
    <3> QED BY <2>2, <3>1, <3>2
  <2>5. CASE Len(l) # 2
    <3>1. Len(l) - 1 \in 1 .. (e - 1) - q + 1
      BY <1>1, <1>2, <1>3, <1>5, <2>2, <2>5
    <3>2. SubSeq(l, 2, Len(l) - 1) = SubSeq(s, q + 2 - 1, q + (Len(l) - 1) - 1)
      <4> DEFINE n == Len(l) - 1
      <4> HIDE DEF n
      <4>1. n \in 1 .. (e - 1) - q + 1
        BY <3>1 DEF n
      <4>2. l \in Seq(Token)
        BY <1>5
      <4>3. SubSeq(SubSeq(s, q, e - 1), 2, n) = SubSeq(s, q + 2 - 1, q + n - 1)
        BY <1>1, <2>3, <4>1, <4>2, SubSeqOfSubSeq
      <4> QED BY <4>3 DEF n, l
    <3>3. q + 2 - 1 = q + 1 /\ q + (Len(l) - 1) - 1 = e - 2
      BY <1>1, <1>2, <1>3, <1>5
    <3> QED BY <2>2, <3>2, <3>3
  <2> QED BY <2>4, <2>5
<1> HIDE DEF l
<1>10. ASSUME BlankAt(s, q) PROVE HeaderLine(r) = r
  BY <1>4, <1>7, <1>10 DEF HeaderLine
<1>11. ASSUME ~BlankAt(s, q) PROVE StandsAt(s, HeaderLine(r), e + 1)
  <2> DEFINE t == HeaderLine(r)
  <2>1. t.rest = SubSeq(s, e + 1, Len(s)) /\ t.key = IF KeyLineAt(s, q) THEN KeyTextAt(s, q) ELSE r.key
    <3>1. FirstLine(r.rest).line = l /\ FirstLine(r.rest).rest = SubSeq(s, e + 1, Len(s))
      <4>1. FirstLine(r.rest).line = l
        BY <1>4
      <4>2. FirstLine(r.rest).rest = SubSeq(s, e + 1, Len(s))
        BY <1>1, <1>3, <1>4
      <4> QED BY <4>1, <4>2
    <3>2. t = [rest |-> SubSeq(s, e + 1, Len(s)), key |-> IF EndsInCR(l) /\ Head(l) = Key THEN Tail(Front(l)) ELSE r.key]
      BY <1>6, <1>7, <1>11, <3>1 DEF HeaderLine
    <3>3. t.rest = SubSeq(s, e + 1, Len(s)) /\ t.key = IF EndsInCR(l) /\ Head(l) = Key THEN Tail(Front(l)) ELSE r.key
      BY <1>1, <1>3, <3>2
    <3> QED BY <1>8, <1>9, <3>3, Zenon
  <2>2. t \in Turn
    BY <1>2, TurnType
  <2>3. e # Len(s)
    <3>1. SUFFICES ASSUME e = Len(s) PROVE FALSE
      OBVIOUS
    <3>2. s[Len(s) - 2] = LF /\ s[Len(s) - 1] = CR
      BY DEF EndsBlank
    <3>3. q > Len(s) - 2
      BY <1>1, <1>2, <1>3, <3>1, <3>2
    <3>4. q # Len(s)
      BY <1>2, <3>2 DEF CR, LF
    <3>5. q = Len(s) - 1 /\ e = q + 1
      BY <1>1, <1>2, <3>1, <3>3, <3>4
    <3> QED BY <1>11, <3>2, <3>5 DEF BlankAt, e
  <2>4. e + 1 \in LineStarts(s)
    BY <1>1, <1>2, <1>3, <2>3 DEF LineStarts
  <2>5. \A m \in LineStarts(s) : m < e + 1 => m < q \/ m = q
    BY <1>1, <1>2, <1>3 DEF LineStarts
  <2>6. \A m \in LineStarts(s) : m < e + 1 => ~BlankAt(s, m)
    BY <1>11, <2>5 DEF StandsAt
  <2>7. KeyBefore(s, e + 1, t.key)
    <3>1. q \in LineStarts(s) /\ KeyBefore(s, q, r.key) /\ q < e + 1 /\ \A m \in LineStarts(s) : m \in Int
      BY <1>1, <1>2, <1>3 DEF StandsAt, LineStarts
    <3>2. CASE KeyLineAt(s, q)
      <4>1. \A m \in LineStarts(s) : q < m /\ m < e + 1 => ~KeyLineAt(s, m)
        BY <1>1, <1>2, <1>3, <2>5, <3>1
      <4> QED BY <2>1, <3>1, <3>2, <4>1 DEF KeyBefore
    <3>3. CASE ~KeyLineAt(s, q)
      <4>1. t.key = r.key
        BY <2>1, <3>3
      <4>2. CASE r.key = <<>> /\ \A m \in LineStarts(s) : m < q => ~KeyLineAt(s, m)
        BY <2>5, <3>3, <4>1, <4>2 DEF KeyBefore
      <4>3. CASE \E i \in LineStarts(s) : /\ i < q /\ KeyLineAt(s, i) /\ r.key = KeyTextAt(s, i)
                                          /\ \A m \in LineStarts(s) : i < m /\ m < q => ~KeyLineAt(s, m)
        <5>1. PICK i \in LineStarts(s) : /\ i < q /\ KeyLineAt(s, i) /\ r.key = KeyTextAt(s, i)
                                         /\ \A m \in LineStarts(s) : i < m /\ m < q => ~KeyLineAt(s, m)
          BY <4>3
        <5>2. i < e + 1
          BY <1>1, <1>2, <1>3, <3>1, <5>1
        <5>3. \A m \in LineStarts(s) : i < m /\ m < e + 1 => ~KeyLineAt(s, m)
          BY <2>5, <3>3, <5>1
        <5> QED BY <4>1, <5>1, <5>2, <5>3 DEF KeyBefore
      <4> QED BY <3>1, <4>2, <4>3 DEF KeyBefore
    <3> QED BY <3>2, <3>3
  <2> HIDE DEF t
  <2>8. t = HeaderLine(r)
    BY DEF t
  <2> QED BY <2>1, <2>2, <2>4, <2>6, <2>7, <2>8 DEF StandsAt
<1> QED BY <1>10, <1>11 DEF e

\* What the loop has after its last turn: KeyFrom() is the end of a chain of turns.
LEMMA KeyFromTurns ==
  ASSUME NEW s \in Seq(Token)
  PROVE  \E f \in [0 .. Len(s) -> Turn] :
           /\ f[0] = [rest |-> s, key |-> <<>>]
           /\ \A n \in 1 .. Len(s) : f[n] = HeaderLine(f[n - 1])
           /\ KeyFrom(s) = f[Len(s)].key
<1> DEFINE N == Len(s)
           c == [rest |-> s, key |-> <<>>]
           step == [p \in (1 .. N) \X Turn |-> HeaderLine(p[2])]
           D(f) == f = [n \in 0 .. N |-> IF n = 0 THEN c ELSE HeaderLine(f[n - 1])]
<1>1. N \in Nat
  BY LenProperties
<1>2. c \in Turn
  BY EmptySeq DEF Turn
<1>3. \A n \in 1 .. N : \A t \in Turn : step[<<n, t>>] \in Turn
  <2>1. ASSUME NEW n \in 1 .. N, NEW t \in Turn PROVE step[<<n, t>>] \in Turn
    <3>1. <<n, t>> \in (1 .. N) \X Turn /\ <<n, t>>[2] = t
      BY <1>1
    <3>2. step[<<n, t>>] = HeaderLine(t)
      BY <3>1
    <3> QED BY <3>2, TurnType
  <2> QED BY <2>1
<1>4. PICK g \in [0 .. N -> Turn] : g[0] = c /\ \A n \in 1 .. N : g[n] = step[<<n, g[n - 1]>>]
  <2>1. Recursion(Turn, 0, N, c, step)
    <3> HIDE DEF step, c, N
    <3> QED BY <1>1, <1>2, <1>3 DEF Recursion
  <2>2. PICK h : Solves(h, Turn, 0, N, c, step)
    BY <2>1, RecursionOn
  <2> HIDE DEF step, c, N
  <2>3. h \in [0 .. N -> Turn] /\ h[0] = c /\ \A n \in 0 + 1 .. N : h[n] = step[<<n, h[n - 1]>>]
    BY <2>2, Zenon DEF Solves
  <2>4. 0 + 1 = 1
    OBVIOUS
  <2> QED BY <2>3, <2>4, Zenon
<1>5. \A n \in 1 .. N : g[n] = HeaderLine(g[n - 1])
  <2>1. ASSUME NEW n \in 1 .. N PROVE g[n] = HeaderLine(g[n - 1])
    <3>1. n - 1 \in 0 .. N /\ n \in 1 .. N
      BY <1>1
    <3>2. g[n - 1] \in Turn
      BY <3>1
    <3>3. <<n, g[n - 1]>> \in (1 .. N) \X Turn /\ <<n, g[n - 1]>>[2] = g[n - 1]
      BY <3>2
    <3>4. step[<<n, g[n - 1]>>] = HeaderLine(g[n - 1])
      BY <3>3
    <3> QED BY <1>4, <3>1, <3>4
  <2> QED BY <2>1
<1>6. D(g)
  <2> HIDE DEF c
  <2>1. \A n \in 0 .. N : g[n] = IF n = 0 THEN c ELSE HeaderLine(g[n - 1])
    BY <1>1, <1>4, <1>5
  <2> QED BY <1>4, <2>1
<1> DEFINE f == CHOOSE f : D(f)
<1>7. D(f)
  <2> HIDE DEF D
  <2> QED BY <1>6
<1>8. KeyFrom(s) = f[N].key
  BY Zenon DEF KeyFrom
<1> HIDE DEF f
<1>9. f[0] = c /\ \A n \in 1 .. N : f[n] = HeaderLine(f[n - 1])
  <2> HIDE DEF c
  <2> QED BY <1>1, <1>7
<1>10. DOMAIN f = 0 .. N
  BY <1>7
<1>11. \A n \in Nat : n \in {k \in Nat : k <= N => f[k] \in Turn}
  <2> DEFINE S == {k \in Nat : k <= N => f[k] \in Turn}
  <2>1. 0 \in S
    BY <1>2, <1>9
  <2>2. \A n \in Nat : n \in S => n + 1 \in S
    <3>1. ASSUME NEW n \in Nat, n \in S, n + 1 <= N PROVE f[n + 1] \in Turn
      <4>1. n + 1 \in 1 .. N /\ (n + 1) - 1 = n /\ n <= N
        BY <1>1, <3>1
      <4>2. f[n] \in Turn
        BY <3>1, <4>1
      <4>3. f[n + 1] = HeaderLine(f[n])
        BY <1>9, <4>1
      <4> QED BY <4>2, <4>3, TurnType
    <3> QED BY <3>1
  <2> HIDE DEF S
  <2>3. \A n \in Nat : n \in S
    BY <2>1, <2>2, InductionOn, Zenon
  <2> QED BY <2>3 DEF S
<1>12. f \in [0 .. N -> Turn]
  <2>1. \A n \in 0 .. N : f[n] \in Turn
    BY <1>1, <1>11
  <2> QED BY <1>7, <1>10, <2>1
<1> QED BY <1>8, <1>9, <1>12

\* What the loop finds is a text.
LEMMA KeyFromType ==
  ASSUME NEW s \in Seq(Token)
  PROVE  KeyFrom(s) \in Seq(Token)
<1>1. PICK f \in [0 .. Len(s) -> Turn] : KeyFrom(s) = f[Len(s)].key
  BY KeyFromTurns
<1>2. Len(s) \in 0 .. Len(s)
  BY LenProperties
<1>3. f[Len(s)] \in Turn
  BY <1>2
<1> QED BY <1>1, <1>3 DEF Turn

\* The key of a request is that of its last key line before the first empty line.
LEMMA KeyOf ==
  ASSUME NEW s, EndsBlank(s)
  PROVE  LET e == LineEnd(s, 1)
         IN  /\ e \in 1 .. Len(s) - 2
             /\ \E q \in LineStarts(s) :
                  /\ BlankAt(s, q) /\ \A m \in LineStarts(s) : m < q => ~BlankAt(s, m)
                  /\ KeyBefore(s, q, KeyFrom(SubSeq(s, e + 1, Len(s))))
<1> DEFINE e == LineEnd(s, 1)
           t == SubSeq(s, e + 1, Len(s))
<1>1. s \in Seq(Token) /\ Len(s) \in Nat /\ Len(s) >= 4 /\ s[Len(s)] = LF /\ s[Len(s) - 2] = LF
  BY LenProperties DEF EndsBlank
<1>2. e \in 1 .. Len(s) /\ s[e] = LF /\ \A k \in 1 .. e - 1 : s[k] # LF
  BY <1>1, LineEnds
<1> HIDE DEF e
<1>3. e \in 1 .. Len(s) - 2
  BY <1>1, <1>2
<1>4. t \in Seq(Token) /\ Len(t) = Len(s) - e
  <2>1. e + 1 \in 1 .. Len(s) + 1 /\ Len(s) \in (e + 1) - 1 .. Len(s) /\ Len(s) - (e + 1) + 1 = Len(s) - e
    BY <1>1, <1>3
  <2>2. t \in Seq(Token) /\ Len(t) = Len(s) - (e + 1) + 1
    BY <1>1, <2>1, PartOf
  <2> HIDE DEF t
  <2> QED BY <2>1, <2>2
<1> HIDE DEF t
<1>5. PICK f \in [0 .. Len(t) -> Turn] :
        /\ f[0] = [rest |-> t, key |-> <<>>]
        /\ \A n \in 1 .. Len(t) : f[n] = HeaderLine(f[n - 1])
        /\ KeyFrom(t) = f[Len(t)].key
  BY <1>4, KeyFromTurns
\* After n turns n lines are behind, unless an empty one was met.
<1> DEFINE Met(n, q) == StandsAt(s, f[n], q) /\ (BlankAt(s, q) \/ q >= e + 1 + n)
           S == {n \in Nat : n <= Len(t) => \E q \in LineStarts(s) : Met(n, q)}
<1>6. 0 \in S
  <2>1. e + 1 \in LineStarts(s)
    BY <1>1, <1>2, <1>3 DEF LineStarts
  <2>2. \A m \in LineStarts(s) : ~(m < e + 1)
    <3>1. ASSUME NEW m \in LineStarts(s), m < e + 1 PROVE FALSE
      <4>1. m \in 2 .. Len(s) /\ s[m - 1] = LF
        BY DEF LineStarts
      <4>2. m - 1 \in 1 .. e - 1
        BY <1>1, <1>2, <3>1, <4>1
      <4> QED BY <1>2, <4>1, <4>2
    <3> QED BY <3>1
  <2>3. f[0] \in Turn /\ f[0].rest = t /\ f[0].key = <<>>
    <3>1. 0 \in 0 .. Len(t)
      BY <1>1, <1>3, <1>4
    <3> QED BY <1>5, <3>1
  <2>4. KeyBefore(s, e + 1, f[0].key)
    BY <2>2, <2>3 DEF KeyBefore
  <2>5. StandsAt(s, f[0], e + 1)
    BY <2>1, <2>2, <2>3, <2>4 DEF StandsAt, t
  <2>6. e + 1 >= e + 1 + 0
    BY <1>3
  <2> QED BY <2>1, <2>5, <2>6
<1>7. ASSUME NEW n \in Nat, n \in S PROVE n + 1 \in S
  <2>1. SUFFICES ASSUME n + 1 <= Len(t) PROVE \E q \in LineStarts(s) : Met(n + 1, q)
    BY <1>7
  <2>2. PICK q \in LineStarts(s) : Met(n, q)
    BY <1>1, <1>3, <1>4, <1>7, <2>1
  <2>3. f[n + 1] = HeaderLine(f[n])
    <3>1. n + 1 \in 1 .. Len(t) /\ (n + 1) - 1 = n
      BY <1>1, <1>3, <1>4, <2>1
    <3> QED BY <1>5, <3>1
  <2>4. CASE BlankAt(s, q)
    <3>1. f[n + 1] = f[n]
      BY <2>2, <2>3, <2>4, TurnOf
    <3> QED BY <2>2, <2>4, <3>1
  <2>5. CASE ~BlankAt(s, q)
    <3>1. StandsAt(s, f[n + 1], LineEnd(s, q) + 1)
      BY <2>2, <2>3, <2>5, TurnOf
    <3>2. LineEnd(s, q) + 1 \in LineStarts(s)
      BY <3>1 DEF StandsAt
    <3>3. q \in 1 .. Len(s)
      BY <1>1 DEF LineStarts
    <3>4. LineEnd(s, q) \in q .. Len(s)
      BY <1>1, <3>3, LineEnds
    <3>5. LineEnd(s, q) + 1 >= e + 1 + (n + 1)
      BY <1>3, <2>2, <2>5, <3>3, <3>4
    <3> QED BY <3>1, <3>2, <3>5
  <2> QED BY <2>4, <2>5
<1>8. Len(t) \in S
  <2>1. \A n \in Nat : n \in S => n + 1 \in S
    BY <1>7
  <2>2. Len(t) \in Nat
    BY <1>1, <1>3, <1>4
  <2> HIDE DEF S
  <2> QED BY <1>6, <2>1, <2>2, InductionOn, Zenon
<1>9. PICK q \in LineStarts(s) : Met(Len(t), q)
  BY <1>8, <1>1, <1>3, <1>4
<1>10. BlankAt(s, q)
  BY <1>1, <1>3, <1>4, <1>9 DEF LineStarts
<1>11. /\ \A m \in LineStarts(s) : m < q => ~BlankAt(s, m)
       /\ KeyBefore(s, q, KeyFrom(t))
  BY <1>5, <1>9 DEF StandsAt
<1> QED BY <1>3, <1>10, <1>11 DEF e, t

-----------------------------------------------------------------------------
(* The upgrade request *)

\* The buffer up to its first blank line.
LEMMA HeadersFound ==
  ASSUME NEW s \in Seq(Token), HeadersOf(s) # <<>>
  PROVE  LET h == HeadersOf(s)
         IN  /\ EndsBlank(h) /\ Len(h) \in 4 .. Len(s)
             /\ h = SubSeq(s, 1, Len(h))
<1> DEFINE ends == {i \in 4 .. Len(s) : SubSeq(s, i - 3, i) = BlankLine}
           e == CHOOSE i \in ends : \A j \in ends : i <= j
           h == SubSeq(s, 1, e)
<1>1. ends # {} /\ HeadersOf(s) = h
  BY DEF HeadersOf
<1>2. e \in ends
  <2>1. ends \subseteq Nat
    OBVIOUS
  <2> HIDE DEF ends
  <2>2. \E m \in ends : \A n \in ends : m <= n
    BY <1>1, <2>1, LeastOf, Zenon
  <2> QED BY <2>2
<1> HIDE DEF e
<1>3. e \in 4 .. Len(s) /\ SubSeq(s, e - 3, e) = <<CR, LF, CR, LF>> /\ Len(s) \in Nat
  BY <1>2, LenProperties DEF BlankLine
<1>4. h \in Seq(Token) /\ Len(h) = e /\ \A i \in 1 .. e : h[i] = s[i]
  <2>1. 1 \in 1 .. Len(s) + 1 /\ e \in 1 - 1 .. Len(s) /\ e - 1 + 1 = e
    BY <1>3
  <2>2. h \in Seq(Token) /\ Len(h) = e - 1 + 1 /\ \A i \in 1 .. e - 1 + 1 : h[i] = s[1 + i - 1]
    BY <2>1, PartOf
  <2> HIDE DEF h
  <2> QED BY <2>1, <2>2
<1>5. s[e - 3] = CR /\ s[e - 2] = LF /\ s[e - 1] = CR /\ s[e] = LF
  <2> DEFINE w == SubSeq(s, e - 3, e)
             v == <<CR, LF, CR, LF>>
  <2>1. e - 3 \in 1 .. Len(s) + 1 /\ e \in (e - 3) - 1 .. Len(s) /\ e - (e - 3) + 1 = 4 /\ e \in Int
    BY <1>3
  <2>2. \A i \in 1 .. 4 : w[i] = s[(e - 3) + i - 1]
    BY <2>1, PartOf
  <2>3. w = v
    BY <1>3
  <2>4. v[1] = CR /\ v[2] = LF /\ v[3] = CR /\ v[4] = LF
    OBVIOUS
  <2> HIDE DEF w, v
  <2>5. s[(e - 3) + 1 - 1] = CR /\ s[(e - 3) + 2 - 1] = LF /\ s[(e - 3) + 3 - 1] = CR /\ s[(e - 3) + 4 - 1] = LF
    <3>1. 1 \in 1 .. 4 /\ 2 \in 1 .. 4 /\ 3 \in 1 .. 4 /\ 4 \in 1 .. 4
      OBVIOUS
    <3> QED BY <2>2, <2>3, <2>4, <3>1
  <2>6. (e - 3) + 1 - 1 = e - 3 /\ (e - 3) + 2 - 1 = e - 2 /\ (e - 3) + 3 - 1 = e - 1 /\ (e - 3) + 4 - 1 = e
    BY <2>1
  <2> QED BY <2>5, <2>6
<1>6. EndsBlank(h)
  <2> HIDE DEF h
  <2> QED BY <1>3, <1>4, <1>5 DEF EndsBlank
<1>7. h = SubSeq(s, 1, Len(h))
  BY <1>4
<1> HIDE DEF h
<1> QED BY <1>1, <1>3, <1>4, <1>6, <1>7

\* What fetch_http_info() finds in such a text is what KeyLines says of it.
LEMMA KeyLinesOf ==
  ASSUME NEW s, EndsBlank(s)
  PROVE  LET key == fetch_http_info(s).key
         IN  /\ KeyLines(s) = IF KeyLines(s) = {} THEN {} ELSE {key}
             /\ KeyLines(s) = {} => key = <<>>
<1> DEFINE e == LineEnd(s, 1)
           key == KeyFrom(SubSeq(s, e + 1, Len(s)))
<1>1. s \in Seq(Token) /\ Len(s) \in Nat /\ Len(s) >= 4 /\ s[Len(s)] = LF
  BY LenProperties DEF EndsBlank
<1>2. fetch_http_info(s).key = key
  <2>1. SubSeq(s, 1, Len(s)) = s
    BY <1>1, SubSeqFull
  <2>2. 1 \in 1 .. Len(s)
    BY <1>1
  <2>3. FirstLine(SubSeq(s, 1, Len(s))) = [line |-> SubSeq(s, 1, e - 1), rest |-> SubSeq(s, e + 1, Len(s))]
    BY <1>1, <2>2, FirstLineAt
  <2>4. FirstLine(s) = [line |-> SubSeq(s, 1, e - 1), rest |-> SubSeq(s, e + 1, Len(s))]
    BY <2>1, <2>3
  <2>5. e \in 1 .. Len(s)
    BY <1>1, <2>2, LineEnds
  <2> HIDE DEF e
  <2>6. FirstLine(s).rest = SubSeq(s, e + 1, Len(s))
    BY <1>1, <2>4, <2>5
  <2> QED BY <2>6 DEF fetch_http_info
<1>3. PICK q \in LineStarts(s) :
        /\ BlankAt(s, q) /\ \A m \in LineStarts(s) : m < q => ~BlankAt(s, m)
        /\ KeyBefore(s, q, key)
  BY KeyOf
<1> HIDE DEF key
<1>4. q = CHOOSE i \in LineStarts(s) : BlankAt(s, i) /\ \A j \in LineStarts(s) : BlankAt(s, j) => i <= j
  <2>1. \A i \in LineStarts(s) : i \in Int
    BY DEF LineStarts
  <2>2. \A j \in LineStarts(s) : BlankAt(s, j) => q <= j
    BY <1>3, <2>1
  <2>3. ASSUME NEW i \in LineStarts(s), BlankAt(s, i), \A j \in LineStarts(s) : BlankAt(s, j) => i <= j
        PROVE  i = q
    BY <1>3, <2>1, <2>2, <2>3
  <2> QED BY <1>3, <2>2, <2>3
<1> DEFINE LastKey(k) == /\ k < q /\ KeyLineAt(s, k)
                         /\ \A m \in LineStarts(s) : k < m /\ m < q => ~KeyLineAt(s, m)
<1>5. KeyLines(s) = {KeyTextAt(s, i) : i \in {k \in LineStarts(s) : LastKey(k)}}
  BY <1>4 DEF KeyLines, KeyTextAt
<1>6. CASE \A m \in LineStarts(s) : m < q => ~KeyLineAt(s, m)
  <2>1. KeyLines(s) = {}
    BY <1>5, <1>6
  <2>2. key = <<>>
    BY <1>3, <1>6 DEF KeyBefore
  <2> QED BY <1>2, <2>1, <2>2
<1>7. CASE \E i \in LineStarts(s) : LastKey(i) /\ key = KeyTextAt(s, i)
  <2>1. PICK i \in LineStarts(s) : LastKey(i) /\ key = KeyTextAt(s, i)
    BY <1>7
  <2>2. \A k \in LineStarts(s) : LastKey(k) => k = i
    <3>1. ASSUME NEW k \in LineStarts(s), LastKey(k) PROVE k = i
      <4>1. k \in Int /\ i \in Int
        BY DEF LineStarts
      <4> QED BY <2>1, <3>1, <4>1
    <3> QED BY <3>1
  <2> HIDE DEF LastKey
  <2>3. KeyLines(s) = {key}
    BY <1>5, <2>1, <2>2
  <2> QED BY <1>2, <2>3
<1>8. (\A m \in LineStarts(s) : m < q => ~KeyLineAt(s, m)) \/ \E i \in LineStarts(s) : LastKey(i) /\ key = KeyTextAt(s, i)
  BY <1>3, Zenon DEF KeyBefore
<1> QED BY <1>6, <1>7, <1>8

\* A sequence is its first part and what follows it.
LEMMA PartsOf ==
  ASSUME NEW S, NEW s \in Seq(S), NEW m \in 0 .. Len(s), NEW n \in m .. Len(s)
  PROVE  SubSeq(s, 1, m) \o SubSeq(s, m + 1, n) = SubSeq(s, 1, n)
<1>1. Len(s) \in Nat
  BY LenProperties
<1>2. n + 1 \in 1 .. Len(s) + 1
  BY <1>1
<1> DEFINE a == SubSeq(s, 1, m)
           b == SubSeq(s, m + 1, n)
           c == SubSeq(s, 1, n)
<1>3. a \in Seq(S) /\ Len(a) = m /\ \A i \in 1 .. m : a[i] = s[i]
  <2>1. 1 \in 1 .. Len(s) + 1 /\ m \in 1 - 1 .. Len(s) /\ m - 1 + 1 = m
    BY <1>1
  <2>2. a \in Seq(S) /\ Len(a) = m - 1 + 1 /\ \A i \in 1 .. m - 1 + 1 : a[i] = s[1 + i - 1]
    BY <2>1, PartOf
  <2> HIDE DEF a
  <2> QED BY <2>1, <2>2
<1>4. b \in Seq(S) /\ Len(b) = n - m /\ \A i \in 1 .. n - m : b[i] = s[m + i]
  <2>1. m + 1 \in 1 .. Len(s) + 1 /\ n \in (m + 1) - 1 .. Len(s) /\ n - (m + 1) + 1 = n - m
    BY <1>1
  <2>2. b \in Seq(S) /\ Len(b) = n - (m + 1) + 1 /\ \A i \in 1 .. n - (m + 1) + 1 : b[i] = s[(m + 1) + i - 1]
    BY <2>1, PartOf
  <2>3. \A i \in 1 .. n - m : (m + 1) + i - 1 = m + i
    BY <1>1
  <2> HIDE DEF b
  <2> QED BY <2>1, <2>2, <2>3
<1>5. c \in Seq(S) /\ Len(c) = n /\ \A i \in 1 .. n : c[i] = s[i]
  <2>1. 1 \in 1 .. Len(s) + 1 /\ n \in 1 - 1 .. Len(s) /\ n - 1 + 1 = n
    BY <1>1
  <2>2. c \in Seq(S) /\ Len(c) = n - 1 + 1 /\ \A i \in 1 .. n - 1 + 1 : c[i] = s[1 + i - 1]
    BY <2>1, PartOf
  <2> HIDE DEF c
  <2> QED BY <2>1, <2>2
<1> HIDE DEF a, b, c
<1>6. a \o b \in Seq(S) /\ Len(a \o b) = n
      /\ \A i \in 1 .. n : (a \o b)[i] = IF i <= m THEN a[i] ELSE b[i - m]
  <2>1. a \in Seq(S) /\ b \in Seq(S)
    BY <1>3, <1>4
  <2>2. /\ a \o b \in Seq(S) /\ Len(a \o b) = Len(a) + Len(b)
        /\ \A i \in 1 .. Len(a) + Len(b) : (a \o b)[i] = IF i <= Len(a) THEN a[i] ELSE b[i - Len(a)]
    BY <2>1, ConcatProperties, Zenon
  <2>3. Len(a) = m /\ Len(a) + Len(b) = n
    BY <1>1, <1>3, <1>4
  <2> QED BY <2>2, <2>3, Zenon
<1>7. \A i \in 1 .. n : (a \o b)[i] = c[i]
  <2>1. ASSUME NEW i \in 1 .. n PROVE (a \o b)[i] = c[i]
    <3>1. CASE i <= m
      BY <1>1, <1>3, <1>5, <1>6, <3>1
    <3>2. CASE i > m
      <4>1. i - m \in 1 .. n - m /\ m + (i - m) = i /\ ~(i <= m)
        BY <1>1, <3>2
      <4>2. (a \o b)[i] = b[i - m]
        BY <1>6, <4>1
      <4>3. b[i - m] = s[m + (i - m)]
        BY <1>4, <4>1
      <4>4. s[m + (i - m)] = s[i] /\ c[i] = s[i]
        BY <1>5, <2>1, <4>1, Zenon
      <4> QED BY <4>2, <4>3, <4>4, Zenon
    <3>3. i <= m \/ i > m
      BY <1>1, <2>1
    <3> QED BY <3>1, <3>2, <3>3, Zenon
  <2> QED BY <2>1
<1>8. a \o b = c
  BY <1>5, <1>6, <1>7, SeqEqual
<1> QED BY <1>8 DEF a, b, c

HandTypeOK ==
  /\ stream \in Seq(Token) /\ arrived \in 0 .. Len(stream)
  /\ readBuf \in Seq(Token) /\ serverKey \in Seq(Token)
  /\ upgrade \in {"unconnect", "handsharked", "closed"}

HandInv == HandTypeOK /\ HandshakeRight

\* Before the handshake all that has arrived is in the buffer, and has no blank line.
LEMMA HandInitInv == HandInit => HandInv
<1>1. SUFFICES ASSUME HandInit PROVE HandInv
  OBVIOUS
<1>2. stream \in Seq(Token) /\ arrived = 0 /\ readBuf = <<>> /\ upgrade = "unconnect" /\ serverKey = <<>>
  BY <1>1, HandshakeAssumption DEF HandInit
<1>3. Len(stream) \in Nat /\ <<>> \in Seq(Token) /\ Len(<<>>) = 0
  BY <1>2, EmptySeq, LenProperties
<1>4. SubSeq(stream, 1, arrived) = <<>>
  <2>1. SubSeq(stream, 1, 0) = <<>>
    BY <1>2, SubSeqEmpty
  <2> QED BY <1>2, <2>1
<1>5. HeadersOf(<<>>) = <<>>
  <2>1. {i \in 4 .. Len(<<>>) : SubSeq(<<>>, i - 3, i) = BlankLine} = {}
    BY <1>3
  <2> QED BY <2>1 DEF HeadersOf
<1>6. HandTypeOK
  BY <1>2, <1>3 DEF HandTypeOK
<1>7. arrived <= MaxHandshake
  BY <1>2, HandshakeAssumption
<1>8. HandshakeRight
  BY <1>2, <1>4, <1>5, <1>7 DEF HandshakeRight
<1> QED BY <1>6, <1>8 DEF HandInv

\* A read and the drive_io() after it: what is in the buffer is all that has arrived.
LEMMA DriveIoInv ==
  ASSUME HandInv, NEW n \in 1 .. Len(stream), DriveIo(n)
  PROVE  HandInv'
<1> DEFINE received == SubSeq(stream, 1, arrived + n)
           headers == HeadersOf(received)
           info == fetch_http_info(headers)
<1>1. /\ stream \in Seq(Token) /\ Len(stream) \in Nat /\ arrived \in 0 .. Len(stream) /\ arrived + n \in 0 .. Len(stream)
      /\ readBuf \in Seq(Token) /\ serverKey \in Seq(Token) /\ upgrade = "unconnect"
  <2>1. HandTypeOK /\ upgrade = "unconnect" /\ n \in 1 .. Len(stream) - arrived
    BY DEF HandInv, DriveIo
  <2>2. Len(stream) \in Nat
    BY <2>1, LenProperties DEF HandTypeOK
  <2> QED BY <2>1, <2>2 DEF HandTypeOK
<1>2. readBuf \o SubSeq(stream, arrived + 1, arrived + n) = received
  <2>1. readBuf = SubSeq(stream, 1, arrived)
    BY <1>1 DEF HandInv, HandshakeRight
  <2>2. arrived + n \in arrived .. Len(stream)
    BY <1>1
  <2>3. SubSeq(stream, 1, arrived) \o SubSeq(stream, arrived + 1, arrived + n) = SubSeq(stream, 1, arrived + n)
    BY <1>1, <2>2, PartsOf
  <2> QED BY <2>1, <2>3
<1>3. received \in Seq(Token) /\ Len(received) = arrived + n /\ Len(received) \in Nat
  <2>1. 1 \in 1 .. Len(stream) + 1 /\ arrived + n \in 1 - 1 .. Len(stream) /\ (arrived + n) - 1 + 1 = arrived + n
    BY <1>1
  <2>2. received \in Seq(Token) /\ Len(received) = (arrived + n) - 1 + 1
    BY <1>1, <2>1, PartOf
  <2> HIDE DEF received
  <2> QED BY <1>1, <2>1, <2>2
<1>4. stream' = stream /\ arrived' = arrived + n /\ SubSeq(stream', 1, arrived') = received
  BY DEF DriveIo
<1>5. IF Len(received) > MaxHandshake
        THEN readBuf' = received /\ upgrade' = "closed" /\ serverKey' = serverKey
      ELSE IF headers = <<>>
        THEN readBuf' = received /\ upgrade' = upgrade /\ serverKey' = serverKey
      ELSE /\ readBuf' = SubSeq(received, Len(headers) + 1, Len(received))
           /\ upgrade' = IF info.ok THEN "handsharked" ELSE "closed"
           /\ serverKey' = IF info.ok THEN info.key ELSE serverKey
  BY <1>2 DEF DriveIo
<1>6. HandshakeRight' <=>
        /\ upgrade' = "unconnect" => readBuf' = received /\ headers = <<>> /\ arrived' <= MaxHandshake
        /\ upgrade' = "handsharked" =>
             /\ headers \o readBuf' = received
             /\ KeyLines(headers) = IF KeyLines(headers) = {} THEN {} ELSE {serverKey'}
             /\ KeyLines(headers) = {} => serverKey' = <<>>
        /\ upgrade' = "closed" => arrived' > MaxHandshake \/ ~EndsInCR(FirstLine(headers).line)
  <2>1. SubSeq(stream', 1, arrived') = received
    BY <1>4
  <2> HIDE DEF received
  <2> QED BY <2>1, Zenon DEF HandshakeRight
<1> HIDE DEF received
<1>7. CASE Len(received) > MaxHandshake
  <2>1. readBuf' = received /\ upgrade' = "closed" /\ serverKey' = serverKey
    BY <1>5, <1>7
  <2>2. HandTypeOK'
    BY <1>1, <1>3, <1>4, <2>1 DEF HandTypeOK
  <2>3. HandshakeRight'
    BY <1>3, <1>4, <1>6, <1>7, <2>1
  <2> QED BY <2>2, <2>3 DEF HandInv
<1>8. CASE ~(Len(received) > MaxHandshake) /\ headers = <<>>
  <2>1. readBuf' = received /\ upgrade' = "unconnect" /\ serverKey' = serverKey
    BY <1>1, <1>5, <1>8
  <2>2. HandTypeOK'
    BY <1>1, <1>3, <1>4, <2>1 DEF HandTypeOK
  <2>3. arrived' <= MaxHandshake
    BY <1>1, <1>3, <1>4, <1>8, HandshakeAssumption
  <2>4. HandshakeRight'
    BY <1>6, <1>8, <2>1, <2>3
  <2> QED BY <2>2, <2>4 DEF HandInv
<1>9. CASE ~(Len(received) > MaxHandshake) /\ headers # <<>>
  <2>1. /\ readBuf' = SubSeq(received, Len(headers) + 1, Len(received))
        /\ upgrade' = IF info.ok THEN "handsharked" ELSE "closed"
        /\ serverKey' = IF info.ok THEN info.key ELSE serverKey
    BY <1>5, <1>9
  <2>2. EndsBlank(headers) /\ Len(headers) \in 4 .. Len(received) /\ headers = SubSeq(received, 1, Len(headers))
    BY <1>3, <1>9, HeadersFound
  <2>3. info.ok = EndsInCR(FirstLine(headers).line) /\ info.key = KeyFrom(FirstLine(headers).rest)
    BY DEF fetch_http_info
  <2>4. info.key \in Seq(Token)
    <3>1. FirstLine(headers).rest \in Seq(Token)
      BY <2>2, FirstLineType DEF EndsBlank
    <3>2. KeyFrom(FirstLine(headers).rest) \in Seq(Token)
      BY <3>1, KeyFromType
    <3> QED BY <2>3, <3>2
  <2>5. /\ KeyLines(headers) = IF KeyLines(headers) = {} THEN {} ELSE {info.key}
        /\ KeyLines(headers) = {} => info.key = <<>>
    BY <2>2, KeyLinesOf
  <2> HIDE DEF headers, info
  <2>6. readBuf' \in Seq(Token)
    <3>1. Len(headers) + 1 \in 1 .. Len(received) + 1 /\ Len(received) \in (Len(headers) + 1) - 1 .. Len(received)
      BY <1>3, <2>2
    <3>2. SubSeq(received, Len(headers) + 1, Len(received)) \in Seq(Token)
      BY <1>3, <3>1, PartOf
    <3> QED BY <2>1, <3>2
  <2>7. headers \o readBuf' = received
    <3>1. Len(headers) \in 0 .. Len(received) /\ Len(received) \in Len(headers) .. Len(received)
      BY <1>3, <2>2
    <3>2. SubSeq(received, 1, Len(headers)) \o SubSeq(received, Len(headers) + 1, Len(received))
            = SubSeq(received, 1, Len(received))
      BY <1>3, <3>1, PartsOf
    <3>3. SubSeq(received, 1, Len(received)) = received
      BY <1>3, SubSeqFull
    <3> QED BY <2>1, <2>2, <3>2, <3>3, Zenon
  <2>8. CASE info.ok
    <3>1. upgrade' = "handsharked" /\ serverKey' = info.key
      BY <2>1, <2>8
    <3>2. HandTypeOK'
      BY <1>1, <1>4, <2>4, <2>6, <3>1 DEF HandTypeOK
    <3>3. HandshakeRight'
      BY <1>6, <2>5, <2>7, <3>1
    <3> QED BY <3>2, <3>3 DEF HandInv
  <2>9. CASE ~info.ok
    <3>1. upgrade' = "closed" /\ serverKey' = serverKey
      BY <2>1, <2>9
    <3>2. HandTypeOK'
      BY <1>1, <1>4, <2>6, <3>1 DEF HandTypeOK
    <3>3. HandshakeRight'
      BY <1>6, <2>3, <2>9, <3>1
    <3> QED BY <3>2, <3>3 DEF HandInv
  <2> QED BY <2>8, <2>9
<1> QED BY <1>7, <1>8, <1>9

(* In every run of the handshake a client is answered for the key its request  *)
(* holds, whatever its requests are, however their bytes were cut into reads   *)
(* and whatever the limit of a handshake is.                                   *)
THEOREM HandshakeIsRight == HandSpec => [](HandTypeOK /\ HandshakeRight)
<1>1. HandInit => HandInv
  BY HandInitInv
<1>2. HandInv /\ [HandNext]_handVars => HandInv'
  <2>1. SUFFICES ASSUME HandInv, [HandNext]_handVars PROVE HandInv'
    OBVIOUS
  <2>2. CASE HandNext
    BY <2>1, <2>2, DriveIoInv DEF HandNext
  <2>3. CASE UNCHANGED handVars
    BY <2>1, <2>3 DEF handVars, HandInv, HandTypeOK, HandshakeRight
  <2> QED BY <2>1, <2>2, <2>3
<1> QED BY <1>1, <1>2, PTL DEF HandSpec, HandInv

-----------------------------------------------------------------------------
(* Sequences one behind the other *)

\* What stands in a part of a sequence.
LEMMA CutIs ==
  ASSUME NEW S, NEW s \in Seq(S), NEW a \in Nat, NEW l \in Nat, a + l <= Len(s)
  PROVE  /\ SubSeq(s, a + 1, a + l) \in Seq(S) /\ Len(SubSeq(s, a + 1, a + l)) = l
         /\ \A j \in 1 .. l : SubSeq(s, a + 1, a + l)[j] = s[a + j]
<1> DEFINE b == a + 1
           e == a + l
           c == SubSeq(s, b, e)
<1>1. b \in Int /\ e \in Int /\ e - b + 1 = l /\ (l = 0 <=> ~ (b <= e)) /\ \A j \in 1 .. l : b + j - 1 = a + j
  OBVIOUS
<1>2. \A i \in b .. e : s[i] \in S
  <2>1. Len(s) \in Nat /\ \A i \in 1 .. Len(s) : s[i] \in S
    BY LenProperties, ElementOfSeq
  <2>2. \A i \in b .. e : i \in 1 .. Len(s)
    BY <2>1
  <2> QED BY <2>1, <2>2
<1> HIDE DEF b, e
<1>3. /\ c \in Seq(S) /\ Len(c) = IF b <= e THEN e - b + 1 ELSE 0
      /\ \A j \in 1 .. e - b + 1 : c[j] = s[b + j - 1]
  BY <1>1, <1>2, SubSeqProperties
<1> HIDE DEF c
<1>4. Len(c) = l
  BY <1>1, <1>3
<1>5. \A j \in 1 .. l : c[j] = s[a + j]
  BY <1>1, <1>3, Zenon
<1> QED BY <1>3, <1>4, <1>5 DEF b, c, e

\* What stands where in two sequences one behind the other.
LEMMA BehindIs ==
  ASSUME NEW S, NEW r \in Seq(S), NEW p \in Seq(S)
  PROVE  /\ r \o p \in Seq(S) /\ Len(r \o p) = Len(r) + Len(p)
         /\ \A i \in 1 .. Len(r) : (r \o p)[i] = r[i]
         /\ \A j \in 1 .. Len(p) : (r \o p)[Len(r) + j] = p[j]
<1> DEFINE t == r \o p
<1>1. Len(r) \in Nat /\ Len(p) \in Nat
  BY LenProperties
<1>2. /\ t \in Seq(S) /\ Len(t) = Len(r) + Len(p)
      /\ \A i \in 1 .. Len(r) + Len(p) : t[i] = IF i <= Len(r) THEN r[i] ELSE p[i - Len(r)]
  BY ConcatProperties
<1> HIDE DEF t
<1>3. ASSUME NEW i \in 1 .. Len(r) PROVE t[i] = r[i]
  <2>1. i \in 1 .. Len(r) + Len(p) /\ i <= Len(r)
    BY <1>1
  <2> QED BY <1>2, <2>1
<1>4. ASSUME NEW j \in 1 .. Len(p) PROVE t[Len(r) + j] = p[j]
  <2>1. PICK i \in 1 .. Len(r) + Len(p) : i = Len(r) + j
    BY <1>1
  <2>2. ~ (i <= Len(r)) /\ i - Len(r) = j
    BY <1>1, <2>1
  <2>3. t[i] = IF i <= Len(r) THEN r[i] ELSE p[i - Len(r)]
    BY <1>2, Zenon
  <2>4. t[i] = p[j]
    BY <2>2, <2>3, Zenon
  <2> QED BY <2>1, <2>4, Zenon
<1> QED BY <1>2, <1>3, <1>4 DEF t

\* r is the first m sequences of q one behind the other, and the k-th ends at the place at[k].
Spread(S, q, r, at, m) ==
  /\ r \in Seq(S) /\ at \in [0 .. m -> Nat] /\ at[0] = 0 /\ at[m] = Len(r)
  /\ \A k \in 0 .. m : at[k] <= Len(r)
  /\ \A k \in 1 .. m : /\ at[k] = at[k - 1] + Len(q[k])
                       /\ \A j \in 1 .. Len(q[k]) : r[at[k - 1] + j] = q[k][j]

\* One more sequence behind them.
LEMMA SpreadOn ==
  ASSUME NEW S, NEW q \in Seq(Seq(S)), NEW m \in Nat, m + 1 <= Len(q), NEW r, NEW at, Spread(S, q, r, at, m)
  PROVE  \E a : Spread(S, q, r \o q[m + 1], a, m + 1)
<1> DEFINE p == q[m + 1]
           t == r \o p
           a == [k \in 0 .. m + 1 |-> IF k = m + 1 THEN at[m] + Len(p) ELSE at[k]]
<1>1. /\ r \in Seq(S) /\ at \in [0 .. m -> Nat] /\ at[0] = 0 /\ at[m] = Len(r)
      /\ \A k \in 0 .. m : at[k] <= Len(r)
      /\ \A k \in 1 .. m : /\ at[k] = at[k - 1] + Len(q[k])
                           /\ \A j \in 1 .. Len(q[k]) : r[at[k - 1] + j] = q[k][j]
  BY DEF Spread
<1>2. /\ p \in Seq(S) /\ Len(p) \in Nat /\ Len(r) \in Nat /\ Len(q) \in Nat
      /\ \A k \in 1 .. m : q[k] \in Seq(S) /\ Len(q[k]) \in Nat
  <2>1. Len(q) \in Nat /\ \A k \in 1 .. Len(q) : q[k] \in Seq(S)
    BY LenProperties, ElementOfSeq
  <2>2. \A k \in 1 .. Len(q) : Len(q[k]) \in Nat
    BY <2>1, LenProperties
  <2>3. m + 1 \in 1 .. Len(q) /\ \A k \in 1 .. m : k \in 1 .. Len(q)
    BY <2>1
  <2> QED BY <1>1, <2>1, <2>2, <2>3, LenProperties
<1>3. /\ t \in Seq(S) /\ Len(t) = Len(r) + Len(p)
      /\ \A i \in 1 .. Len(r) : t[i] = r[i]
      /\ \A j \in 1 .. Len(p) : t[Len(r) + j] = p[j]
  <2> HIDE DEF p
  <2>1. r \in Seq(S) /\ p \in Seq(S)
    BY <1>1, <1>2
  <2> QED BY <2>1, BehindIs
<1> HIDE DEF t, p
<1>4. /\ a \in [0 .. m + 1 -> Nat] /\ a[m + 1] = Len(t)
      /\ \A k \in 0 .. m : a[k] = at[k]
  BY <1>1, <1>2, <1>3
<1> HIDE DEF a
<1>5. a[0] = 0 /\ a[m] = Len(r)
  BY <1>1, <1>4
<1>6. \A k \in 0 .. m + 1 : a[k] <= Len(t)
  <2>1. TAKE k \in 0 .. m + 1
  <2>2. CASE k \in 0 .. m
    <3>1. a[k] <= Len(r) /\ a[k] \in Nat
      BY <1>1, <1>4, <2>2
    <3> QED BY <1>2, <1>3, <3>1
  <2>3. CASE k = m + 1
    BY <1>2, <1>3, <1>4, <2>3
  <2> QED BY <2>2, <2>3
<1>7. ASSUME NEW k \in 1 .. m + 1
      PROVE  a[k] = a[k - 1] + Len(q[k]) /\ \A j \in 1 .. Len(q[k]) : t[a[k - 1] + j] = q[k][j]
  <2>1. CASE k \in 1 .. m
    <3>1. a[k] = at[k] /\ a[k - 1] = at[k - 1] /\ at[k] <= Len(r) /\ at[k - 1] \in Nat
      <4>1. k \in 0 .. m /\ k - 1 \in 0 .. m
        BY <2>1
      <4> QED BY <1>1, <1>4, <4>1
    <3>2. at[k] = at[k - 1] + Len(q[k]) /\ Len(q[k]) \in Nat
      BY <1>1, <1>2, <2>1
    <3>3. ASSUME NEW j \in 1 .. Len(q[k]) PROVE t[a[k - 1] + j] = q[k][j]
      <4>1. at[k - 1] + j \in 1 .. Len(r)
        <5>1. j \in Nat /\ j >= 1 /\ j <= Len(q[k]) /\ Len(r) \in Nat
          BY <1>2, <3>2, <3>3
        <5>2. at[k - 1] + Len(q[k]) <= Len(r)
          BY <3>1, <3>2
        <5> DEFINE b == at[k - 1]
                   l == Len(q[k])
                   n == Len(r)
        <5>3. b \in Nat /\ j \in Nat /\ j >= 1 /\ j <= l /\ l \in Nat /\ n \in Nat /\ b + l <= n
          BY <3>1, <3>2, <5>1, <5>2
        <5> HIDE DEF b, l, n
        <5>4. b + j \in 1 .. n
          BY <5>3
        <5> QED BY <5>4 DEF b, n
      <4>2. t[at[k - 1] + j] = r[at[k - 1] + j]
        BY <1>3, <4>1
      <4>3. r[at[k - 1] + j] = q[k][j]
        BY <1>1, <2>1, <3>3
      <4> QED BY <3>1, <4>2, <4>3
    <3> QED BY <3>1, <3>2, <3>3
  <2>2. CASE k = m + 1
    <3>1. a[k - 1] = Len(r) /\ q[k] = p
      BY <1>5, <2>2 DEF p
    <3>2. a[k] = Len(r) + Len(p)
      BY <1>3, <1>4, <2>2
    <3> QED BY <1>3, <3>1, <3>2
  <2> QED BY <2>1, <2>2
<1>8. Spread(S, q, t, a, m + 1)
  BY <1>3, <1>4, <1>5, <1>6, <1>7 DEF Spread
<1> QED BY <1>8 DEF t, p

\* A function as FlattenSeq() has it, of the first m sequences.
Flat(q, f, m) == f = [i \in 1 .. m |-> IF i = 1 THEN q[i] ELSE f[i - 1] \o q[i]]

\* There is one.
LEMMA FlatIs ==
  ASSUME NEW q, NEW n \in Nat
  PROVE  \E f : Flat(q, f, n)
<1> DEFINE T == {m \in Nat : \E f : Flat(q, f, m)}
<1>1. 0 \in T
  <2> DEFINE f == [i \in 1 .. 0 |-> q[i]]
  <2>1. f = [i \in 1 .. 0 |-> IF i = 1 THEN q[i] ELSE f[i - 1] \o q[i]]
    OBVIOUS
  <2> HIDE DEF f
  <2>2. Flat(q, f, 0)
    BY <2>1 DEF Flat
  <2> QED BY <2>2
<1>2. ASSUME NEW m \in Nat, m \in T PROVE m + 1 \in T
  <2>1. PICK f : Flat(q, f, m)
    BY <1>2
  <2>2. f = [i \in 1 .. m |-> IF i = 1 THEN q[i] ELSE f[i - 1] \o q[i]]
    BY <2>1 DEF Flat
  <2> DEFINE last == IF m = 0 THEN q[1] ELSE f[m] \o q[m + 1]
             g == [i \in 1 .. m + 1 |-> IF i = m + 1 THEN last ELSE f[i]]
  <2>3. ASSUME NEW i \in 1 .. m + 1 PROVE g[i] = IF i = 1 THEN q[i] ELSE g[i - 1] \o q[i]
    <3>1. CASE i = m + 1
      <4>1. g[i] = last
        BY <3>1
      <4>2. m # 0 => g[i - 1] = f[m]
        BY <3>1
      <4> QED BY <3>1, <4>1, <4>2
    <3>2. CASE i # m + 1
      <4>1. i \in 1 .. m
        BY <3>2
      <4>2. g[i] = f[i]
        BY <3>2
      <4>3. f[i] = IF i = 1 THEN q[i] ELSE f[i - 1] \o q[i]
        BY <2>2, <4>1
      <4>4. i # 1 => g[i - 1] = f[i - 1]
        <5>1. i # 1 => i - 1 \in 1 .. m + 1 /\ i - 1 # m + 1
          BY <4>1
        <5> QED BY <5>1
      <4> QED BY <4>2, <4>3, <4>4
    <3> QED BY <3>1, <3>2
  <2>4. g = [i \in 1 .. m + 1 |-> g[i]]
    OBVIOUS
  <2> HIDE DEF g
  <2>5. g = [i \in 1 .. m + 1 |-> IF i = 1 THEN q[i] ELSE g[i - 1] \o q[i]]
    BY <2>3, <2>4
  <2>6. Flat(q, g, m + 1)
    BY <2>5 DEF Flat
  <2> QED BY <2>6
<1> HIDE DEF T
<1>3. n \in T
  BY <1>1, <1>2, InductionOn, Zenon
<1> QED BY <1>3 DEF T

\* Each of its values has the sequences up to there one behind the other.
LEMMA FlatSpreads ==
  ASSUME NEW S, NEW q \in Seq(Seq(S)), Len(q) # 0, NEW f, Flat(q, f, Len(q))
  PROVE  \E at : Spread(S, q, f[Len(q)], at, Len(q))
<1> DEFINE T == {m \in Nat : m + 1 <= Len(q) => \E at : Spread(S, q, f[m + 1], at, m + 1)}
<1>1. Len(q) \in Nat /\ \A k \in 1 .. Len(q) : q[k] \in Seq(S)
  BY LenProperties, ElementOfSeq
<1>2. \A i \in 1 .. Len(q) : f[i] = IF i = 1 THEN q[i] ELSE f[i - 1] \o q[i]
  BY DEF Flat
<1>3. 0 \in T
  <2>1. SUFFICES ASSUME 1 <= Len(q) PROVE \E at : Spread(S, q, f[1], at, 1)
    OBVIOUS
  <2>2. PICK z \in Nat : z = 0
    OBVIOUS
  <2>3. z + 1 = 1 /\ z + 1 <= Len(q)
    BY <1>1, <2>1, <2>2
  <2> DEFINE none == [k \in 0 .. 0 |-> 0]
  <2>4. Spread(S, q, <<>>, none, z)
    <3>1. <<>> \in Seq(S) /\ Len(<<>>) = 0
      BY EmptySeq
    <3> QED BY <2>2, <3>1 DEF Spread
  <2> HIDE DEF none
  <2>5. \E a : Spread(S, q, <<>> \o q[z + 1], a, z + 1)
    BY <1>1, <2>3, <2>4, SpreadOn
  <2>6. <<>> \o q[1] = q[1] /\ f[1] = q[1]
    <3>1. q[1] \in Seq(S) /\ 1 \in 1 .. Len(q)
      BY <1>1, <2>1
    <3> QED BY <1>2, <3>1, ConcatEmptySeq
  <2> QED BY <2>3, <2>5, <2>6
<1>4. ASSUME NEW m \in Nat, m \in T PROVE m + 1 \in T
  <2>1. SUFFICES ASSUME m + 1 + 1 <= Len(q) PROVE \E at : Spread(S, q, f[m + 1 + 1], at, m + 1 + 1)
    BY <1>4
  <2> DEFINE n == m + 1
  <2>2. n \in Nat /\ n >= 1 /\ n + 1 <= Len(q) /\ n + 1 \in 1 .. Len(q) /\ n + 1 # 1 /\ n + 1 - 1 = n
    BY <1>1, <2>1
  <2>3. PICK at : Spread(S, q, f[n], at, n)
    BY <1>1, <1>4, <2>1
  <2> HIDE DEF n
  <2>4. f[n + 1] = f[n] \o q[n + 1]
    <3>1. PICK x \in 1 .. Len(q) : x = n + 1
      BY <2>2
    <3>2. f[x] = IF x = 1 THEN q[x] ELSE f[x - 1] \o q[x]
      BY <1>2, Zenon
    <3>3. x # 1 /\ x - 1 = n
      BY <2>2, <3>1
    <3>4. f[x] = f[n] \o q[x]
      BY <3>2, <3>3, Zenon
    <3> QED BY <3>1, <3>4, Zenon
  <2>5. \E a : Spread(S, q, f[n + 1], a, n + 1)
    BY <2>2, <2>3, <2>4, SpreadOn
  <2> QED BY <2>5 DEF n
<1> HIDE DEF T
<1>5. \A m \in Nat : m \in T
  BY <1>3, <1>4, InductionOn, Zenon
<1>6. Len(q) - 1 \in Nat /\ Len(q) - 1 + 1 = Len(q) /\ Len(q) <= Len(q)
  BY <1>1
<1>7. Len(q) - 1 \in T
  BY <1>5, <1>6
<1> QED BY <1>6, <1>7 DEF T

\* FlattenSeq() puts the sequences one behind the other.
LEMMA FlattenIs ==
  ASSUME NEW S, NEW q \in Seq(Seq(S))
  PROVE  \E at : Spread(S, q, FlattenSeq(q), at, Len(q))
<1>1. CASE Len(q) = 0
  <2>1. FlattenSeq(q) = q
    BY <1>1, Zenon DEF FlattenSeq
  <2>2. q = <<>>
    BY <1>1, EmptySeq
  <2>3. <<>> \in Seq(S) /\ Len(<<>>) = 0
    BY EmptySeq
  <2>4. Spread(S, q, <<>>, [k \in 0 .. 0 |-> 0], 0)
    BY <2>3 DEF Spread
  <2> QED BY <1>1, <2>1, <2>2, <2>4
<1>2. CASE Len(q) # 0
  <2> DEFINE flatten[i \in 1 .. Len(q)] == IF i = 1 THEN q[i] ELSE flatten[i - 1] \o q[i]
  <2>1. FlattenSeq(q) = flatten[Len(q)]
    BY <1>2, Zenon DEF FlattenSeq
  <2>2. Len(q) \in Nat
    BY LenProperties
  <2>3. \E f : Flat(q, f, Len(q))
    BY <2>2, FlatIs
  <2>4. \E f : f = [i \in 1 .. Len(q) |-> IF i = 1 THEN q[i] ELSE f[i - 1] \o q[i]]
    BY <2>3, Zenon DEF Flat
  <2>5. flatten = [i \in 1 .. Len(q) |-> IF i = 1 THEN q[i] ELSE flatten[i - 1] \o q[i]]
    BY <2>4, Zenon
  <2> HIDE DEF flatten
  <2>6. Flat(q, flatten, Len(q))
    BY <2>5, Zenon DEF Flat
  <2> QED BY <1>2, <2>1, <2>6, FlatSpreads
<1> QED BY <1>1, <1>2

\* Sequences of three, or of four, one behind the other.
LEMMA FlattenEven ==
  ASSUME NEW S, NEW q \in Seq(Seq(S)), NEW c \in {3, 4}, \A k \in 1 .. Len(q) : Len(q[k]) = c
  PROVE  /\ FlattenSeq(q) \in Seq(S) /\ Len(FlattenSeq(q)) = c * Len(q)
         /\ \A k \in 1 .. Len(q) : \A j \in 1 .. c : FlattenSeq(q)[c * (k - 1) + j] = q[k][j]
<1> DEFINE r == FlattenSeq(q)
           n == Len(q)
<1>1. PICK at : Spread(S, q, r, at, n)
  BY FlattenIs
<1> HIDE DEF r
<1>2. /\ r \in Seq(S) /\ at \in [0 .. n -> Nat] /\ at[0] = 0 /\ at[n] = Len(r)
      /\ \A k \in 1 .. n : /\ at[k] = at[k - 1] + Len(q[k])
                           /\ \A j \in 1 .. Len(q[k]) : r[at[k - 1] + j] = q[k][j]
  BY <1>1 DEF Spread
<1>3. n \in Nat
  BY LenProperties
<1> HIDE DEF n
<1>4. \A k \in 1 .. n : at[k] = at[k - 1] + c /\ \A j \in 1 .. c : r[at[k - 1] + j] = q[k][j]
  BY <1>2 DEF n
<1> DEFINE T == {k \in Nat : k <= n => at[k] = c * k}
<1>5. 0 \in T
  BY <1>2
<1>6. ASSUME NEW k \in Nat, k \in T PROVE k + 1 \in T
  <2>1. SUFFICES ASSUME k + 1 <= n PROVE at[k + 1] = c * (k + 1)
    BY <1>6
  <2>2. at[k] = c * k
    BY <1>3, <1>6, <2>1
  <2>3. PICK x \in 1 .. n : x = k + 1
    BY <1>3, <2>1
  <2>4. at[x] = at[x - 1] + c /\ x - 1 = k
    BY <1>4, <2>3
  <2>5. at[x] = c * k + c
    BY <2>2, <2>4, Zenon
  <2>6. c * k + c = c * (k + 1)
    <3>1. CASE c = 3
      BY <3>1
    <3>2. CASE c = 4
      BY <3>2
    <3> QED BY <3>1, <3>2
  <2> QED BY <2>3, <2>5, <2>6, Zenon
<1> HIDE DEF T
<1>7. \A k \in Nat : k \in T
  BY <1>5, <1>6, InductionOn, Zenon
<1>8. \A k \in 0 .. n : at[k] = c * k
  <2> TAKE k \in 0 .. n
  <2>1. k \in Nat /\ k <= n /\ k \in T
    BY <1>3, <1>7
  <2> QED BY <2>1 DEF T
<1>9. Len(r) = c * n
  BY <1>2, <1>3, <1>8
<1>10. ASSUME NEW k \in 1 .. n, NEW j \in 1 .. c PROVE r[c * (k - 1) + j] = q[k][j]
  <2>1. k - 1 \in 0 .. n
    BY <1>3
  <2>2. at[k - 1] = c * (k - 1)
    BY <1>8, <2>1
  <2>3. r[at[k - 1] + j] = q[k][j]
    BY <1>4
  <2> QED BY <2>2, <2>3, Zenon
<1> QED BY <1>2, <1>9, <1>10 DEF r, n

-----------------------------------------------------------------------------
(* UrlEncode and UrlDecode, HttpClient.cpp *)

Octets == 0 .. 255

\* What UrlEncode writes for one octet.
UrlCode(c) ==
  CASE Plain(c) -> <<c>>
    [] c = 32   -> <<43>>
    [] OTHER    -> <<37, Hex2Char(c \div 16), Hex2Char(c % 16)>>

\* One turn of UrlDecode at the place i, the rest after one octet being r1 and after three r3.
UrlTurn(e, i, r1, r3) ==
  IF i > Len(e) THEN <<>>
  ELSE IF Plain(e[i]) THEN <<e[i]>> \o r1
  ELSE IF e[i] = 43 THEN <<32>> \o r1
  ELSE IF e[i] # 37 THEN r1
  ELSE IF i + 2 > Len(e) THEN <<>>
  ELSE <<((Char2Hex(e[i + 1]) % 16) * 16 + Char2Hex(e[i + 2])) % 256>> \o r3

\* A function as UrlDecode has it.
UrlTurns(e, g) ==
  g = [i \in 1 .. Len(e) + 1 |->
        IF i > Len(e) THEN <<>>
        ELSE IF Plain(e[i]) THEN <<e[i]>> \o g[i + 1]
        ELSE IF e[i] = 43 THEN <<32>> \o g[i + 1]
        ELSE IF e[i] # 37 THEN g[i + 1]
        ELSE IF i + 2 > Len(e) THEN <<>>
        ELSE <<((Char2Hex(e[i + 1]) % 16) * 16 + Char2Hex(e[i + 2])) % 256>> \o g[i + 3]]

\* There is one: its values are determined from the last place to the first.
LEMMA UrlTurnsExist ==
  ASSUME NEW e, Len(e) \in Nat
  PROVE  \E g : UrlTurns(e, g)
<1> DEFINE L == Len(e)
           T == {m \in Nat : \E g : \A i \in 1 .. L + 1 : i + m > L + 1 => g[i] = UrlTurn(e, i, g[i + 1], g[i + 3])}
<1>1. 0 \in T
  <2>1. \A i \in 1 .. L + 1 : ~ (i + 0 > L + 1)
    OBVIOUS
  <2> QED BY <2>1
<1>2. ASSUME NEW m \in Nat, m \in T PROVE m + 1 \in T
  <2>1. PICK g : \A i \in 1 .. L + 1 : i + m > L + 1 => g[i] = UrlTurn(e, i, g[i + 1], g[i + 3])
    BY <1>2
  <2> DEFINE h == [i \in 1 .. L + 4 |-> IF i + m = L + 1 THEN UrlTurn(e, i, g[i + 1], g[i + 3]) ELSE g[i]]
  <2>2. ASSUME NEW i \in 1 .. L + 1, i + (m + 1) > L + 1 PROVE h[i] = UrlTurn(e, i, h[i + 1], h[i + 3])
    <3>1. /\ i \in 1 .. L + 4 /\ i + 1 \in 1 .. L + 4 /\ i + 3 \in 1 .. L + 4
          /\ i + 1 + m # L + 1 /\ i + 3 + m # L + 1
      BY <2>2
    <3>2. h[i + 1] = g[i + 1] /\ h[i + 3] = g[i + 3]
      BY <3>1
    <3>3. h[i] = UrlTurn(e, i, g[i + 1], g[i + 3])
      <4>1. CASE i + m = L + 1
        BY <3>1, <4>1
      <4>2. CASE i + m # L + 1
        <5>1. i + m > L + 1
          BY <2>2, <4>2
        <5>2. g[i] = UrlTurn(e, i, g[i + 1], g[i + 3])
          BY <2>1, <5>1
        <5> QED BY <3>1, <4>2, <5>2
      <4> QED BY <4>1, <4>2
    <3> HIDE DEF h
    <3> QED BY <3>2, <3>3
  <2> HIDE DEF h
  <2> QED BY <2>2
<1>3. L + 1 \in Nat
  OBVIOUS
<1> HIDE DEF T
<1>4. L + 1 \in T
  BY <1>1, <1>2, <1>3, InductionOn, Zenon
<1>5. PICK g : \A i \in 1 .. L + 1 : i + (L + 1) > L + 1 => g[i] = UrlTurn(e, i, g[i + 1], g[i + 3])
  BY <1>4 DEF T
<1> DEFINE f == [i \in 1 .. L + 1 |-> g[i]]
           Body(i) == IF i > Len(e) THEN <<>>
                      ELSE IF Plain(e[i]) THEN <<e[i]>> \o f[i + 1]
                      ELSE IF e[i] = 43 THEN <<32>> \o f[i + 1]
                      ELSE IF e[i] # 37 THEN f[i + 1]
                      ELSE IF i + 2 > Len(e) THEN <<>>
                      ELSE <<((Char2Hex(e[i + 1]) % 16) * 16 + Char2Hex(e[i + 2])) % 256>> \o f[i + 3]
<1>6. ASSUME NEW i \in 1 .. L + 1 PROVE f[i] = Body(i)
  <2>1. f[i] = UrlTurn(e, i, g[i + 1], g[i + 3])
    BY <1>5
  <2>2. i <= L => f[i + 1] = g[i + 1]
    OBVIOUS
  <2>3. i + 2 <= L => f[i + 3] = g[i + 3]
    OBVIOUS
  <2> HIDE DEF f
  <2>4. CASE i > L
    BY <2>1, <2>4 DEF UrlTurn
  <2>5. CASE i <= L /\ ~ (i + 2 <= L)
    <3>1. ~ (i > Len(e)) /\ i + 2 > Len(e) /\ f[i + 1] = g[i + 1]
      BY <2>2, <2>5
    <3> QED BY <2>1, <3>1, Zenon DEF UrlTurn
  <2>6. CASE i + 2 <= L
    <3>1. ~ (i > Len(e)) /\ ~ (i + 2 > Len(e)) /\ f[i + 1] = g[i + 1] /\ f[i + 3] = g[i + 3]
      BY <2>2, <2>3, <2>6
    <3> QED BY <2>1, <3>1, Zenon DEF UrlTurn
  <2> QED BY <2>4, <2>5, <2>6
<1>7. f = [i \in 1 .. L + 1 |-> f[i]]
  OBVIOUS
<1> HIDE DEF f
<1>8. f = [i \in 1 .. Len(e) + 1 |-> Body(i)]
  BY <1>6, <1>7
<1>9. UrlTurns(e, f)
  BY <1>8, Zenon DEF UrlTurns
<1> QED BY <1>9

\* A function whose value at every place is one turn.
UrlValues(e, g) == \A i \in 1 .. Len(e) + 1 : g[i] = UrlTurn(e, i, g[i + 1], g[i + 3])

\* A function as UrlDecode has it is one.
LEMMA UrlTurnIs ==
  ASSUME NEW e, NEW g, UrlTurns(e, g)
  PROVE  UrlValues(e, g)
<1> SUFFICES ASSUME NEW i \in 1 .. Len(e) + 1 PROVE g[i] = UrlTurn(e, i, g[i + 1], g[i + 3])
  BY DEF UrlValues
<1> DEFINE B(f) == [x \in 1 .. Len(e) + 1 |-> UrlTurn(e, x, f[x + 1], f[x + 3])]
<1>1. g = B(g)
  BY Zenon DEF UrlTurns, UrlTurn
<1>2. \A f : B(f)[i] = UrlTurn(e, i, f[i + 1], f[i + 3])
  BY Zenon
<1> HIDE DEF B
<1>3. g[i] = B(g)[i]
  BY <1>1, Zenon
<1> QED BY <1>2, <1>3, Zenon

\* The two digits of an octet are read back as the octet.
LEMMA HexReadsBack ==
  ASSUME NEW c \in Octets
  PROVE  ((Char2Hex(Hex2Char(c \div 16)) % 16) * 16 + Char2Hex(Hex2Char(c % 16))) % 256 = c
<1>1. ASSUME NEW x \in 0 .. 15 PROVE Char2Hex(Hex2Char(x)) = x
  BY DEF Char2Hex, Hex2Char
<1>2. c \div 16 \in 0 .. 15 /\ c % 16 \in 0 .. 15 /\ (c \div 16) * 16 + (c % 16) = c
  BY DEF Octets
<1>3. Char2Hex(Hex2Char(c \div 16)) = c \div 16 /\ Char2Hex(Hex2Char(c % 16)) = c % 16
  BY <1>1, <1>2
<1>4. (c \div 16) % 16 = c \div 16 /\ c % 256 = c
  BY <1>2 DEF Octets
<1> QED BY <1>2, <1>3, <1>4

\* The octets of a code are octets.
LEMMA UrlCodeType ==
  ASSUME NEW c \in Octets
  PROVE  /\ UrlCode(c) \in Seq(Octets)
         /\ Len(UrlCode(c)) = IF Plain(c) \/ c = 32 THEN 1 ELSE 3
<1>1. CASE Plain(c)
  <2>1. UrlCode(c) = <<c>>
    <3>1. c # 32
      BY <1>1 DEF Plain
    <3> QED BY <1>1, <3>1 DEF UrlCode
  <2> QED BY <1>1, <2>1
<1>2. CASE ~ Plain(c) /\ c = 32
  <2>1. UrlCode(c) = <<43>>
    BY <1>2 DEF UrlCode
  <2>2. <<43>> \in Seq(Octets) /\ Len(<<43>>) = 1
    BY DEF Octets
  <2> QED BY <1>2, <2>1, <2>2, Zenon
<1>3. CASE ~ Plain(c) /\ c # 32
  <2>1. UrlCode(c) = <<37, Hex2Char(c \div 16), Hex2Char(c % 16)>>
    BY <1>3 DEF UrlCode
  <2>2. c \div 16 \in 0 .. 15 /\ c % 16 \in 0 .. 15
    BY DEF Octets
  <2>3. \A x \in 0 .. 15 : Hex2Char(x) \in Octets
    BY DEF Hex2Char, Octets
  <2>4. 37 \in Octets /\ Hex2Char(c \div 16) \in Octets /\ Hex2Char(c % 16) \in Octets
    BY <2>2, <2>3 DEF Octets
  <2> QED BY <1>3, <2>1, <2>4
<1> QED BY <1>1, <1>2, <1>3

\* A space and the separators of a query are no octets that stand for themselves.
LEMMA PlainIs == \A x \in Octets : Plain(x) => x # 32 /\ x # 38 /\ x # 61
BY DEF Plain, Octets

\* Where the code of an octet stands, UrlDecode takes it for the octet and goes on behind it.
LEMMA UrlCodeReadsBack ==
  ASSUME NEW e, Len(e) \in Nat, NEW g, UrlValues(e, g), NEW c \in Octets, NEW i \in 1 .. Len(e),
         i + Len(UrlCode(c)) <= Len(e) + 1,
         \A j \in 1 .. Len(UrlCode(c)) : e[i + j - 1] = UrlCode(c)[j]
  PROVE  g[i] = <<c>> \o g[i + Len(UrlCode(c))]
<1>1. g[i] = UrlTurn(e, i, g[i + 1], g[i + 3])
  <2>1. i \in 1 .. Len(e) + 1
    OBVIOUS
  <2> QED BY <2>1, Zenon DEF UrlValues
<1>2. Len(UrlCode(c)) = IF Plain(c) \/ c = 32 THEN 1 ELSE 3
  BY UrlCodeType
<1>3. ~ (i > Len(e)) /\ i + 1 - 1 = i /\ i + 2 - 1 = i + 1 /\ i + 3 - 1 = i + 2
  OBVIOUS
<1>4. CASE Plain(c)
  <2>1. c # 32
    BY <1>4, PlainIs, Zenon
  <2>2. UrlCode(c) = <<c>> /\ Len(UrlCode(c)) = 1
    BY <1>2, <1>4, <2>1 DEF UrlCode
  <2>3. e[i] = c
    BY <1>3, <2>2
  <2> QED BY <1>1, <1>3, <1>4, <2>2, <2>3 DEF UrlTurn
<1>5. CASE ~ Plain(c) /\ c = 32
  <2>1. UrlCode(c) = <<43>> /\ Len(UrlCode(c)) = 1
    BY <1>2, <1>5 DEF UrlCode
  <2>2. e[i] = 43 /\ ~ Plain(43)
    BY <1>3, <2>1 DEF Plain
  <2> QED BY <1>1, <1>3, <1>5, <2>1, <2>2 DEF UrlTurn
<1>6. CASE ~ Plain(c) /\ c # 32
  <2>1. UrlCode(c) = <<37, Hex2Char(c \div 16), Hex2Char(c % 16)>> /\ Len(UrlCode(c)) = 3
    BY <1>2, <1>6 DEF UrlCode
  <2>2. ~ Plain(37) /\ 37 # 43
    BY DEF Plain
  <2>3. e[i] = 37 /\ e[i + 1] = Hex2Char(c \div 16) /\ e[i + 2] = Hex2Char(c % 16)
    <3>1. e[i + 1 - 1] = UrlCode(c)[1] /\ e[i + 2 - 1] = UrlCode(c)[2] /\ e[i + 3 - 1] = UrlCode(c)[3]
      <4>1. 1 \in 1 .. Len(UrlCode(c)) /\ 2 \in 1 .. Len(UrlCode(c)) /\ 3 \in 1 .. Len(UrlCode(c))
        BY <2>1
      <4> QED BY <4>1
    <3>2. UrlCode(c)[1] = 37 /\ UrlCode(c)[2] = Hex2Char(c \div 16) /\ UrlCode(c)[3] = Hex2Char(c % 16)
      BY <2>1
    <3> QED BY <1>3, <3>1, <3>2, Zenon
  <2>4. ~ (i + 2 > Len(e))
    BY <2>1
  <2>5. UrlTurn(e, i, g[i + 1], g[i + 3]) =
          <<((Char2Hex(e[i + 1]) % 16) * 16 + Char2Hex(e[i + 2])) % 256>> \o g[i + 3]
    BY <1>3, <2>2, <2>3, <2>4, Zenon DEF UrlTurn
  <2>6. ((Char2Hex(e[i + 1]) % 16) * 16 + Char2Hex(e[i + 2])) % 256 = c
    BY <2>3, HexReadsBack, Zenon
  <2> QED BY <1>1, <2>1, <2>5, <2>6, Zenon
<1> QED BY <1>4, <1>5, <1>6

(* UrlDecode after UrlEncode gives back every text of octets, whatever its length: what a *)
(* program of HttpClient writes into a query is what the other side reads out of it.      *)
THEOREM UrlTextsReadBack == \A data \in Seq(Octets) : UrlRoundTrip(data)
<1> SUFFICES ASSUME NEW data \in Seq(Octets) PROVE UrlRoundTrip(data)
  OBVIOUS
<1> DEFINE n == Len(data)
           q == [i \in DOMAIN data |-> UrlCode(data[i])]
           e == UrlEncode(data)
<1>1. n \in Nat /\ DOMAIN data = 1 .. n /\ \A i \in 1 .. n : data[i] \in Octets
  BY LenProperties, ElementOfSeq
<1>2. e = FlattenSeq(q)
  BY Zenon DEF UrlEncode, UrlCode
<1>3. q \in Seq(Seq(Octets)) /\ Len(q) = n /\ \A k \in 1 .. n : q[k] = UrlCode(data[k])
  <2>1. \A i \in 1 .. n : UrlCode(data[i]) \in Seq(Octets)
    BY <1>1, UrlCodeType
  <2> QED BY <1>1, <2>1
<1> HIDE DEF q
<1>4. PICK at : Spread(Octets, q, FlattenSeq(q), at, n)
  BY <1>3, FlattenIs
<1>5. Spread(Octets, q, e, at, n)
  BY <1>2, <1>4, Zenon
<1> HIDE DEF e
<1>6. /\ e \in Seq(Octets) /\ at \in [0 .. n -> Nat] /\ at[0] = 0 /\ at[n] = Len(e)
      /\ \A k \in 0 .. n : at[k] <= Len(e)
      /\ \A k \in 1 .. n : /\ at[k] = at[k - 1] + Len(q[k])
                           /\ \A j \in 1 .. Len(q[k]) : e[at[k - 1] + j] = q[k][j]
  BY <1>5 DEF Spread
<1>7. Len(e) \in Nat
  BY <1>6, LenProperties
<1> DEFINE decode[i \in 1 .. Len(e) + 1] ==
             IF i > Len(e) THEN <<>>
             ELSE IF Plain(e[i]) THEN <<e[i]>> \o decode[i + 1]
             ELSE IF e[i] = 43 THEN <<32>> \o decode[i + 1]
             ELSE IF e[i] # 37 THEN decode[i + 1]
             ELSE IF i + 2 > Len(e) THEN <<>>
             ELSE <<((Char2Hex(e[i + 1]) % 16) * 16 + Char2Hex(e[i + 2])) % 256>> \o decode[i + 3]
<1>8. UrlDecode(e) = decode[1]
  BY Zenon DEF UrlDecode
<1>9. UrlTurns(e, decode) /\ UrlValues(e, decode)
  <2>1. \E g : UrlTurns(e, g)
    BY <1>7, UrlTurnsExist
  <2>2. UrlTurns(e, decode)
    BY <2>1, Zenon DEF UrlTurns
  <2> QED BY <2>2, UrlTurnIs
<1> HIDE DEF decode
<1> DEFINE T == {m \in Nat : m <= n => decode[at[n - m] + 1] = SubSeq(data, n - m + 1, n)}
<1>10. 0 \in T
  <2>1. decode[Len(e) + 1] = <<>>
    BY <1>7, <1>9 DEF UrlTurns
  <2>2. SubSeq(data, n + 1, n) = <<>>
    BY <1>1
  <2>3. n - 0 = n
    BY <1>1
  <2> QED BY <1>6, <2>1, <2>2, <2>3
<1>11. ASSUME NEW m \in Nat, m \in T PROVE m + 1 \in T
  <2>1. SUFFICES ASSUME m + 1 <= n PROVE decode[at[n - (m + 1)] + 1] = SubSeq(data, n - (m + 1) + 1, n)
    BY <1>11
  <2> DEFINE k == n - m
             c == data[k]
  <2>2. k \in 1 .. n /\ k - 1 \in 0 .. n /\ k \in 0 .. n /\ n - (m + 1) = k - 1 /\ k - 1 + 1 = k /\ n - m = k /\ m <= n
    BY <1>1, <2>1
  <2>3. decode[at[k] + 1] = SubSeq(data, k + 1, n)
    BY <1>11, <2>2
  <2> HIDE DEF k
  <2>4. c \in Octets /\ q[k] = UrlCode(c)
    BY <1>1, <1>3, <2>2
  <2> HIDE DEF c
  <2>5. at[k] = at[k - 1] + Len(UrlCode(c)) /\ at[k] <= Len(e) /\ at[k - 1] \in Nat /\ Len(UrlCode(c)) \in 1 .. 3
    <3>1. Len(UrlCode(c)) \in 1 .. 3
      BY <2>4, UrlCodeType
    <3> QED BY <1>6, <2>2, <2>4, <3>1
  <2> DEFINE i == at[k - 1] + 1
  <2>6. i \in 1 .. Len(e) /\ i + Len(UrlCode(c)) = at[k] + 1 /\ i + Len(UrlCode(c)) <= Len(e) + 1
    <3> DEFINE l == Len(UrlCode(c))
               o == at[k - 1]
               p == at[k]
    <3>1. p = o + l /\ p <= Len(e) /\ o \in Nat /\ l \in 1 .. 3
      BY <2>5
    <3> HIDE DEF l, o, p
    <3>2. o + 1 \in 1 .. Len(e) /\ o + 1 + l = p + 1 /\ o + 1 + l <= Len(e) + 1
      BY <1>7, <3>1
    <3> QED BY <3>2 DEF l, o, p
  <2>7. \A j \in 1 .. Len(UrlCode(c)) : e[i + j - 1] = UrlCode(c)[j]
    <3>1. \A j \in 1 .. Len(UrlCode(c)) : e[at[k - 1] + j] = UrlCode(c)[j]
      BY <1>6, <2>2, <2>4
    <3>2. \A j \in 1 .. Len(UrlCode(c)) : i + j - 1 = at[k - 1] + j
      BY <2>5
    <3> QED BY <3>1, <3>2, Zenon
  <2> HIDE DEF i
  <2>8. decode[i] = <<c>> \o decode[i + Len(UrlCode(c))]
    <3> DEFINE l == Len(UrlCode(c))
    <3>1. i + l <= Len(e) + 1 /\ i \in 1 .. Len(e) /\ \A j \in 1 .. l : e[i + j - 1] = UrlCode(c)[j]
      BY <2>6, <2>7, Zenon
    <3> QED BY <1>7, <1>9, <2>4, <3>1, UrlCodeReadsBack, Zenon
  <2>9. decode[i] = <<c>> \o SubSeq(data, k + 1, n)
    BY <2>3, <2>6, <2>8
  <2>10. <<data[k]>> \o SubSeq(data, k + 1, n) = SubSeq(data, k, n)
    BY <2>2, SubSeqRecursiveFirst
  <2> QED BY <2>2, <2>9, <2>10, Zenon DEF i, c
<1> HIDE DEF T
<1>12. n \in T
  BY <1>1, <1>10, <1>11, InductionOn, Zenon
<1>13. decode[at[n - n] + 1] = SubSeq(data, n - n + 1, n)
  BY <1>1, <1>12 DEF T
<1>14. n - n = 0 /\ n - n + 1 = 1 /\ at[n - n] + 1 = 1
  BY <1>1, <1>6
<1>15. SubSeq(data, 1, n) = data
  BY <1>1
<1>16. UrlDecode(e) = data
  <2>1. decode[1] = SubSeq(data, 1, n)
    BY <1>13, <1>14, Zenon
  <2> QED BY <1>8, <1>15, <2>1, Zenon
<1> QED BY <1>16, Zenon DEF UrlRoundTrip, e

-----------------------------------------------------------------------------
(* base64_encode and base64_decode, base64.cpp *)

Indices == 0 .. 63
Chars == 0 .. 65

\* Every character is a number; those of base64_chars are below Equals.
LEMMA CharIs == (\A x \in Chars : x \in Nat) /\ (\A x \in Indices : ~ (x >= Equals))
  BY DEF Chars, Indices, Equals

\* A number no greater than another is it or smaller.
LEMMA NoMore == \A a \in Nat : \A b \in Nat : a <= b => a = b \/ a < b
  OBVIOUS

\* The octet at a place, or the zero base64_encode puts behind the last.
OctetAt(o, p) == IF p <= Len(o) THEN o[p] ELSE 0

\* The k-th three octets.
ThreeOf(o, k) == <<OctetAt(o, 3 * (k - 1) + 1), OctetAt(o, 3 * (k - 1) + 2), OctetAt(o, 3 * (k - 1) + 3)>>

\* What is written for the octets without the equals signs: four characters for every three
\* octets, and for one or two at the end one more than they are.
UsedOf(m) == 4 * (m \div 3) + (IF m % 3 = 0 THEN 0 ELSE (m % 3) + 1)

\* The first UsedOf(Len(o)) characters of e are those of the octets o.
Codes(e, o) ==
  \A k \in 1 .. Len(o) \div 3 + 1 : \A j \in 1 .. 4 :
    4 * (k - 1) + j <= UsedOf(Len(o)) => e[4 * (k - 1) + j] = ToFour(ThreeOf(o, k))[j]

\* The characters of three octets.
LEMMA FourIs ==
  ASSUME NEW o, o[1] \in Octets, o[2] \in Octets, o[3] \in Octets
  PROVE  ToFour(o) \in Seq(Indices) /\ Len(ToFour(o)) = 4
<1>1. \A x \in Octets : /\ x \div 4 \in 0 .. 63 /\ x % 4 \in 0 .. 3 /\ x \div 16 \in 0 .. 15
                        /\ x % 16 \in 0 .. 15 /\ x \div 64 \in 0 .. 3 /\ x % 64 \in 0 .. 63
  BY DEF Octets
<1>2. \A a \in 0 .. 3, b \in 0 .. 15 : a * 16 + b \in 0 .. 63 /\ b * 4 + a \in 0 .. 63
  OBVIOUS
<1>3. o[1] \div 4 \in Indices /\ o[3] % 64 \in Indices
  BY <1>1 DEF Indices
<1>4. ((o[1] % 4) * 16) + (o[2] \div 16) \in Indices
  BY <1>1, <1>2 DEF Indices
<1>5. ((o[2] % 16) * 4) + (o[3] \div 64) \in Indices
  BY <1>1, <1>2 DEF Indices
<1> QED BY <1>3, <1>4, <1>5 DEF ToFour

\* The octets of four characters that three octets, the last perhaps not there, were written as.
LEMMA ThreeIs ==
  ASSUME NEW o, o[1] \in Octets, o[2] \in Octets, o[3] \in Octets, NEW c
  PROVE  /\ c[1] = ToFour(o)[1] /\ c[2] = ToFour(o)[2] => ToThree(c)[1] = o[1]
         /\ c[2] = ToFour(o)[2] /\ c[3] = ToFour(o)[3] => ToThree(c)[2] = o[2]
         /\ c[3] = ToFour(o)[3] /\ c[4] = ToFour(o)[4] => ToThree(c)[3] = o[3]
<1> DEFINE x == o[1]
           y == o[2]
           z == o[3]
<1>1. /\ ToFour(o)[1] = x \div 4 /\ ToFour(o)[2] = ((x % 4) * 16) + (y \div 16)
      /\ ToFour(o)[3] = ((y % 16) * 4) + (z \div 64) /\ ToFour(o)[4] = z % 64
  BY DEF ToFour
<1>2. /\ ToThree(c)[1] = ((c[1] * 4) + ((c[2] \div 16) % 4)) % 256
      /\ ToThree(c)[2] = ((c[2] % 16) * 16) + ((c[3] \div 4) % 16)
      /\ ToThree(c)[3] = (((c[3] % 4) * 64) + c[4]) % 256
  BY DEF ToThree
<1>3. x \in 0 .. 255 /\ y \in 0 .. 255 /\ z \in 0 .. 255
  BY DEF Octets
<1> HIDE DEF x, y, z
<1>4. ((x \div 4) * 4 + (((((x % 4) * 16) + (y \div 16)) \div 16) % 4)) % 256 = x
  <2>1. x % 4 \in 0 .. 3 /\ y \div 16 \in 0 .. 15 /\ (x \div 4) * 4 + (x % 4) = x
    BY <1>3
  <2>2. \A a \in 0 .. 3, b \in 0 .. 15 : (((a * 16) + b) \div 16) % 4 = a
    OBVIOUS
  <2>3. ((((x % 4) * 16) + (y \div 16)) \div 16) % 4 = x % 4
    BY <2>1, <2>2
  <2>4. x % 256 = x
    BY <1>3
  <2> QED BY <2>1, <2>3, <2>4
<1>5. (((((x % 4) * 16) + (y \div 16)) % 16) * 16) + (((((y % 16) * 4) + (z \div 64)) \div 4) % 16) = y
  <2>1. /\ x % 4 \in 0 .. 3 /\ y \div 16 \in 0 .. 15 /\ y % 16 \in 0 .. 15 /\ z \div 64 \in 0 .. 3
        /\ (y \div 16) * 16 + (y % 16) = y
    BY <1>3
  <2>2. \A a \in 0 .. 3, b \in 0 .. 15 : ((a * 16) + b) % 16 = b
    OBVIOUS
  <2>3. \A a \in 0 .. 3, b \in 0 .. 15 : (((b * 4) + a) \div 4) % 16 = b
    OBVIOUS
  <2>4. (((x % 4) * 16) + (y \div 16)) % 16 = y \div 16
    BY <2>1, <2>2
  <2>5. ((((y % 16) * 4) + (z \div 64)) \div 4) % 16 = y % 16
    BY <2>1, <2>3
  <2> QED BY <2>1, <2>4, <2>5
<1>6. (((((y % 16) * 4) + (z \div 64)) % 4) * 64 + (z % 64)) % 256 = z
  <2>1. y % 16 \in 0 .. 15 /\ z \div 64 \in 0 .. 3 /\ (z \div 64) * 64 + (z % 64) = z
    BY <1>3
  <2>2. \A a \in 0 .. 3, b \in 0 .. 15 : ((b * 4) + a) % 4 = a
    OBVIOUS
  <2>3. (((y % 16) * 4) + (z \div 64)) % 4 = z \div 64
    BY <2>1, <2>2
  <2>4. z % 256 = z
    BY <1>3
  <2> QED BY <2>1, <2>3, <2>4
<1>7. ASSUME c[1] = ToFour(o)[1], c[2] = ToFour(o)[2] PROVE ToThree(c)[1] = o[1]
  <2> DEFINE F(p, r) == ((p * 4) + ((r \div 16) % 4)) % 256
  <2>1. ToThree(c)[1] = F(c[1], c[2])
    BY <1>2, Zenon
  <2>2. F(x \div 4, ((x % 4) * 16) + (y \div 16)) = x
    BY <1>4, Zenon
  <2> HIDE DEF F
  <2>3. c[1] = x \div 4 /\ c[2] = ((x % 4) * 16) + (y \div 16)
    BY <1>1, <1>7, Zenon
  <2> QED BY <2>1, <2>2, <2>3, Zenon DEF x
<1>8. ASSUME c[2] = ToFour(o)[2], c[3] = ToFour(o)[3] PROVE ToThree(c)[2] = o[2]
  <2> DEFINE F(p, r) == ((p % 16) * 16) + ((r \div 4) % 16)
  <2>1. ToThree(c)[2] = F(c[2], c[3])
    BY <1>2, Zenon
  <2>2. F(((x % 4) * 16) + (y \div 16), ((y % 16) * 4) + (z \div 64)) = y
    BY <1>5, Zenon
  <2> HIDE DEF F
  <2>3. c[2] = ((x % 4) * 16) + (y \div 16) /\ c[3] = ((y % 16) * 4) + (z \div 64)
    BY <1>1, <1>8, Zenon
  <2> QED BY <2>1, <2>2, <2>3, Zenon DEF y
<1>9. ASSUME c[3] = ToFour(o)[3], c[4] = ToFour(o)[4] PROVE ToThree(c)[3] = o[3]
  <2> DEFINE F(p, r) == (((p % 4) * 64) + r) % 256
  <2>1. ToThree(c)[3] = F(c[3], c[4])
    BY <1>2, Zenon
  <2>2. F(((y % 16) * 4) + (z \div 64), z % 64) = z
    BY <1>6, Zenon
  <2> HIDE DEF F
  <2>3. c[3] = ((y % 16) * 4) + (z \div 64) /\ c[4] = z % 64
    BY <1>1, <1>9, Zenon
  <2> QED BY <2>1, <2>2, <2>3, Zenon DEF z
<1> QED BY <1>7, <1>8, <1>9

\* Three octets are made of any four numbers.
LEMMA ThreeType ==
  ASSUME NEW c, c[1] \in Nat, c[2] \in Nat, c[3] \in Nat, c[4] \in Nat
  PROVE  ToThree(c) \in Seq(Octets) /\ Len(ToThree(c)) = 3
<1>1. \A x \in Nat : x % 256 \in 0 .. 255 /\ x % 16 \in 0 .. 15 /\ x \div 4 \in Nat /\ x \div 16 \in Nat /\ x % 4 \in 0 .. 3
  OBVIOUS
<1>2. ((c[1] * 4) + ((c[2] \div 16) % 4)) % 256 \in Octets
  <2>1. (c[2] \div 16) % 4 \in 0 .. 3
    BY <1>1
  <2>2. (c[1] * 4) + ((c[2] \div 16) % 4) \in Nat
    BY <2>1
  <2> QED BY <1>1, <2>2 DEF Octets
<1>3. ((c[2] % 16) * 16) + ((c[3] \div 4) % 16) \in Octets
  <2>1. c[2] % 16 \in 0 .. 15 /\ (c[3] \div 4) % 16 \in 0 .. 15
    BY <1>1
  <2> QED BY <2>1 DEF Octets
<1>4. (((c[3] % 4) * 64) + c[4]) % 256 \in Octets
  <2>1. ((c[3] % 4) * 64) + c[4] \in Nat
    BY <1>1
  <2> QED BY <1>1, <2>1 DEF Octets
<1> QED BY <1>2, <1>3, <1>4 DEF ToThree

\* The group a place is in, of three or of four, and the place in the group.
LEMMA GroupOf ==
  ASSUME NEW p \in Nat \ {0}, NEW c \in {3, 4}
  PROVE  \E k \in Nat \ {0} : \E j \in 1 .. c : p = c * (k - 1) + j
<1> DEFINE k == (p - 1) \div c + 1
           j == ((p - 1) % c) + 1
<1>1. CASE c = 3
  <2>1. k \in Nat \ {0} /\ j \in 1 .. 3 /\ p = 3 * (k - 1) + j
    BY <1>1
  <2> QED BY <1>1, <2>1
<1>2. CASE c = 4
  <2>1. k \in Nat \ {0} /\ j \in 1 .. 4 /\ p = 4 * (k - 1) + j
    BY <1>2
  <2> QED BY <1>2, <2>1
<1> QED BY <1>1, <1>2

\* The three octets of a group are octets.
LEMMA ThreeOfType ==
  ASSUME NEW o \in Seq(Octets), NEW k \in Nat \ {0}
  PROVE  ThreeOf(o, k)[1] \in Octets /\ ThreeOf(o, k)[2] \in Octets /\ ThreeOf(o, k)[3] \in Octets
<1>1. ASSUME NEW p \in Nat \ {0} PROVE OctetAt(o, p) \in Octets
  <2>1. Len(o) \in Nat /\ \A x \in 1 .. Len(o) : o[x] \in Octets
    BY LenProperties, ElementOfSeq
  <2>2. 0 \in Octets
    BY DEF Octets
  <2> QED BY <2>1, <2>2 DEF OctetAt
<1>2. 3 * (k - 1) + 1 \in Nat \ {0} /\ 3 * (k - 1) + 2 \in Nat \ {0} /\ 3 * (k - 1) + 3 \in Nat \ {0}
  OBVIOUS
<1> QED BY <1>1, <1>2 DEF ThreeOf

\* A length, in whole groups of three and the rest, and what is written for it.
LEMMA UsedIs ==
  ASSUME NEW m \in Nat
  PROVE  /\ m \div 3 \in Nat /\ m % 3 \in 0 .. 2 /\ m = 3 * (m \div 3) + (m % 3)
         /\ UsedOf(m) \in Nat /\ UsedOf(m) \div 4 = m \div 3
         /\ UsedOf(m) % 4 = IF m % 3 = 0 THEN 0 ELSE (m % 3) + 1
<1> DEFINE w == m \div 3
           i == m % 3
<1>1. w \in Nat /\ i \in 0 .. 2 /\ m = 3 * w + i
  OBVIOUS
<1>2. UsedOf(m) = 4 * w + (IF i = 0 THEN 0 ELSE i + 1)
  BY DEF UsedOf
<1> HIDE DEF w, i
<1>3. \A r \in 0 .. 3 : (4 * w + r) \div 4 = w /\ (4 * w + r) % 4 = r
  BY <1>1
<1>4. (IF i = 0 THEN 0 ELSE i + 1) \in 0 .. 3
  BY <1>1
<1>5. UsedOf(m) \in Nat /\ UsedOf(m) \div 4 = w /\ UsedOf(m) % 4 = IF i = 0 THEN 0 ELSE i + 1
  BY <1>1, <1>2, <1>3, <1>4
<1> QED BY <1>1, <1>5 DEF w, i

\* base64_encode writes the characters of every three octets, and equals signs to a multiple of four.
LEMMA EncodeIs ==
  ASSUME NEW o \in Seq(Octets)
  PROVE  /\ base64_encode(o) \in Seq(Chars)
         /\ Codes(base64_encode(o), o)
         /\ UsedOf(Len(o)) <= Len(base64_encode(o))
         /\ Len(base64_encode(o)) = 4 * (Len(o) \div 3) + (IF Len(o) % 3 = 0 THEN 0 ELSE 4)
         /\ \A p \in 1 .. Len(base64_encode(o)) : p > UsedOf(Len(o)) => base64_encode(o)[p] = Equals
<1> DEFINE m == Len(o)
           w == m \div 3
           i == m % 3
           q == [k \in 1 .. w |-> ToFour(Chunk(o, 3, k))]
           b == FlattenSeq(q)
           rest == SubSeq(o, 3 * w + 1, m) \o <<0, 0, 0>>
           four == ToFour(SubSeq(rest, 1, 3))
           signs == [j \in 1 .. 3 - i |-> Equals]
           tail == SubSeq(four, 1, i + 1) \o signs
           e == base64_encode(o)
           u == UsedOf(m)
<1>1. e = b \o (IF i = 0 THEN <<>> ELSE tail)
  BY Zenon DEF base64_encode
<1>2. m \in Nat /\ \A p \in 1 .. m : o[p] \in Octets
  BY LenProperties, ElementOfSeq
<1>3. /\ w \in Nat /\ i \in 0 .. 2 /\ m = 3 * w + i /\ u = 4 * w + (IF i = 0 THEN 0 ELSE i + 1)
  BY <1>2, UsedIs DEF UsedOf
<1>4. ASSUME NEW a, NEW c, a[1] = c[1], a[2] = c[2], a[3] = c[3] PROVE ToFour(a) = ToFour(c)
  BY <1>4, Zenon DEF ToFour
<1>5. ASSUME NEW k \in Nat \ {0}
      PROVE  ToFour(ThreeOf(o, k)) \in Seq(Chars) /\ Len(ToFour(ThreeOf(o, k))) = 4
  <2>1. ToFour(ThreeOf(o, k)) \in Seq(Indices) /\ Len(ToFour(ThreeOf(o, k))) = 4
    BY ThreeOfType, FourIs
  <2> QED BY <2>1 DEF Indices, Chars
<1> HIDE DEF e, u
<1>6. ASSUME NEW k \in 1 .. w PROVE ToFour(Chunk(o, 3, k)) = ToFour(ThreeOf(o, k))
  <2> DEFINE c == Chunk(o, 3, k)
  <2>1. c = SubSeq(o, 3 * (k - 1) + 1, 3 * k)
    BY DEF Chunk
  <2>2. 3 * (k - 1) + 1 \in 1 .. m /\ 3 * k \in 1 .. m /\ 3 * k = 3 * (k - 1) + 3
    BY <1>2, <1>3
  <2> DEFINE h == 3 * (k - 1)
  <2>3. h \in Nat /\ h + 3 <= m
    BY <1>3, <2>2
  <2>4. c = SubSeq(o, h + 1, h + 3)
    BY <2>1, <2>2
  <2> HIDE DEF h, w, m, c
  <2>5. c[1] = o[h + 1] /\ c[2] = o[h + 2] /\ c[3] = o[h + 3]
    <3>1. h + 1 \in 1 .. Len(o) /\ h + 3 \in h + 1 .. Len(o)
      BY <1>2, <2>3 DEF m
    <3> QED BY <1>2, <2>3, <2>4, <3>1
  <2>6. OctetAt(o, h + 1) = o[h + 1] /\ OctetAt(o, h + 2) = o[h + 2] /\ OctetAt(o, h + 3) = o[h + 3]
    BY <1>2, <2>3 DEF OctetAt, m
  <2>7. ThreeOf(o, k)[1] = c[1] /\ ThreeOf(o, k)[2] = c[2] /\ ThreeOf(o, k)[3] = c[3]
    BY <2>5, <2>6 DEF ThreeOf, h
  <2> QED BY <1>4, <2>7 DEF c
<1>7. /\ b \in Seq(Chars) /\ Len(b) = 4 * w
      /\ \A k \in 1 .. w : \A j \in 1 .. 4 : b[4 * (k - 1) + j] = ToFour(ThreeOf(o, k))[j]
  <2> HIDE DEF w
  <2>1. \A k \in 1 .. w : ToFour(Chunk(o, 3, k)) \in Seq(Chars) /\ Len(ToFour(Chunk(o, 3, k))) = 4
    BY <1>3, <1>5, <1>6
  <2>2. q \in Seq(Seq(Chars)) /\ Len(q) = w
    BY <1>3, <2>1
  <2>3. \A k \in 1 .. w : q[k] = ToFour(Chunk(o, 3, k))
    OBVIOUS
  <2> HIDE DEF q
  <2>4. \A k \in 1 .. Len(q) : Len(q[k]) = 4
    BY <2>1, <2>2, <2>3
  <2>5. /\ FlattenSeq(q) \in Seq(Chars) /\ Len(FlattenSeq(q)) = 4 * Len(q)
        /\ \A k \in 1 .. Len(q) : \A j \in 1 .. 4 : FlattenSeq(q)[4 * (k - 1) + j] = q[k][j]
    BY <2>2, <2>4, FlattenEven
  <2> QED BY <1>6, <2>2, <2>3, <2>5
<1> HIDE DEF b
<1>8. CASE i = 0
  <2>1. e = b
    <3>1. e = b \o <<>>
      BY <1>1, <1>8, Zenon
    <3> QED BY <1>7, <3>1, ConcatEmptySeq
  <2>2. u = 4 * w
    BY <1>3, <1>8
  <2>3. Codes(e, o)
    <3> SUFFICES ASSUME NEW k \in 1 .. w + 1, NEW j \in 1 .. 4, 4 * (k - 1) + j <= u
                 PROVE  e[4 * (k - 1) + j] = ToFour(ThreeOf(o, k))[j]
      BY DEF Codes, u
    <3> HIDE DEF w
    <3>1. k \in 1 .. w
      <4>1. w \in Nat
        BY <1>3
      <4> QED BY <2>2, <4>1
    <3> QED BY <1>7, <2>1, <3>1
  <2>4. Len(e) = 4 * w + (IF i = 0 THEN 0 ELSE 4)
    BY <1>3, <1>7, <1>8, <2>1
  <2> HIDE DEF w, i
  <2>5. e \in Seq(Chars) /\ u <= Len(e) /\ \A p \in 1 .. Len(e) : p > u => e[p] = Equals
    BY <1>3, <1>7, <2>1, <2>2
  <2>6. Len(e) = 4 * (m \div 3) + (IF m % 3 = 0 THEN 0 ELSE 4)
    BY <2>4 DEF w, i
  <2> QED BY <2>3, <2>5, <2>6, Zenon DEF e, u
<1>9. CASE i # 0
  <2>1. four = ToFour(ThreeOf(o, w + 1))
    <3> DEFINE h == 3 * w
               x == SubSeq(o, h + 1, m)
               z == <<0, 0, 0>>
               y == SubSeq(rest, 1, 3)
    <3>1. h \in Nat /\ m = h + i /\ i \in 1 .. 2
      BY <1>3, <1>9
    <3>2. x \in Seq(Octets) /\ Len(x) = i /\ \A p \in 1 .. i : x[p] = o[h + p]
      <4> HIDE DEF h, i, w
      <4>1. h + 1 \in 1 .. Len(o) + 1 /\ m \in h .. Len(o)
        BY <1>2, <3>1
      <4> QED BY <1>2, <3>1, <4>1
    <3>3. z \in Seq(Octets) /\ Len(z) = 3 /\ \A p \in 1 .. 3 : z[p] = 0
      BY DEF Octets
    <3> HIDE DEF x, z
    <3>4. rest = x \o z
      BY DEF x, z
    <3> HIDE DEF rest
    <3>5. rest \in Seq(Octets) /\ Len(rest) = i + 3 /\ \A p \in 1 .. i + 3 : rest[p] = IF p <= i THEN o[h + p] ELSE 0
      <4>1. /\ rest \in Seq(Octets) /\ Len(rest) = Len(x) + Len(z)
            /\ \A p \in 1 .. Len(x) + Len(z) : rest[p] = IF p <= Len(x) THEN x[p] ELSE z[p - Len(x)]
        BY <3>2, <3>3, <3>4, ConcatProperties
      <4> HIDE DEF h, i
      <4>2. ASSUME NEW p \in 1 .. i + 3 PROVE rest[p] = IF p <= i THEN o[h + p] ELSE 0
        <5>1. rest[p] = IF p <= i THEN x[p] ELSE z[p - i]
          BY <3>2, <3>3, <4>1
        <5>2. CASE p <= i
          BY <3>1, <3>2, <5>1, <5>2
        <5>3. CASE ~ (p <= i)
          <6>1. p - i \in 1 .. 3
            BY <3>1, <5>3
          <6> QED BY <3>3, <5>1, <5>3, <6>1
        <5> QED BY <5>2, <5>3
      <4> QED BY <3>2, <3>3, <4>1, <4>2
    <3> HIDE DEF h, i, w, m
    <3>6. ASSUME NEW p \in 1 .. 3 PROVE y[p] = OctetAt(o, h + p)
      <4>1. y[p] = rest[p]
        <5>1. 1 \in 1 .. Len(rest) /\ 3 \in 1 .. Len(rest)
          BY <3>1, <3>5
        <5> QED BY <3>5, <5>1
      <4>2. rest[p] = IF p <= i THEN o[h + p] ELSE 0
        BY <3>1, <3>5
      <4>3. h + p <= Len(o) <=> p <= i
        BY <3>1 DEF m
      <4> QED BY <4>1, <4>2, <4>3 DEF OctetAt
    <3> HIDE DEF y
    <3>7. 3 * (w + 1 - 1) = h
      BY <1>3 DEF h
    <3>8. ThreeOf(o, w + 1)[1] = y[1] /\ ThreeOf(o, w + 1)[2] = y[2] /\ ThreeOf(o, w + 1)[3] = y[3]
      <4>1. y[1] = OctetAt(o, h + 1) /\ y[2] = OctetAt(o, h + 2) /\ y[3] = OctetAt(o, h + 3)
        BY <3>6
      <4> DEFINE t == ThreeOf(o, w + 1)
      <4>2. t[1] = OctetAt(o, h + 1) /\ t[2] = OctetAt(o, h + 2) /\ t[3] = OctetAt(o, h + 3)
        <5> DEFINE G(a) == <<OctetAt(o, a + 1), OctetAt(o, a + 2), OctetAt(o, a + 3)>>
        <5>1. \A a : ThreeOf(o, a) = G(3 * (a - 1))
          BY Zenon DEF ThreeOf
        <5>2. PICK a \in Nat : a = w + 1
          BY <1>3
        <5>3. 3 * (a - 1) = h
          BY <1>3, <5>2 DEF h
        <5> HIDE DEF G
        <5>4. ThreeOf(o, a) = G(h)
          BY <5>1, <5>3, Zenon
        <5> QED BY <5>2, <5>4 DEF G
      <4> QED BY <4>1, <4>2, Zenon
    <3> QED BY <1>4, <3>8 DEF y
  <2> HIDE DEF four
  <2>2. four \in Seq(Chars) /\ Len(four) = 4
    <3>1. w + 1 \in Nat \ {0}
      BY <1>3
    <3> QED BY <1>5, <2>1, <3>1
  <2> DEFINE x == SubSeq(four, 1, i + 1)
  <2>3. x \in Seq(Chars) /\ Len(x) = i + 1 /\ \A j \in 1 .. i + 1 : x[j] = four[j]
    <3> DEFINE l == i + 1
    <3>1. l \in Nat /\ 0 \in Nat /\ 0 + l <= Len(four) /\ x = SubSeq(four, 0 + 1, 0 + l)
      BY <1>3, <2>2
    <3> HIDE DEF l, x
    <3>2. x \in Seq(Chars) /\ Len(x) = l /\ \A j \in 1 .. l : x[j] = four[0 + j]
      BY <2>2, <3>1, CutIs
    <3>3. \A j \in 1 .. l : 0 + j = j
      OBVIOUS
    <3>4. \A j \in 1 .. l : x[j] = four[j]
      BY <3>2, <3>3, Zenon
    <3> QED BY <3>2, <3>4, Zenon DEF l
  <2>4. signs \in Seq(Chars) /\ Len(signs) = 3 - i /\ \A j \in 1 .. 3 - i : signs[j] = Equals
    <3> HIDE DEF i
    <3> QED BY <1>3 DEF Equals, Chars
  <2> HIDE DEF signs, x
  <2>5. tail = x \o signs
    BY DEF x
  <2> HIDE DEF tail
  <2>6. /\ tail \in Seq(Chars) /\ Len(tail) = 4
        /\ \A j \in 1 .. 4 : tail[j] = IF j <= i + 1 THEN four[j] ELSE Equals
    <3>1. /\ tail \in Seq(Chars) /\ Len(tail) = Len(x) + Len(signs)
          /\ \A j \in 1 .. Len(x) + Len(signs) : tail[j] = IF j <= Len(x) THEN x[j] ELSE signs[j - Len(x)]
      BY <2>3, <2>4, <2>5, ConcatProperties
    <3> HIDE DEF i
    <3>2. Len(tail) = 4
      BY <1>3, <2>3, <2>4, <3>1
    <3>3. ASSUME NEW j \in 1 .. 4 PROVE tail[j] = IF j <= i + 1 THEN four[j] ELSE Equals
      <4>1. tail[j] = IF j <= i + 1 THEN x[j] ELSE signs[j - (i + 1)]
        BY <1>3, <2>3, <2>4, <3>1
      <4>2. CASE j <= i + 1
        BY <1>3, <2>3, <4>1, <4>2
      <4>3. CASE ~ (j <= i + 1)
        <5>1. j - (i + 1) \in 1 .. 3 - i
          BY <1>3, <4>3
        <5> QED BY <2>4, <4>1, <4>3, <5>1
      <4> QED BY <4>2, <4>3
    <3> QED BY <3>1, <3>2, <3>3
  <2>7. e = b \o tail
    BY <1>1, <1>9, Zenon
  <2>8. /\ e \in Seq(Chars) /\ Len(e) = 4 * w + 4
        /\ \A p \in 1 .. 4 * w + 4 : e[p] = IF p <= 4 * w THEN b[p] ELSE tail[p - 4 * w]
    <3>1. /\ e \in Seq(Chars) /\ Len(e) = Len(b) + Len(tail)
          /\ \A p \in 1 .. Len(b) + Len(tail) : e[p] = IF p <= Len(b) THEN b[p] ELSE tail[p - Len(b)]
      BY <1>7, <2>6, <2>7, ConcatProperties
    <3> QED BY <1>7, <2>6, <3>1
  <2> HIDE DEF w, i
  <2>9. u = 4 * w + i + 1
    BY <1>3, <1>9
  <2>10. Codes(e, o)
    <3> SUFFICES ASSUME NEW k \in 1 .. w + 1, NEW j \in 1 .. 4, 4 * (k - 1) + j <= u
                 PROVE  e[4 * (k - 1) + j] = ToFour(ThreeOf(o, k))[j]
      BY DEF Codes, u, w
    <3> DEFINE p == 4 * (k - 1) + j
    <3>1. CASE k <= w
      <4>1. p \in 1 .. 4 * w + 4 /\ p <= 4 * w /\ k \in 1 .. w
        BY <1>3, <3>1
      <4>2. e[p] = b[p]
        BY <2>8, <4>1
      <4> QED BY <1>7, <4>1, <4>2
    <3>2. CASE ~ (k <= w)
      <4>1. k = w + 1 /\ p = 4 * w + j
        BY <1>3, <3>2
      <4>2. p \in 1 .. 4 * w + 4 /\ ~ (p <= 4 * w) /\ p - 4 * w = j /\ j <= i + 1
        BY <1>3, <2>9, <4>1
      <4>3. e[p] = tail[j]
        BY <2>8, <4>2
      <4>4. tail[j] = four[j]
        BY <2>6, <4>2
      <4> QED BY <2>1, <4>1, <4>3, <4>4
    <3> QED BY <3>1, <3>2
  <2>11. ASSUME NEW p \in 1 .. Len(e), p > u PROVE e[p] = Equals
    <3>1. p \in 1 .. 4 * w + 4 /\ ~ (p <= 4 * w) /\ p - 4 * w \in 1 .. 4 /\ ~ (p - 4 * w <= i + 1)
      BY <1>3, <2>8, <2>9, <2>11
    <3>2. e[p] = tail[p - 4 * w]
      BY <2>8, <3>1
    <3> QED BY <2>6, <3>1, <3>2
  <2>12. u <= Len(e)
    BY <1>3, <2>8, <2>9
  <2>13. Len(e) = 4 * w + (IF i = 0 THEN 0 ELSE 4)
    BY <1>9, <2>8
  <2>14. Len(e) = 4 * (m \div 3) + (IF m % 3 = 0 THEN 0 ELSE 4)
    BY <2>13 DEF w, i
  <2> QED BY <2>8, <2>10, <2>11, <2>12, <2>14, Zenon DEF e, u
<1> QED BY <1>8, <1>9

\* base64_decode takes the characters of octets for the octets, whatever is behind them when it
\* is none of base64_chars.
LEMMA DecodeIs ==
  ASSUME NEW o \in Seq(Octets), NEW t \in Seq(Chars), Codes(t, o),
         UsedOf(Len(o)) <= Len(t), UsedOf(Len(o)) < Len(t) => t[UsedOf(Len(o)) + 1] >= Equals
  PROVE  base64_decode(t) = o
<1> DEFINE m == Len(o)
           w == m \div 3
           i == m % 3
           u == UsedOf(m)
           stop == {k \in DOMAIN t : t[k] >= Equals}
           n == IF stop = {} THEN Len(t) ELSE (CHOOSE k \in stop : \A l \in stop : k <= l) - 1
           q(a) == [k \in 1 .. a |-> ToThree(Chunk(t, 4, k))]
           rest(a, b) == SubSeq(t, 4 * a + 1, b) \o <<255, 255, 255>>
           tail(a, b) == SubSeq(ToThree(SubSeq(rest(a, b), 1, 4)), 1, (b % 4) - 1)
<1>1. base64_decode(t) = FlattenSeq(q(n \div 4)) \o (IF n % 4 = 0 THEN <<>> ELSE tail(n \div 4, n))
  BY Zenon DEF base64_decode
<1>2. m \in Nat /\ (\A p \in 1 .. m : o[p] \in Octets) /\ Len(t) \in Nat /\ (\A p \in 1 .. Len(t) : t[p] \in Chars)
      /\ DOMAIN t = 1 .. Len(t)
  BY LenProperties, ElementOfSeq
<1>3. /\ w \in Nat /\ i \in 0 .. 2 /\ m = 3 * w + i /\ u \in Nat /\ u \div 4 = w
      /\ u % 4 = (IF i = 0 THEN 0 ELSE i + 1) /\ u = 4 * w + (IF i = 0 THEN 0 ELSE i + 1)
  BY <1>2, UsedIs DEF UsedOf
<1>4. u <= Len(t) /\ (u < Len(t) => t[u + 1] >= Equals)
  OBVIOUS
<1>5. \A k \in 1 .. w + 1 : \A j \in 1 .. 4 : 4 * (k - 1) + j <= u => t[4 * (k - 1) + j] = ToFour(ThreeOf(o, k))[j]
  BY Zenon DEF Codes
<1> HIDE DEF m, w, i, u
<1>6. ASSUME NEW p \in 1 .. u PROVE ~ (t[p] >= Equals)
  <2>1. p \in Nat \ {0}
    BY <1>3
  <2>2. PICK k \in Nat \ {0} : \E j \in 1 .. 4 : p = 4 * (k - 1) + j
    BY <2>1, GroupOf
  <2>3. PICK j \in 1 .. 4 : p = 4 * (k - 1) + j
    BY <2>2
  <2>4. k \in 1 .. w + 1
    BY <1>3, <2>3
  <2>5. t[p] = ToFour(ThreeOf(o, k))[j]
    BY <1>5, <2>3, <2>4
  <2>6. ToFour(ThreeOf(o, k)) \in Seq(Indices) /\ Len(ToFour(ThreeOf(o, k))) = 4
    BY ThreeOfType, FourIs
  <2>7. ToFour(ThreeOf(o, k))[j] \in Indices
    BY <2>6, ElementOfSeq
  <2>8. t[p] \in Indices
    BY <2>5, <2>7, Zenon
  <2> QED BY <2>8, CharIs, Zenon
<1>7. n = u
  <2>1. CASE u = Len(t)
    <3>1. stop = {}
      BY <1>2, <1>6, <2>1
    <3> QED BY <2>1, <3>1
  <2>2. CASE u < Len(t)
    <3>1. u + 1 \in stop
      BY <1>2, <1>3, <1>4, <2>2
    <3>2. \A l \in stop : u + 1 <= l
      BY <1>2, <1>3, <1>6
    <3> DEFINE first == CHOOSE k \in stop : \A l \in stop : k <= l
    <3>3. first \in stop /\ \A l \in stop : first <= l
      BY <3>1, <3>2, Zenon
    <3>4. stop # {} /\ \A k \in stop : k \in Nat
      BY <1>2, <3>1
    <3> HIDE DEF stop
    <3>5. n = first - 1
      BY <3>4, Zenon
    <3> HIDE DEF first, n
    <3>6. first = u + 1
      <4>1. first <= u + 1 /\ u + 1 <= first /\ first \in Nat
        BY <3>1, <3>2, <3>3, <3>4
      <4> QED BY <1>3, <4>1
    <3> QED BY <1>3, <3>5, <3>6
  <2> HIDE DEF n, stop
  <2>3. u = Len(t) \/ u < Len(t)
    BY <1>2, <1>3, <1>4, NoMore, Zenon
  <2> QED BY <2>1, <2>2, <2>3
<1> HIDE DEF n
<1> DEFINE b == FlattenSeq(q(w))
           d == base64_decode(t)
<1>8. d = b \o (IF i = 0 THEN <<>> ELSE tail(w, u))
  <2>1. n \div 4 = w /\ (n % 4 = 0 <=> i = 0)
    BY <1>3, <1>7
  <2> HIDE DEF q, tail
  <2> QED BY <1>1, <1>7, <2>1, Zenon
<1> HIDE DEF d
<1>9. ASSUME NEW k \in 1 .. w
      PROVE  /\ ToThree(Chunk(t, 4, k)) \in Seq(Octets) /\ Len(ToThree(Chunk(t, 4, k))) = 3
             /\ \A j \in 1 .. 3 : ToThree(Chunk(t, 4, k))[j] = o[3 * (k - 1) + j]
  <2> DEFINE c == Chunk(t, 4, k)
             h == 4 * (k - 1)
             x == ThreeOf(o, k)
  <2>1. h \in Nat /\ h + 4 <= Len(t) /\ h + 4 <= u /\ k \in 1 .. w + 1
    BY <1>3, <1>4
  <2>2. c = SubSeq(t, h + 1, h + 4)
    <3>1. 4 * k = h + 4
      BY <1>3
    <3> QED BY <3>1, Zenon DEF Chunk
  <2> HIDE DEF c
  <2>3. \A j \in 1 .. 4 : c[j] = t[h + j]
    <3> HIDE DEF h
    <3>1. 4 \in Nat
      OBVIOUS
    <3> QED BY <2>1, <2>2, <3>1, CutIs, Zenon
  <2>4. \A j \in 1 .. 4 : c[j] = ToFour(x)[j]
    <3>1. \A j \in 1 .. 4 : h + j <= u
      BY <1>3, <2>1
    <3>2. \A j \in 1 .. 4 : t[h + j] = ToFour(x)[j]
      BY <1>5, <2>1, <3>1, Zenon
    <3> QED BY <2>3, <3>2, Zenon
  <2>5. x[1] \in Octets /\ x[2] \in Octets /\ x[3] \in Octets
    <3>1. k \in Nat \ {0}
      BY <1>3
    <3> QED BY <3>1, ThreeOfType
  <2>6. x[1] = o[3 * (k - 1) + 1] /\ x[2] = o[3 * (k - 1) + 2] /\ x[3] = o[3 * (k - 1) + 3]
    <3>1. 3 * (k - 1) + 1 <= Len(o) /\ 3 * (k - 1) + 2 <= Len(o) /\ 3 * (k - 1) + 3 <= Len(o)
      BY <1>3 DEF m
    <3> QED BY <3>1 DEF ThreeOf, OctetAt
  <2> HIDE DEF x
  <2>7. \A j \in 1 .. 4 : c[j] \in Nat
    <3>1. \A j \in 1 .. 4 : h + j \in 1 .. Len(t)
      BY <1>2, <2>1
    <3>2. \A j \in 1 .. 4 : c[j] \in Chars
      BY <1>2, <2>3, <3>1
    <3> QED BY <3>2, CharIs, Zenon
  <2>8. ToThree(c) \in Seq(Octets) /\ Len(ToThree(c)) = 3
    BY <2>7, ThreeType
  <2>9. ToThree(c)[1] = x[1] /\ ToThree(c)[2] = x[2] /\ ToThree(c)[3] = x[3]
    <3>1. c[1] = ToFour(x)[1] /\ c[2] = ToFour(x)[2] /\ c[3] = ToFour(x)[3] /\ c[4] = ToFour(x)[4]
      BY <2>4
    <3> QED BY <2>5, <3>1, ThreeIs, Zenon
  <2> QED BY <2>6, <2>8, <2>9 DEF c
<1>10. /\ b \in Seq(Octets) /\ Len(b) = 3 * w
       /\ \A k \in 1 .. w : \A j \in 1 .. 3 : b[3 * (k - 1) + j] = o[3 * (k - 1) + j]
  <2> DEFINE s == q(w)
  <2>1. s \in Seq(Seq(Octets)) /\ Len(s) = w
    <3>1. \A k \in 1 .. w : ToThree(Chunk(t, 4, k)) \in Seq(Octets)
      BY <1>9
    <3> QED BY <1>3, <3>1
  <2>2. \A k \in 1 .. w : s[k] = ToThree(Chunk(t, 4, k))
    OBVIOUS
  <2> HIDE DEF s
  <2>3. \A k \in 1 .. Len(s) : Len(s[k]) = 3
    BY <1>9, <2>1, <2>2
  <2>4. /\ FlattenSeq(s) \in Seq(Octets) /\ Len(FlattenSeq(s)) = 3 * Len(s)
        /\ \A k \in 1 .. Len(s) : \A j \in 1 .. 3 : FlattenSeq(s)[3 * (k - 1) + j] = s[k][j]
    BY <2>1, <2>3, FlattenEven
  <2>5. ASSUME NEW k \in 1 .. w, NEW j \in 1 .. 3 PROVE FlattenSeq(s)[3 * (k - 1) + j] = o[3 * (k - 1) + j]
    <3>1. FlattenSeq(s)[3 * (k - 1) + j] = s[k][j]
      BY <2>1, <2>4, Zenon
    <3>2. s[k][j] = o[3 * (k - 1) + j]
      BY <1>9, <2>2, Zenon
    <3> QED BY <3>1, <3>2, Zenon
  <2> QED BY <2>1, <2>4, <2>5 DEF s
<1> HIDE DEF b
<1>11. \A p \in 1 .. 3 * w : b[p] = o[p]
  <2> TAKE p \in 1 .. 3 * w
  <2>1. p \in Nat \ {0}
    BY <1>3
  <2>2. PICK k \in Nat \ {0} : \E j \in 1 .. 3 : p = 3 * (k - 1) + j
    BY <2>1, GroupOf
  <2>3. PICK j \in 1 .. 3 : p = 3 * (k - 1) + j
    BY <2>2
  <2>4. k \in 1 .. w
    BY <1>3, <2>3
  <2> QED BY <1>10, <2>3, <2>4, Zenon
<1>12. CASE i = 0
  <2>1. d = b
    <3>1. d = b \o <<>>
      BY <1>8, <1>12, Zenon
    <3> QED BY <1>10, <3>1, ConcatEmptySeq
  <2>2. Len(b) = Len(o)
    BY <1>3, <1>10, <1>12 DEF m
  <2>3. \A p \in 1 .. Len(o) : b[p] = o[p]
    BY <1>3, <1>11, <1>12 DEF m
  <2>4. b = o
    BY <1>10, <2>2, <2>3, SeqEqual
  <2> QED BY <2>1, <2>4 DEF d
<1>13. CASE i # 0
  <2> DEFINE r == SubSeq(t, 4 * w + 1, u)
             z == <<255, 255, 255>>
             y == SubSeq(rest(w, u), 1, 4)
             x == ThreeOf(o, w + 1)
             v == tail(w, u)
             h == 4 * w
             l == i + 1
  <2>1. h \in Nat /\ l \in 2 .. 3 /\ u = h + l /\ h + l <= Len(t) /\ i \in 1 .. 2
    BY <1>3, <1>4, <1>13
  <2>2. r = SubSeq(t, h + 1, h + l)
    BY <2>1, Zenon
  <2> HIDE DEF r
  <2>3. r \in Seq(Chars) /\ Len(r) = l /\ \A j \in 1 .. l : r[j] = t[h + j]
    <3> HIDE DEF h, l
    <3>1. l \in Nat
      BY <2>1
    <3> QED BY <2>1, <2>2, <3>1, CutIs, Zenon
  <2>4. z \in Seq(Nat) /\ Len(z) = 3 /\ r \in Seq(Nat)
    <3>1. r \in Seq(Nat)
      <4>1. \A x1 \in Chars : x1 \in Nat
        BY DEF Chars
      <4> QED BY <2>3, <4>1
    <3> QED BY <3>1
  <2> HIDE DEF z
  <2>5. rest(w, u) = r \o z
    BY DEF r, z
  <2> HIDE DEF rest
  <2>6. /\ rest(w, u) \in Seq(Nat) /\ Len(rest(w, u)) = l + 3
        /\ \A j \in 1 .. l : rest(w, u)[j] = r[j]
    <3>1. /\ r \o z \in Seq(Nat) /\ Len(r \o z) = Len(r) + Len(z)
          /\ \A j \in 1 .. Len(r) : (r \o z)[j] = r[j]
      BY <2>4, BehindIs
    <3> QED BY <2>3, <2>4, <2>5, <3>1, Zenon
  <2>7. y \in Seq(Nat) /\ Len(y) = 4 /\ \A j \in 1 .. 4 : y[j] = rest(w, u)[j]
    <3> DEFINE f == rest(w, u)
    <3> HIDE DEF f, l
    <3>1. 0 + 4 <= Len(f) /\ 0 \in Nat /\ 4 \in Nat /\ f \in Seq(Nat)
      BY <2>1, <2>6 DEF f
    <3>2. /\ SubSeq(f, 0 + 1, 0 + 4) \in Seq(Nat) /\ Len(SubSeq(f, 0 + 1, 0 + 4)) = 4
          /\ \A j \in 1 .. 4 : SubSeq(f, 0 + 1, 0 + 4)[j] = f[0 + j]
      BY <3>1, CutIs
    <3>3. 0 + 1 = 1 /\ 0 + 4 = 4 /\ \A j \in 1 .. 4 : 0 + j = j
      OBVIOUS
    <3> QED BY <3>2, <3>3 DEF f
  <2>8. v = SubSeq(ToThree(y), 1, i)
    <3>1. (u % 4) - 1 = i
      BY <1>3, <1>13
    <3> QED BY <3>1, Zenon
  <2> HIDE DEF v, y
  <2>9. ASSUME NEW j \in 1 .. l PROVE y[j] = ToFour(x)[j]
    <3>1. PICK k \in 1 .. w + 1 : k = w + 1
      BY <1>3
    <3>2. j \in 1 .. 4 /\ 4 * (k - 1) + j = h + j /\ h + j <= u
      BY <1>3, <2>1, <3>1
    <3>3. 4 * (k - 1) + j <= u => t[4 * (k - 1) + j] = ToFour(ThreeOf(o, k))[j]
      BY <1>5, <3>2, Zenon
    <3>4. t[h + j] = ToFour(x)[j]
      BY <3>1, <3>2, <3>3, Zenon
    <3>5. y[j] = t[h + j]
      BY <2>3, <2>6, <2>7, <3>2, Zenon
    <3> QED BY <3>4, <3>5, Zenon
  <2>10. x[1] \in Octets /\ x[2] \in Octets /\ x[3] \in Octets
    <3>1. w + 1 \in Nat \ {0}
      BY <1>3
    <3> QED BY <3>1, ThreeOfType
  <2>11. ToThree(y) \in Seq(Octets) /\ Len(ToThree(y)) = 3
    <3>1. y[1] \in Nat /\ y[2] \in Nat /\ y[3] \in Nat /\ y[4] \in Nat
      <4>1. \A j \in 1 .. 4 : y[j] \in Nat
        BY <2>7, ElementOfSeq
      <4> QED BY <4>1
    <3> QED BY <3>1, ThreeType
  <2>12. ToThree(y)[1] = x[1] /\ (i = 2 => ToThree(y)[2] = x[2])
    <3>1. y[1] = ToFour(x)[1] /\ y[2] = ToFour(x)[2]
      <4>1. 1 \in 1 .. l /\ 2 \in 1 .. l
        BY <2>1
      <4> QED BY <2>9, <4>1
    <3>2. i = 2 => y[3] = ToFour(x)[3]
      <4>1. i = 2 => 3 \in 1 .. l
        OBVIOUS
      <4> QED BY <2>9, <4>1
    <3>3. /\ y[1] = ToFour(x)[1] /\ y[2] = ToFour(x)[2] => ToThree(y)[1] = x[1]
          /\ y[2] = ToFour(x)[2] /\ y[3] = ToFour(x)[3] => ToThree(y)[2] = x[2]
      <4> HIDE DEF x
      <4> QED BY <2>10, ThreeIs
    <3> QED BY <3>1, <3>2, <3>3, Zenon
  <2>13. x[1] = o[3 * w + 1] /\ (i = 2 => x[2] = o[3 * w + 2])
    <3> DEFINE G(a) == <<OctetAt(o, a + 1), OctetAt(o, a + 2), OctetAt(o, a + 3)>>
    <3>1. \A k : ThreeOf(o, k) = G(3 * (k - 1))
      BY Zenon DEF ThreeOf
    <3>2. PICK k \in Nat : k = w + 1
      BY <1>3
    <3>3. 3 * (k - 1) = 3 * w
      BY <1>3, <3>2
    <3> HIDE DEF G
    <3>4. ThreeOf(o, k) = G(3 * w)
      BY <3>1, <3>3, Zenon
    <3>5. x = G(3 * w)
      BY <3>2, <3>4, Zenon
    <3>6. x[1] = OctetAt(o, 3 * w + 1) /\ x[2] = OctetAt(o, 3 * w + 2)
      BY <3>5 DEF G
    <3>7. 3 * w + 1 <= Len(o) /\ (i = 2 => 3 * w + 2 <= Len(o))
      BY <1>3, <2>1 DEF m
    <3> QED BY <3>6, <3>7 DEF OctetAt
  <2> HIDE DEF x, h, l
  <2>14. v \in Seq(Octets) /\ Len(v) = i /\ \A j \in 1 .. i : v[j] = ToThree(y)[j]
    <3> DEFINE f == ToThree(y)
    <3> HIDE DEF f
    <3>1. 0 + i <= Len(f) /\ 0 \in Nat /\ i \in Nat /\ f \in Seq(Octets)
      BY <2>1, <2>11 DEF f
    <3>2. /\ SubSeq(f, 0 + 1, 0 + i) \in Seq(Octets) /\ Len(SubSeq(f, 0 + 1, 0 + i)) = i
          /\ \A j \in 1 .. i : SubSeq(f, 0 + 1, 0 + i)[j] = f[0 + j]
      BY <3>1, CutIs
    <3>3. 0 + 1 = 1 /\ 0 + i = i /\ \A j \in 1 .. i : 0 + j = j
      BY <2>1
    <3> QED BY <2>8, <3>2, <3>3 DEF f
  <2>15. \A j \in 1 .. i : v[j] = o[3 * w + j]
    <3> TAKE j \in 1 .. i
    <3>1. j = 1 \/ (j = 2 /\ i = 2)
      BY <2>1
    <3> QED BY <2>12, <2>13, <2>14, <3>1
  <2>16. d = b \o v
    BY <1>8, <1>13, Zenon DEF v
  <2>17. /\ d \in Seq(Octets) /\ Len(d) = Len(b) + Len(v)
         /\ \A p \in 1 .. Len(b) : d[p] = b[p]
         /\ \A j \in 1 .. Len(v) : d[Len(b) + j] = v[j]
    <3>1. /\ b \o v \in Seq(Octets) /\ Len(b \o v) = Len(b) + Len(v)
          /\ \A p \in 1 .. Len(b) : (b \o v)[p] = b[p]
          /\ \A j \in 1 .. Len(v) : (b \o v)[Len(b) + j] = v[j]
      <4>1. b \in Seq(Octets) /\ v \in Seq(Octets)
        BY <1>10, <2>14
      <4> QED BY <4>1, BehindIs
    <3> QED BY <2>16, <3>1, Zenon
  <2>18. Len(d) = Len(o)
    BY <1>3, <1>10, <2>14, <2>17 DEF m
  <2>19. ASSUME NEW p \in 1 .. Len(o) PROVE d[p] = o[p]
    <3>1. CASE p <= 3 * w
      <4>1. p \in 1 .. 3 * w /\ p \in 1 .. Len(b)
        BY <1>3, <1>10, <3>1
      <4> QED BY <1>11, <2>17, <4>1
    <3>2. CASE ~ (p <= 3 * w)
      <4>1. PICK j \in 1 .. i : p = 3 * w + j
        <5>1. p - 3 * w \in 1 .. i /\ p = 3 * w + (p - 3 * w)
          BY <1>2, <1>3, <2>1, <3>2 DEF m
        <5> QED BY <5>1
      <4>2. d[p] = v[j]
        BY <1>10, <2>14, <2>17, <4>1
      <4> QED BY <2>15, <4>1, <4>2
    <3> QED BY <3>1, <3>2
  <2>20. d = o
    BY <2>17, <2>18, <2>19, SeqEqual
  <2> QED BY <2>20 DEF d
<1> QED BY <1>12, <1>13

(* base64_decode after base64_encode gives back every sequence of octets, whatever its length, *)
(* and also when characters that are none of base64_chars stand behind it: base64.cpp.         *)
THEOREM Base64ReadsBack == \A octets \in Seq(Octets) : RoundTrips(octets)
<1> SUFFICES ASSUME NEW o \in Seq(Octets) PROVE RoundTrips(o)
  OBVIOUS
<1> DEFINE e == base64_encode(o)
           f == <<Foreign, 0>>
           u == UsedOf(Len(o))
<1>1. /\ e \in Seq(Chars) /\ Codes(e, o) /\ u <= Len(e)
      /\ \A p \in 1 .. Len(e) : p > u => e[p] = Equals
  BY EncodeIs
<1>2. Len(e) \in Nat /\ u \in Nat
  <2>1. Len(o) \in Nat
    BY LenProperties
  <2> QED BY <1>1, <2>1, LenProperties, UsedIs
<1> HIDE DEF e, u
<1>3. e \in Seq(Chars) /\ f \in Seq(Chars) /\ Len(f) = 2 /\ f[1] = 65
  BY <1>1 DEF Foreign, Chars
<1> HIDE DEF f
<1>4. base64_decode(e) = o
  <2>1. u < Len(e) => e[u + 1] >= Equals
    <3>1. u < Len(e) => u + 1 \in 1 .. Len(e) /\ u + 1 > u
      BY <1>2
    <3> QED BY <1>1, <3>1 DEF Equals
  <2> QED BY <1>1, <1>3, <2>1, DecodeIs DEF u
<1>5. base64_decode(e \o f) = o
  <2> DEFINE t == e \o f
  <2>1. /\ t \in Seq(Chars) /\ Len(t) = Len(e) + Len(f)
        /\ \A p \in 1 .. Len(e) : t[p] = e[p]
        /\ \A j \in 1 .. Len(f) : t[Len(e) + j] = f[j]
    <3>1. e \in Seq(Chars) /\ f \in Seq(Chars)
      BY <1>3
    <3> QED BY <3>1, BehindIs
  <2> HIDE DEF t
  <2>2. u <= Len(t) /\ u < Len(t)
    BY <1>1, <1>2, <1>3, <2>1
  <2>3. t[u + 1] >= Equals
    <3>1. CASE u = Len(e)
      <4>1. 1 \in 1 .. Len(f)
        BY <1>3
      <4>2. t[Len(e) + 1] = 65
        BY <1>3, <2>1, <4>1
      <4> QED BY <3>1, <4>2 DEF Equals
    <3>2. CASE u # Len(e)
      <4>1. u + 1 \in 1 .. Len(e) /\ u + 1 > u
        BY <1>1, <1>2, <3>2
      <4>2. t[u + 1] = e[u + 1] /\ e[u + 1] = Equals
        BY <1>1, <2>1, <4>1
      <4> QED BY <4>2 DEF Equals
    <3> QED BY <3>1, <3>2
  <2>4. Codes(t, o)
    <3> SUFFICES ASSUME NEW k \in 1 .. Len(o) \div 3 + 1, NEW j \in 1 .. 4, 4 * (k - 1) + j <= u
                 PROVE  t[4 * (k - 1) + j] = ToFour(ThreeOf(o, k))[j]
      BY Zenon DEF Codes, u
    <3>1. e[4 * (k - 1) + j] = ToFour(ThreeOf(o, k))[j]
      BY <1>1, Zenon DEF Codes, u
    <3>2. k \in Nat /\ k >= 1
      <4>1. Len(o) \div 3 + 1 \in Nat
        <5>1. Len(o) \in Nat
          BY LenProperties
        <5> QED BY <5>1
      <4> QED BY <4>1
    <3>3. 4 * (k - 1) + j \in 1 .. Len(e)
      BY <1>1, <1>2, <3>2
    <3> QED BY <2>1, <3>1, <3>3
  <2> QED BY <2>1, <2>2, <2>3, <2>4, DecodeIs DEF t, u
<1> QED BY <1>4, <1>5, Zenon DEF RoundTrips, e, f

\* The bits of the four characters of three octets are those of the octets.
LEMMA BitsOfFour ==
  ASSUME NEW o, o[1] \in Octets, o[2] \in Octets, o[3] \in Octets, NEW t \in 0 .. 23
  PROVE  Bit(ToFour(o)[t \div 6 + 1], 6, t % 6) = Bit(o[t \div 8 + 1], 8, t % 8)
<1> DEFINE x == o[1]
           y == o[2]
           z == o[3]
           F(n) == Bit(ToFour(o)[n \div 6 + 1], 6, n % 6) = Bit(o[n \div 8 + 1], 8, n % 8)
<1>1. /\ ToFour(o)[1] = x \div 4 /\ ToFour(o)[2] = ((x % 4) * 16) + (y \div 16)
      /\ ToFour(o)[3] = ((y % 16) * 4) + (z \div 64) /\ ToFour(o)[4] = z % 64
  BY DEF ToFour
<1>2. x \in 0 .. 255 /\ y \in 0 .. 255 /\ z \in 0 .. 255
  BY DEF Octets
<1> HIDE DEF x, y, z
<1>3. F(0) /\ F(1) /\ F(2) /\ F(3) /\ F(4) /\ F(5)
  <2>1. ((x \div 4) \div 32) % 2 = (x \div 128) % 2
    BY <1>2
  <2>2. ((x \div 4) \div 16) % 2 = (x \div 64) % 2
    BY <1>2
  <2>3. ((x \div 4) \div 8) % 2 = (x \div 32) % 2
    BY <1>2
  <2>4. ((x \div 4) \div 4) % 2 = (x \div 16) % 2
    BY <1>2
  <2>5. ((x \div 4) \div 2) % 2 = (x \div 8) % 2
    BY <1>2
  <2>6. ((x \div 4) \div 1) % 2 = (x \div 4) % 2
    BY <1>2
  <2>7. /\ 0 \div 6 + 1 = 1 /\ 0 % 6 = 0 /\ 0 \div 8 + 1 = 1 /\ 0 % 8 = 0
        /\ 1 \div 6 + 1 = 1 /\ 1 % 6 = 1 /\ 1 \div 8 + 1 = 1 /\ 1 % 8 = 1
        /\ 2 \div 6 + 1 = 1 /\ 2 % 6 = 2 /\ 2 \div 8 + 1 = 1 /\ 2 % 8 = 2
        /\ 3 \div 6 + 1 = 1 /\ 3 % 6 = 3 /\ 3 \div 8 + 1 = 1 /\ 3 % 8 = 3
        /\ 4 \div 6 + 1 = 1 /\ 4 % 6 = 4 /\ 4 \div 8 + 1 = 1 /\ 4 % 8 = 4
        /\ 5 \div 6 + 1 = 1 /\ 5 % 6 = 5 /\ 5 \div 8 + 1 = 1 /\ 5 % 8 = 5
    OBVIOUS
  <2> QED BY <1>1, <2>1, <2>2, <2>3, <2>4, <2>5, <2>6, <2>7 DEF Bit, x, y, z
<1>4. F(6) /\ F(7) /\ F(8) /\ F(9) /\ F(10) /\ F(11)
  <2>1. ((((x % 4) * 16) + (y \div 16)) \div 32) % 2 = (x \div 2) % 2
    BY <1>2
  <2>2. ((((x % 4) * 16) + (y \div 16)) \div 16) % 2 = (x \div 1) % 2
    BY <1>2
  <2>3. ((((x % 4) * 16) + (y \div 16)) \div 8) % 2 = (y \div 128) % 2
    BY <1>2
  <2>4. ((((x % 4) * 16) + (y \div 16)) \div 4) % 2 = (y \div 64) % 2
    BY <1>2
  <2>5. ((((x % 4) * 16) + (y \div 16)) \div 2) % 2 = (y \div 32) % 2
    BY <1>2
  <2>6. ((((x % 4) * 16) + (y \div 16)) \div 1) % 2 = (y \div 16) % 2
    BY <1>2
  <2>7. /\ 6 \div 6 + 1 = 2 /\ 6 % 6 = 0 /\ 6 \div 8 + 1 = 1 /\ 6 % 8 = 6
        /\ 7 \div 6 + 1 = 2 /\ 7 % 6 = 1 /\ 7 \div 8 + 1 = 1 /\ 7 % 8 = 7
        /\ 8 \div 6 + 1 = 2 /\ 8 % 6 = 2 /\ 8 \div 8 + 1 = 2 /\ 8 % 8 = 0
        /\ 9 \div 6 + 1 = 2 /\ 9 % 6 = 3 /\ 9 \div 8 + 1 = 2 /\ 9 % 8 = 1
        /\ 10 \div 6 + 1 = 2 /\ 10 % 6 = 4 /\ 10 \div 8 + 1 = 2 /\ 10 % 8 = 2
        /\ 11 \div 6 + 1 = 2 /\ 11 % 6 = 5 /\ 11 \div 8 + 1 = 2 /\ 11 % 8 = 3
    OBVIOUS
  <2> QED BY <1>1, <2>1, <2>2, <2>3, <2>4, <2>5, <2>6, <2>7 DEF Bit, x, y, z
<1>5. F(12) /\ F(13) /\ F(14) /\ F(15) /\ F(16) /\ F(17)
  <2>1. ((((y % 16) * 4) + (z \div 64)) \div 32) % 2 = (y \div 8) % 2
    BY <1>2
  <2>2. ((((y % 16) * 4) + (z \div 64)) \div 16) % 2 = (y \div 4) % 2
    BY <1>2
  <2>3. ((((y % 16) * 4) + (z \div 64)) \div 8) % 2 = (y \div 2) % 2
    BY <1>2
  <2>4. ((((y % 16) * 4) + (z \div 64)) \div 4) % 2 = (y \div 1) % 2
    BY <1>2
  <2>5. ((((y % 16) * 4) + (z \div 64)) \div 2) % 2 = (z \div 128) % 2
    BY <1>2
  <2>6. ((((y % 16) * 4) + (z \div 64)) \div 1) % 2 = (z \div 64) % 2
    BY <1>2
  <2>7. /\ 12 \div 6 + 1 = 3 /\ 12 % 6 = 0 /\ 12 \div 8 + 1 = 2 /\ 12 % 8 = 4
        /\ 13 \div 6 + 1 = 3 /\ 13 % 6 = 1 /\ 13 \div 8 + 1 = 2 /\ 13 % 8 = 5
        /\ 14 \div 6 + 1 = 3 /\ 14 % 6 = 2 /\ 14 \div 8 + 1 = 2 /\ 14 % 8 = 6
        /\ 15 \div 6 + 1 = 3 /\ 15 % 6 = 3 /\ 15 \div 8 + 1 = 2 /\ 15 % 8 = 7
        /\ 16 \div 6 + 1 = 3 /\ 16 % 6 = 4 /\ 16 \div 8 + 1 = 3 /\ 16 % 8 = 0
        /\ 17 \div 6 + 1 = 3 /\ 17 % 6 = 5 /\ 17 \div 8 + 1 = 3 /\ 17 % 8 = 1
    OBVIOUS
  <2> QED BY <1>1, <2>1, <2>2, <2>3, <2>4, <2>5, <2>6, <2>7 DEF Bit, x, y, z
<1>6. F(18) /\ F(19) /\ F(20) /\ F(21) /\ F(22) /\ F(23)
  <2>1. ((z % 64) \div 32) % 2 = (z \div 32) % 2
    BY <1>2
  <2>2. ((z % 64) \div 16) % 2 = (z \div 16) % 2
    BY <1>2
  <2>3. ((z % 64) \div 8) % 2 = (z \div 8) % 2
    BY <1>2
  <2>4. ((z % 64) \div 4) % 2 = (z \div 4) % 2
    BY <1>2
  <2>5. ((z % 64) \div 2) % 2 = (z \div 2) % 2
    BY <1>2
  <2>6. ((z % 64) \div 1) % 2 = (z \div 1) % 2
    BY <1>2
  <2>7. /\ 18 \div 6 + 1 = 4 /\ 18 % 6 = 0 /\ 18 \div 8 + 1 = 3 /\ 18 % 8 = 2
        /\ 19 \div 6 + 1 = 4 /\ 19 % 6 = 1 /\ 19 \div 8 + 1 = 3 /\ 19 % 8 = 3
        /\ 20 \div 6 + 1 = 4 /\ 20 % 6 = 2 /\ 20 \div 8 + 1 = 3 /\ 20 % 8 = 4
        /\ 21 \div 6 + 1 = 4 /\ 21 % 6 = 3 /\ 21 \div 8 + 1 = 3 /\ 21 % 8 = 5
        /\ 22 \div 6 + 1 = 4 /\ 22 % 6 = 4 /\ 22 \div 8 + 1 = 3 /\ 22 % 8 = 6
        /\ 23 \div 6 + 1 = 4 /\ 23 % 6 = 5 /\ 23 \div 8 + 1 = 3 /\ 23 % 8 = 7
    OBVIOUS
  <2> QED BY <1>1, <2>1, <2>2, <2>3, <2>4, <2>5, <2>6, <2>7 DEF Bit, x, y, z
<1> HIDE DEF F
<1> QED BY <1>3, <1>4, <1>5, <1>6 DEF F

\* What RFC 4648 says of the length: as many characters of six bits as the octets need.
LEMMA UsedRight == \A m \in Nat : (8 * m + 5) \div 6 = UsedOf(m)
<1> SUFFICES ASSUME NEW m \in Nat PROVE (8 * m + 5) \div 6 = UsedOf(m)
  OBVIOUS
<1> DEFINE w == m \div 3
           i == m % 3
<1>1. w \in Nat /\ i \in 0 .. 2 /\ m = 3 * w + i
  OBVIOUS
<1>2. UsedOf(m) = 4 * w + (IF i = 0 THEN 0 ELSE i + 1)
  BY DEF UsedOf
<1> HIDE DEF w, i
<1>3. 8 * m + 5 = 6 * (4 * w) + (8 * i + 5)
  BY <1>1
<1>4. \A r \in 0 .. 21 : (6 * (4 * w) + r) \div 6 = 4 * w + r \div 6
  BY <1>1
<1>5. (8 * i + 5) \div 6 = IF i = 0 THEN 0 ELSE i + 1
  BY <1>1
<1>6. 8 * i + 5 \in 0 .. 21
  BY <1>1
<1> QED BY <1>2, <1>3, <1>4, <1>5, <1>6

\* A character of base64_chars is a number of six bits.
LEMMA IndexIs == \A x \in Indices : x < 64
  BY DEF Indices

\* base64_encode is the base64 of RFC 4648, for every sequence of octets: the bits of the octets in
\* groups of six, completed by zeros, and equals signs up to a multiple of four characters.
THEOREM Base64IsRfc4648 == \A octets \in Seq(Octets) : EncodesBits(octets)
<1> SUFFICES ASSUME NEW o \in Seq(Octets) PROVE EncodesBits(o)
  OBVIOUS
<1> DEFINE e == base64_encode(o)
           m == Len(o)
           u == UsedOf(m)
<1>1. /\ e \in Seq(Chars) /\ Codes(e, o) /\ u <= Len(e) /\ \A p \in 1 .. Len(e) : p > u => e[p] = Equals
      /\ Len(e) = 4 * (m \div 3) + (IF m % 3 = 0 THEN 0 ELSE 4)
  BY EncodeIs
<1>2. m \in Nat /\ Len(e) \in Nat /\ \A p \in 1 .. m : o[p] \in Octets
  BY <1>1, LenProperties, ElementOfSeq
<1> HIDE DEF e
<1>3. (8 * m + 5) \div 6 = u
  BY <1>2, UsedRight
<1> DEFINE w == m \div 3
           i == m % 3
<1>4. /\ u \in Nat /\ u = 4 * w + (IF i = 0 THEN 0 ELSE i + 1) /\ i \in 0 .. 2 /\ w \in Nat
      /\ Len(e) = 4 * w + (IF i = 0 THEN 0 ELSE 4) /\ m = 3 * w + i
  BY <1>1, <1>2, UsedIs DEF UsedOf
<1> HIDE DEF m, u, w, i
<1>5. Len(e) % 4 = 0 /\ Len(e) - u \in 0 .. 2
  <2>1. Len(e) = 4 * w + (IF i = 0 THEN 0 ELSE 4) /\ u = 4 * w + (IF i = 0 THEN 0 ELSE i + 1) /\ i \in 0 .. 2 /\ w \in Nat
    BY <1>4
  <2>2. Len(e) = 4 * (w + (IF i = 0 THEN 0 ELSE 1))
    BY <2>1
  <2>3. \A n \in Nat : (4 * n) % 4 = 0
    OBVIOUS
  <2> QED BY <2>1, <2>2, <2>3
<1>6. ASSUME NEW g \in Nat, NEW j \in 1 .. 4, (4 * g) + j <= u
      PROVE  e[(4 * g) + j] = ToFour(ThreeOf(o, g + 1))[j]
  <2>1. g + 1 \in 1 .. w + 1
    BY <1>4, <1>6
  <2>2. 4 * ((g + 1) - 1) + j = (4 * g) + j
    OBVIOUS
  <2>3. \A a \in 1 .. w + 1 : 4 * (a - 1) + j <= u => e[4 * (a - 1) + j] = ToFour(ThreeOf(o, a))[j]
    BY <1>1 DEF Codes, u, m, w
  <2> QED BY <1>6, <2>1, <2>2, <2>3
<1>7. ASSUME NEW k \in 1 .. Len(e) PROVE e[k] < 64 <=> k <= u
  <2>1. CASE k <= u
    <3>1. PICK g \in Nat, j \in 1 .. 4 : k = (4 * g) + j
      <4>1. PICK a \in Nat \ {0}, j \in 1 .. 4 : k = 4 * (a - 1) + j
        <5>1. k \in Nat \ {0} /\ 4 \in {3, 4}
          BY <1>2
        <5> QED BY <5>1, GroupOf
      <4>2. a - 1 \in Nat
        OBVIOUS
      <4> QED BY <4>1, <4>2
    <3>2. e[k] = ToFour(ThreeOf(o, g + 1))[j]
      BY <1>6, <2>1, <3>1
    <3>3. ToFour(ThreeOf(o, g + 1)) \in Seq(Indices) /\ Len(ToFour(ThreeOf(o, g + 1))) = 4
      BY ThreeOfType, FourIs
    <3>4. e[k] \in Indices
      BY <3>2, <3>3, ElementOfSeq
    <3>5. e[k] < 64
      BY <3>4, IndexIs, Zenon
    <3> QED BY <2>1, <3>5
  <2>2. CASE ~ (k <= u)
    <3>1. e[k] = 64
      BY <1>1, <1>4, <2>2 DEF Equals
    <3> QED BY <2>2, <3>1
  <2> QED BY <2>1, <2>2
<1>8. ASSUME NEW b \in 0 .. 6 * u - 1
      PROVE  Bit(e[b \div 6 + 1], 6, b % 6) = IF b < 8 * m THEN Bit(o[b \div 8 + 1], 8, b % 8) ELSE 0
  <2> DEFINE g == b \div 24
             t == b % 24
             j == t \div 6 + 1
             k == t \div 8 + 1
             s == ThreeOf(o, g + 1)
  <2>1. b \in Nat /\ b < 6 * u
    BY <1>4
  <2>2. /\ g \in Nat /\ t \in 0 .. 23 /\ j \in 1 .. 4 /\ k \in 1 .. 3 /\ b = (24 * g) + t
        /\ b \div 6 + 1 = (4 * g) + j /\ b % 6 = t % 6 /\ b \div 8 + 1 = (3 * g) + k /\ b % 8 = t % 8
    BY <2>1
  <2>3. b \div 6 + 1 <= u
    BY <1>4, <2>1
  <2> HIDE DEF g, j, k
  <2>4. e[(4 * g) + j] = ToFour(s)[j]
    BY <1>6, <2>2, <2>3
  <2>5. s[1] \in Octets /\ s[2] \in Octets /\ s[3] \in Octets
    BY <2>2, ThreeOfType
  <2>6. s[k] = OctetAt(o, (3 * g) + k)
    <3>1. 3 * ((g + 1) - 1) = 3 * g
      BY <2>2
    <3> QED BY <2>2, <3>1 DEF ThreeOf
  <2> HIDE DEF s, t
  <2>7. Bit(ToFour(s)[j], 6, t % 6) = Bit(s[k], 8, t % 8)
    BY <2>2, <2>5, BitsOfFour DEF j, k
  <2>8. OctetAt(o, b \div 8 + 1) = IF b < 8 * m THEN o[b \div 8 + 1] ELSE 0
    <3>1. b \div 8 + 1 <= m <=> b < 8 * m
      BY <1>2, <2>1
    <3> QED BY <3>1, Zenon DEF OctetAt, m
  <2>9. Bit(0, 8, b % 8) = 0
    <3> DEFINE Z(r) == Bit(0, 8, r) = 0
    <3>1. Z(0) /\ Z(1) /\ Z(2) /\ Z(3) /\ Z(4) /\ Z(5) /\ Z(6) /\ Z(7)
      BY DEF Bit
    <3> HIDE DEF Z
    <3>2. b % 8 \in 0 .. 7
      BY <2>1
    <3> QED BY <3>1, <3>2 DEF Z
  <2> QED BY <2>2, <2>4, <2>6, <2>7, <2>8, <2>9
<1> QED BY <1>3, <1>5, <1>7, <1>8, Zenon DEF EncodesBits, e, m

-----------------------------------------------------------------------------
(* load() and GetStrParam(), Configure.cpp *)

\* The tokens of a line; the marks are named, since the provers do not know them for strings.
Marks == {" ", "[", "]", "=", ";", "#", "\"", "'", "\\"}
IniTokens == STRING \cup Marks

\* A line that is read on.
Continued(line) == line # <<>> /\ Last(line) = "\\"

\* What iniparser_line makes of a statement is what the statement means.
Means(parsed, m) ==
  /\ m.is \in {"section", "entry", "nothing"}
  /\ m.is = "section" => parsed.status = "LINE_SECTION" /\ parsed.section = m.name
  /\ m.is = "entry" => /\ parsed.status = "LINE_VALUE" /\ parsed.key = m.key /\ parsed.value = m.value
  /\ m.is = "nothing" => parsed.status \notin {"LINE_SECTION", "LINE_VALUE"}

\* A statement read alone, in any section, is read as what it means; js[j] is what is kept of its
\* first j lines.
Reads(item, js) ==
  LET n == Len(item.lines)
      Taken(j) == StripEnd(js[j - 1] \o item.lines[j])
  IN  /\ item.lines \in Seq(Seq(IniTokens)) /\ n # 0
      /\ js \in [0 .. n - 1 -> Seq(IniTokens)] /\ js[0] = <<>>
      /\ \A j \in 1 .. n - 1 : Continued(Taken(j)) /\ js[j] = Front(Taken(j))
      /\ ~ Continued(Taken(n))
      /\ \A sec : Means(iniparser_line(Taken(n), sec), item.means)

\* Every statement a file may hold, alone, is read as what it means.
Legible == \A item \in Items : \E js : Reads(item, js)

Reader(item) == CHOOSE js : Reads(item, js)

\* The statements of f up to the k-th: the section they end in, the entries, those asked for, what
\* load() has handed on and what GetStrParam() has found.
Opens(f, k) == {j \in 1 .. k : f[j].means.is = "section"}
SectionOf(f, k) ==
  IF Opens(f, k) = {} THEN <<>> ELSE f[CHOOSE j \in Opens(f, k) : \A l \in Opens(f, k) : l <= j].means.name
EntriesTo(f, k) == {i \in 1 .. k : f[i].means.is = "entry"}
AskedTo(f, k) == {i \in EntriesTo(f, k) : f[i].means.key = Wanted.key /\ SectionOf(f, i) = Wanted.section}
PairOf(m) == <<m.key, m.value>>
Given(f, k, l) ==
  /\ l \in Seq({PairOf(item.means) : item \in Items})
  /\ Len(l) = Cardinality(EntriesTo(f, k))
  /\ \A i \in EntriesTo(f, k) : l[Cardinality({j \in EntriesTo(f, k) : j <= i})] = PairOf(f[i].means)
Answer(f, k) ==
  IF AskedTo(f, k) = {} THEN None ELSE <<f[CHOOSE i \in AskedTo(f, k) : \A j \in AskedTo(f, k) : i <= j].means.value>>

\* The lines of the statements, each statement's by itself.
LinesIn(f) == [i \in DOMAIN f |-> f[i].lines]

\* k statements are read, and i lines of the next, of which kept is left; rest is still to read.
Put(f, rest, kept, at, k, i) ==
  /\ Spread(Seq(IniTokens), LinesIn(f), FlattenSeq(LinesIn(f)), at, Len(f))
  /\ k \in 0 .. Len(f) /\ i \in Nat
  /\ k < Len(f) => i < Len(f[k + 1].lines) /\ kept = Reader(f[k + 1])[i]
  /\ k = Len(f) => i = 0
  /\ rest = SubSeq(FlattenSeq(LinesIn(f)), at[k] + i + 1, Len(FlattenSeq(LinesIn(f))))

\* What k statements say: the section sec, the pairs l handed on, the answer v.
Told(f, k, sec, l, v) == sec = SectionOf(f, k) /\ Given(f, k, l) /\ v = Answer(f, k)

\* The last line of the last statement.
LastLine(f) == Last(Last(f).lines)

\* What is handed on and answered is what k statements say.
Through(f, k, l, v) == Given(f, k, l) /\ v = Answer(f, k)

\* The inductive invariant.
CfgInv ==
  /\ file \in Seq(Items) /\ whole \in BOOLEAN /\ ending \in {"reading", "true", "false"}
  /\ ~ strayed =>
       /\ ~ skipped
       /\ ending = "reading" => /\ \E at, k, i : Put(file, lines, joined, at, k, i) /\ Told(file, k, section, loaded, value)
                                /\ ~ whole /\ file # <<>> => lines # <<>>
       /\ ending = "true" => \/ (whole \/ file = <<>>) /\ Through(file, Len(file), loaded, value)
                             \/ /\ ~ whole /\ file # <<>> /\ LastLine(file) = <<>>
                                /\ Through(file, Len(file) - 1, loaded, value)
       /\ ending = "false" => /\ ~ whole /\ file # <<>> /\ LastLine(file) # <<>>
                              /\ Through(file, Len(file) - 1, loaded, value)

\* The entries up to one statement more.
LEMMA EntriesOneMore ==
  ASSUME NEW f, NEW k \in Nat
  PROVE  EntriesTo(f, k + 1) = IF f[k + 1].means.is = "entry" THEN EntriesTo(f, k) \cup {k + 1} ELSE EntriesTo(f, k)
<1>1. \A i : i \in 1 .. k + 1 <=> i \in 1 .. k \/ i = k + 1
  OBVIOUS
<1> QED BY <1>1, Zenon DEF EntriesTo

\* They are finitely many, and smaller than the next statement.
LEMMA EntriesFinite ==
  ASSUME NEW f, NEW k \in Nat
  PROVE  IsFiniteSet(EntriesTo(f, k)) /\ Cardinality(EntriesTo(f, k)) \in Nat /\ k + 1 \notin EntriesTo(f, k)
<1>1. EntriesTo(f, k) \in SUBSET (1 .. k)
  BY DEF EntriesTo
<1>2. IsFiniteSet(1 .. k)
  BY FS_Interval
<1>3. IsFiniteSet(EntriesTo(f, k))
  BY <1>1, <1>2, FS_Subset
<1> QED BY <1>1, <1>3, FS_CardinalityType

\* What load() hands on for one statement more.
LEMMA GivenOneMore ==
  ASSUME NEW f, NEW k \in Nat, f[k + 1] \in Items, NEW l, Given(f, k, l)
  PROVE  Given(f, k + 1, IF f[k + 1].means.is = "entry" THEN Append(l, PairOf(f[k + 1].means)) ELSE l)
<1> DEFINE S == {PairOf(item.means) : item \in Items}
           E == EntriesTo(f, k)
           p == PairOf(f[k + 1].means)
           l2 == Append(l, p)
<1>1. /\ l \in Seq(S) /\ Len(l) = Cardinality(E)
      /\ \A i \in E : l[Cardinality({j \in E : j <= i})] = PairOf(f[i].means)
  BY DEF Given
<1>2. IsFiniteSet(E) /\ Cardinality(E) \in Nat /\ k + 1 \notin E
  BY EntriesFinite
<1>3. CASE f[k + 1].means.is # "entry"
  <2>1. EntriesTo(f, k + 1) = E
    BY <1>3, EntriesOneMore, Zenon
  <2>2. Given(f, k + 1, l)
    BY <1>1, <2>1, Zenon DEF Given
  <2> QED BY <1>3, <2>2, Zenon
<1>4. CASE f[k + 1].means.is = "entry"
  <2> DEFINE E2 == EntriesTo(f, k + 1)
  <2>1. E2 = E \cup {k + 1}
    BY <1>4, EntriesOneMore, Zenon
  <2>2. p \in S
    BY Zenon
  <2>3. \A i \in E : i \in 1 .. k
    BY DEF EntriesTo
  <2> HIDE DEF S, E, E2
  <2>4. Cardinality(E2) = Cardinality(E) + 1
    BY <1>2, <2>1, FS_AddElement
  <2> HIDE DEF p
  <2>5. /\ l2 \in Seq(S) /\ Len(l2) = Len(l) + 1 /\ l2[Len(l) + 1] = p
        /\ \A i \in 1 .. Len(l) : l2[i] = l[i]
    BY <1>1, <2>2, AppendProperties
  <2> HIDE DEF l2
  <2>6. ASSUME NEW i \in E2 PROVE l2[Cardinality({j \in E2 : j <= i})] = PairOf(f[i].means)
    <3>1. CASE i = k + 1
      <4>0. \A j \in E2 : j <= i
        <5>1. \A j \in 1 .. k : j <= k + 1
          OBVIOUS
        <5>2. k + 1 <= k + 1
          OBVIOUS
        <5> QED BY <2>1, <2>3, <3>1, <5>1, <5>2, Zenon
      <4>1. {j \in E2 : j <= i} = E2
        BY <4>0, Zenon
      <4>2. Cardinality({j \in E2 : j <= i}) = Len(l) + 1
        BY <1>1, <2>4, <4>1
      <4> QED BY <2>5, <3>1, <4>2, Zenon DEF p
    <3>2. CASE i # k + 1
      <4>1. i \in E
        BY <2>1, <3>2
      <4> DEFINE B == {j \in E : j <= i}
      <4>2. {j \in E2 : j <= i} = B
        BY <2>1, <2>3, <4>1
      <4>3. B \in SUBSET E /\ i \in B
        BY <2>3, <4>1
      <4> HIDE DEF B
      <4>4. IsFiniteSet(B) /\ Cardinality(B) <= Cardinality(E) /\ Cardinality(B) \in Nat
        BY <1>2, <4>3, FS_Subset, FS_CardinalityType
      <4>5. Cardinality(B) # 0
        BY <4>3, <4>4, FS_EmptySet
      <4>6. Cardinality(B) \in 1 .. Len(l)
        BY <1>1, <1>2, <4>4, <4>5
      <4>7. l2[Cardinality(B)] = l[Cardinality(B)]
        BY <2>5, <4>6
      <4>8. l[Cardinality(B)] = PairOf(f[i].means)
        BY <1>1, <4>1, Zenon DEF B
      <4> QED BY <4>2, <4>7, <4>8, Zenon
    <3> QED BY <3>1, <3>2
  <2>7. Len(l2) = Cardinality(E2)
    BY <1>1, <2>4, <2>5
  <2>8. Given(f, k + 1, l2)
    BY <2>5, <2>6, <2>7, Zenon DEF Given, S, E2
  <2> QED BY <1>4, <2>8, Zenon DEF l2, p
<1> QED BY <1>3, <1>4

\* The section after one statement more.
LEMMA SectionOneMore ==
  ASSUME NEW f, NEW k \in Nat
  PROVE  SectionOf(f, k + 1) = IF f[k + 1].means.is = "section" THEN f[k + 1].means.name ELSE SectionOf(f, k)
<1>1. \A i : i \in 1 .. k + 1 <=> i \in 1 .. k \/ i = k + 1
  OBVIOUS
<1>2. CASE f[k + 1].means.is # "section"
  <2> DEFINE Name(O) == IF O = {} THEN <<>> ELSE f[CHOOSE j \in O : \A l \in O : l <= j].means.name
             O == Opens(f, k)
             O2 == Opens(f, k + 1)
  <2>1. O2 = O
    BY <1>1, <1>2, Zenon DEF Opens
  <2>2. SectionOf(f, k + 1) = Name(O2) /\ SectionOf(f, k) = Name(O)
    BY Zenon DEF SectionOf
  <2> HIDE DEF Name, O, O2
  <2>3. SectionOf(f, k + 1) = SectionOf(f, k)
    BY <2>1, <2>2, Zenon
  <2> QED BY <1>2, <2>3, Zenon
<1>3. CASE f[k + 1].means.is = "section"
  <2> DEFINE O == Opens(f, k + 1)
             last == CHOOSE j \in O : \A l \in O : l <= j
  <2>1. k + 1 \in O
    BY <1>1, <1>3, Zenon DEF Opens
  <2>2. \A l \in O : l <= k + 1 /\ l \in Nat
    BY DEF Opens
  <2> HIDE DEF O
  <2>3. last \in O /\ \A l \in O : l <= last
    BY <2>1, <2>2, Zenon
  <2>4. SectionOf(f, k + 1) = f[last].means.name
    <3>1. O # {}
      BY <2>1
    <3> QED BY <3>1, Zenon DEF SectionOf, O
  <2> HIDE DEF last
  <2>5. last = k + 1
    BY <2>1, <2>2, <2>3
  <2> QED BY <1>3, <2>4, <2>5, Zenon
<1> QED BY <1>2, <1>3

\* The answer after one statement more.
LEMMA AnswerOneMore ==
  ASSUME NEW f, NEW k \in Nat
  PROVE  Answer(f, k + 1) =
           IF /\ f[k + 1].means.is = "entry" /\ f[k + 1].means.key = Wanted.key
              /\ SectionOf(f, k + 1) = Wanted.section /\ Answer(f, k) = None
           THEN <<f[k + 1].means.value>> ELSE Answer(f, k)
<1> DEFINE A == AskedTo(f, k)
           A2 == AskedTo(f, k + 1)
           known == /\ f[k + 1].means.is = "entry" /\ f[k + 1].means.key = Wanted.key
                    /\ SectionOf(f, k + 1) = Wanted.section
           first == CHOOSE i \in A : \A j \in A : i <= j
           first2 == CHOOSE i \in A2 : \A j \in A2 : i <= j
<1>1. A2 = IF known THEN A \cup {k + 1} ELSE A
  <2>1. EntriesTo(f, k + 1) = IF f[k + 1].means.is = "entry" THEN EntriesTo(f, k) \cup {k + 1} ELSE EntriesTo(f, k)
    BY EntriesOneMore
  <2>2. CASE f[k + 1].means.is # "entry"
    BY <2>1, <2>2, Zenon DEF AskedTo
  <2>3. CASE f[k + 1].means.is = "entry"
    <3>1. EntriesTo(f, k + 1) = EntriesTo(f, k) \cup {k + 1}
      BY <2>1, <2>3, Zenon
    <3> QED BY <2>3, <3>1, Zenon DEF AskedTo
  <2> QED BY <2>2, <2>3
<1>2. A \subseteq Nat /\ (\A i \in A : i <= k) /\ k + 1 \notin A
  <2>1. A \subseteq 1 .. k
    BY DEF AskedTo, EntriesTo
  <2> HIDE DEF A
  <2> QED BY <2>1
<1>3. /\ Answer(f, k) = IF A = {} THEN None ELSE <<f[first].means.value>>
      /\ Answer(f, k + 1) = IF A2 = {} THEN None ELSE <<f[first2].means.value>>
  BY Zenon DEF Answer
<1> DEFINE Value(S) == IF S = {} THEN None ELSE <<f[CHOOSE i \in S : \A j \in S : i <= j].means.value>>
<1>7. Answer(f, k) = Value(A) /\ Answer(f, k + 1) = Value(A2)
  BY Zenon DEF Answer
<1> HIDE DEF A, A2, known, Value
<1>4. CASE ~ known
  <2>1. A2 = A
    BY <1>1, <1>4, Zenon
  <2>2. Answer(f, k + 1) = Answer(f, k)
    BY <1>7, <2>1, Zenon
  <2> QED BY <1>4, <2>2, Zenon DEF known
<1>5. CASE known /\ A = {}
  <2>1. A2 = {k + 1}
    BY <1>1, <1>5
  <2>2. first2 = k + 1
    BY <2>1
  <2> HIDE DEF first2, first
  <2>3. Answer(f, k + 1) = <<f[k + 1].means.value>>
    BY <1>3, <2>1, <2>2
  <2>4. Answer(f, k) = None
    BY <1>3, <1>5, Zenon
  <2> QED BY <1>5, <2>3, <2>4, Zenon DEF known
<1>6. CASE known /\ A # {}
  <2>1. A2 = A \cup {k + 1}
    BY <1>1, <1>6, Zenon
  <2>2. \E i \in A : \A j \in A : i <= j
    BY <1>2, <1>6, LeastOf
  <2>3. first \in A /\ \A j \in A : first <= j
    BY <2>2, Zenon
  <2> HIDE DEF first
  <2>4. first \in A2 /\ (\A j \in A2 : first <= j) /\ A2 \subseteq Nat
    BY <1>2, <2>1, <2>3
  <2>5. first2 \in A2 /\ \A j \in A2 : first2 <= j
    BY <2>4, Zenon
  <2> HIDE DEF first2
  <2>6. first2 = first
    <3>1. first2 <= first /\ first <= first2 /\ first \in Nat /\ first2 \in Nat
      BY <2>4, <2>5
    <3> QED BY <3>1
  <2>7. Answer(f, k + 1) = <<f[first].means.value>> /\ Answer(f, k) = <<f[first].means.value>>
    <3>1. A2 # {}
      BY <2>4
    <3> QED BY <1>3, <1>6, <2>6, <3>1, Zenon
  <2>8. Answer(f, k) # None
    <3>1. \A x : <<x>> # <<>>
      OBVIOUS
    <3> QED BY <2>7, <3>1, Zenon DEF None
  <2> QED BY <2>7, <2>8, Zenon
<1> QED BY <1>4, <1>5, <1>6

\* What is left of a legible statement's lines.
LEMMA ReaderIs ==
  ASSUME Legible, NEW item \in Items
  PROVE  Reads(item, Reader(item))
BY Zenon DEF Legible, Reader

\* The lines of a legible file.
LEMMA LinesInIs ==
  ASSUME Legible, NEW f \in Seq(Items)
  PROVE  /\ LinesIn(f) \in Seq(Seq(Seq(IniTokens))) /\ Len(LinesIn(f)) = Len(f) /\ Len(f) \in Nat
         /\ \A j \in 1 .. Len(f) : /\ f[j] \in Items /\ LinesIn(f)[j] = f[j].lines
                                   /\ f[j].lines \in Seq(Seq(IniTokens)) /\ Len(f[j].lines) \in Nat \ {0}
<1>1. Len(f) \in Nat /\ DOMAIN f = 1 .. Len(f) /\ \A j \in 1 .. Len(f) : f[j] \in Items
  BY LenProperties, ElementOfSeq
<1>2. \A j \in 1 .. Len(f) : f[j].lines \in Seq(Seq(IniTokens)) /\ Len(f[j].lines) # 0
  <2> TAKE j \in 1 .. Len(f)
  <2>1. Reads(f[j], Reader(f[j]))
    BY <1>1, ReaderIs
  <2> QED BY <2>1, Zenon DEF Reads
<1>3. \A j \in 1 .. Len(f) : Len(f[j].lines) \in Nat
  BY <1>2, LenProperties
<1> DEFINE n == Len(f)
           q == LinesIn(f)
<1>4. DOMAIN q = 1 .. n /\ q = [j \in 1 .. n |-> f[j].lines]
  BY <1>1, Zenon DEF LinesIn
<1> HIDE DEF q, n
<1>5. \A j \in 1 .. n : q[j] = f[j].lines
  BY <1>4, Zenon
<1>6. q \in [1 .. n -> Seq(Seq(IniTokens))]
  BY <1>2, <1>4 DEF n
<1>7. q \in Seq(Seq(Seq(IniTokens))) /\ Len(q) = n
  BY <1>1, <1>6 DEF n
<1> QED BY <1>1, <1>2, <1>3, <1>5, <1>7 DEF q, n

\* What is read next, of a file of which k statements are read and i lines of the next.
Ahead(f, rest, at, k, i) ==
  /\ k \in 0 .. Len(f) /\ Len(f) \in Nat /\ i \in Nat /\ rest \in Seq(Seq(IniTokens))
  /\ k = Len(f) => rest = <<>>
  /\ k # Len(f) => /\ rest # <<>> /\ f[k + 1] \in Items /\ i < Len(f[k + 1].lines)
                   /\ Head(rest) = f[k + 1].lines[i + 1]
                   /\ Tail(rest) = SubSeq(FlattenSeq(LinesIn(f)), at[k] + i + 2, Len(FlattenSeq(LinesIn(f))))
                   /\ at[k + 1] = at[k] + Len(f[k + 1].lines) /\ at[k] \in Nat
                   /\ Len(rest) = 1 => k + 1 = Len(f) /\ i + 1 = Len(f[k + 1].lines)

\* It is what the place says.
LEMMA PutIs ==
  ASSUME Legible, NEW f \in Seq(Items), NEW rest, NEW kept, NEW at, NEW k, NEW i, Put(f, rest, kept, at, k, i)
  PROVE  Ahead(f, rest, at, k, i)
<1> DEFINE n == Len(f)
           q == LinesIn(f)
           r == FlattenSeq(q)
           S == Seq(IniTokens)
<1>1. /\ q \in Seq(Seq(S)) /\ n \in Nat
      /\ \A j \in 1 .. n : /\ f[j] \in Items /\ q[j] = f[j].lines /\ Len(f[j].lines) \in Nat \ {0}
  BY LinesInIs
<1>2. /\ Spread(S, q, r, at, n) /\ k \in 0 .. n /\ i \in Nat
      /\ k < n => i < Len(f[k + 1].lines)
      /\ k = n => i = 0
      /\ rest = SubSeq(r, at[k] + i + 1, Len(r))
  BY DEF Put
<1> HIDE DEF n, q, r, S
<1>3. /\ r \in Seq(S) /\ at \in [0 .. n -> Nat] /\ at[n] = Len(r) /\ \A j \in 0 .. n : at[j] <= Len(r)
      /\ \A j \in 1 .. n : /\ at[j] = at[j - 1] + Len(q[j])
                           /\ \A m \in 1 .. Len(q[j]) : r[at[j - 1] + m] = q[j][m]
  BY <1>2 DEF Spread
<1>4. Len(r) \in Nat /\ at[k] \in Nat /\ k \in Nat
  BY <1>1, <1>2, <1>3, LenProperties
<1>5. rest \in Seq(S)
  <2> DEFINE b == at[k] + i + 1
  <2>1. b \in Int /\ b >= 1 /\ Len(r) \in Int
    BY <1>2, <1>4
  <2>2. \A j \in 1 .. Len(r) : r[j] \in S
    BY <1>3, ElementOfSeq
  <2> HIDE DEF b
  <2>3. \A j \in b .. Len(r) : r[j] \in S
    BY <2>1, <2>2
  <2>4. SubSeq(r, b, Len(r)) \in Seq(S)
    BY <2>1, <2>3, SubSeqProperties
  <2> QED BY <1>2, <2>4 DEF b
<1>6. CASE k = n
  <2>1. at[k] + i + 1 \in Int /\ Len(r) \in Int /\ Len(r) < at[k] + i + 1
    BY <1>2, <1>3, <1>4, <1>6
  <2>2. rest = <<>>
    <3> DEFINE b == at[k] + i + 1
    <3>1. b \in Int /\ Len(r) \in Int /\ Len(r) < b
      BY <2>1
    <3> HIDE DEF b
    <3>2. SubSeq(r, b, Len(r)) = <<>>
      BY <3>1, SubSeqEmpty
    <3> QED BY <1>2, <3>2 DEF b
  <2> QED BY <1>1, <1>2, <1>5, <1>6, <2>2 DEF Ahead, n, S
<1>7. CASE k # n
  <2>1. PICK x \in 1 .. n : x = k + 1
    BY <1>1, <1>2, <1>7
  <2> DEFINE item == f[x]
             w == Len(item.lines)
             a == at[k]
             y == at[x]
  <2>2. item \in Items /\ q[x] = item.lines /\ w \in Nat \ {0} /\ i < w
    <3>1. k < n
      BY <1>1, <1>2, <1>7
    <3>2. i < Len(f[x].lines)
      BY <1>2, <2>1, <3>1
    <3> QED BY <1>1, <3>2
  <2>3. y = a + w /\ \A m \in 1 .. w : r[a + m] = item.lines[m]
    <3>1. x - 1 = k
      BY <1>4, <2>1
    <3>2. at[x] = at[x - 1] + Len(q[x]) /\ \A m \in 1 .. Len(q[x]) : r[at[x - 1] + m] = q[x][m]
      BY <1>3, Zenon
    <3> HIDE DEF item
    <3> QED BY <2>2, <3>1, <3>2, Zenon
  <2>4. y <= Len(r) /\ a \in Nat
    <3>1. x \in 0 .. n
      BY <1>1
    <3> QED BY <1>3, <1>4, <3>1
  <2> HIDE DEF w, a, y
  <2> DEFINE b == a + i + 1
  <2>5. b \in 1 .. Len(r) /\ Len(r) \in b .. Len(r) /\ i + 1 \in 1 .. w /\ b = a + (i + 1) /\ b + 1 = a + i + 2
    BY <1>2, <1>4, <2>2, <2>3, <2>4
  <2>6. rest = SubSeq(r, b, Len(r))
    BY <1>2 DEF a
  <2>7. r[b] = item.lines[i + 1]
    <3>1. PICK m \in 1 .. w : m = i + 1
      BY <2>5
    <3>2. b = a + m
      BY <2>5, <3>1
    <3> HIDE DEF b
    <3> QED BY <2>3, <3>1, <3>2, Zenon
  <2> HIDE DEF b, item
  <2>8. Head(rest) = r[b] /\ Tail(rest) = SubSeq(r, b + 1, Len(r))
    BY <1>3, <2>5, <2>6, HeadTailOfSubSeq
  <2>9. Len(rest) = Len(r) - b + 1
    <3>1. \A j \in b .. Len(r) : r[j] \in S
      <4>1. \A j \in 1 .. Len(r) : r[j] \in S
        BY <1>3, ElementOfSeq
      <4> QED BY <1>4, <2>5, <4>1
    <3>2. b \in Int /\ Len(r) \in Int /\ b <= Len(r)
      BY <1>4, <2>5
    <3> QED BY <2>6, <3>1, <3>2, SubSeqProperties
  <2>10. rest # <<>>
    <3>1. Len(rest) # 0
      BY <1>4, <2>5, <2>9
    <3>2. Len(<<>>) = 0
      OBVIOUS
    <3> QED BY <3>1, <3>2, Zenon
  <2>11. ASSUME Len(rest) = 1 PROVE x = n /\ i + 1 = w
    <3>1. b = Len(r)
      <4> DEFINE e == Len(r)
                 c == Len(rest)
      <4>1. e \in Nat /\ b \in 1 .. e /\ c = e - b + 1 /\ c = 1
        BY <1>4, <2>5, <2>9, <2>11
      <4> HIDE DEF e, c
      <4>2. b = e
        BY <4>1
      <4> QED BY <4>2 DEF e
    <3>2. y = Len(r)
      BY <1>2, <1>4, <2>2, <2>3, <2>4, <3>1 DEF b
    <3>9. i + 1 = w
      BY <1>2, <1>4, <2>2, <2>3, <2>4, <3>1 DEF b
    <3>3. SUFFICES ASSUME x # n PROVE FALSE
      BY <3>9
    <3>4. PICK z \in 1 .. n : z = x + 1
      BY <1>1, <3>3
    <3>5. at[z] = at[z - 1] + Len(q[z]) /\ q[z] = f[z].lines /\ Len(f[z].lines) \in Nat \ {0}
      BY <1>1, <1>3, Zenon
    <3>6. z - 1 = x
      BY <3>4
    <3>7. at[z] = y + Len(f[z].lines)
      BY <3>5, <3>6, Zenon DEF y
    <3>8. at[z] <= Len(r)
      <4>1. z \in 0 .. n
        BY <1>1
      <4> QED BY <1>3, <4>1, Zenon
    <3> QED BY <1>4, <3>2, <3>5, <3>7, <3>8
  <2>12. /\ rest # <<>> /\ item \in Items /\ i < w /\ Head(rest) = item.lines[i + 1]
         /\ Tail(rest) = SubSeq(r, a + i + 2, Len(r)) /\ y = a + w /\ a \in Nat
         /\ Len(rest) = 1 => x = n /\ i + 1 = w
    <3>1. Tail(rest) = SubSeq(r, a + i + 2, Len(r))
      BY <2>5, <2>8, Zenon
    <3> QED BY <2>2, <2>3, <2>4, <2>7, <2>8, <2>10, <2>11, <3>1
  <2> QED BY <1>1, <1>2, <1>5, <1>7, <2>1, <2>12 DEF Ahead, n, q, r, S, item, a, w, y
<1> QED BY <1>6, <1>7

\* A line of a statement that goes on.
LEMMA PutOn ==
  ASSUME Legible, NEW f \in Seq(Items), NEW rest, NEW kept, NEW at, NEW k, NEW i, Put(f, rest, kept, at, k, i),
         k # Len(f), i + 1 < Len(f[k + 1].lines)
  PROVE  Put(f, Tail(rest), Reader(f[k + 1])[i + 1], at, k, i + 1)
<1>1. /\ Spread(Seq(IniTokens), LinesIn(f), FlattenSeq(LinesIn(f)), at, Len(f)) /\ k \in 0 .. Len(f) /\ i \in Nat
  BY DEF Put
<1>4. Ahead(f, rest, at, k, i)
  BY PutIs
<1> DEFINE r == FlattenSeq(LinesIn(f))
<1>2. Tail(rest) = SubSeq(r, at[k] + i + 2, Len(r)) /\ at[k] \in Nat
  BY <1>4, Zenon DEF Ahead
<1> HIDE DEF r
<1>3. at[k] + i + 2 = at[k] + (i + 1) + 1 /\ i + 1 \in Nat
  BY <1>1, <1>2
<1>5. Tail(rest) = SubSeq(r, at[k] + (i + 1) + 1, Len(r))
  BY <1>2, <1>3, Zenon
<1> QED BY <1>1, <1>3, <1>5, Zenon DEF Put, r

\* The last line of a statement.
LEMMA PutNext ==
  ASSUME Legible, NEW f \in Seq(Items), NEW rest, NEW kept, NEW at, NEW k, NEW i, Put(f, rest, kept, at, k, i),
         k # Len(f), i + 1 = Len(f[k + 1].lines)
  PROVE  Put(f, Tail(rest), <<>>, at, k + 1, 0)
<1>1. /\ Spread(Seq(IniTokens), LinesIn(f), FlattenSeq(LinesIn(f)), at, Len(f)) /\ k \in 0 .. Len(f) /\ i \in Nat
  BY DEF Put
<1>6. Ahead(f, rest, at, k, i)
  BY PutIs
<1> DEFINE r == FlattenSeq(LinesIn(f))
           y == at[k + 1]
           w == Len(f[k + 1].lines)
<1>2. Tail(rest) = SubSeq(r, at[k] + i + 2, Len(r)) /\ at[k] \in Nat /\ Len(f) \in Nat /\ y = at[k] + w
  BY <1>6, Zenon DEF Ahead
<1> HIDE DEF r, y, w
<1>3. at[k] + i + 2 = y + 0 + 1 /\ k + 1 \in 0 .. Len(f)
  <2> DEFINE a == at[k]
             n == Len(f)
  <2>1. a \in Nat /\ n \in Nat /\ i \in Nat /\ k \in 0 .. n /\ k # n /\ y = a + w /\ i + 1 = w
    BY <1>1, <1>2 DEF w
  <2> HIDE DEF a, n
  <2>2. a + i + 2 = y + 0 + 1 /\ k + 1 \in 0 .. n
    BY <2>1
  <2> QED BY <2>2 DEF a, n
<1>4. Tail(rest) = SubSeq(r, y + 0 + 1, Len(r))
  BY <1>2, <1>3, Zenon
<1>5. ASSUME k + 1 < Len(f) PROVE 0 < Len(f[k + 1 + 1].lines) /\ <<>> = Reader(f[k + 1 + 1])[0]
  <2>1. PICK x \in 1 .. Len(f) : x = k + 1 + 1
    BY <1>1, <1>2, <1>5
  <2>2. f[x] \in Items /\ Len(f[x].lines) \in Nat \ {0}
    BY LinesInIs
  <2>3. Reads(f[x], Reader(f[x]))
    BY <2>2, ReaderIs
  <2>4. Reader(f[x])[0] = <<>>
    BY <2>3, Zenon DEF Reads
  <2>5. 0 < Len(f[x].lines)
    BY <2>2
  <2> QED BY <2>1, <2>4, <2>5, Zenon
<1> QED BY <1>1, <1>3, <1>4, <1>5, Zenon DEF Put, r, y

\* A statement that is read is told.
LEMMA ToldOn ==
  ASSUME Legible, NEW f \in Seq(Items), NEW k \in Nat, k + 1 <= Len(f), NEW sec, NEW l, NEW v, Told(f, k, sec, l, v),
         NEW p, Means(p, f[k + 1].means)
  PROVE  Told(f, k + 1, IF p.status = "LINE_SECTION" THEN p.section ELSE sec,
              IF p.status = "LINE_VALUE" THEN Append(l, <<p.key, p.value>>) ELSE l,
              IF p.status = "LINE_VALUE" /\ v = None /\ (p.key = Wanted.key /\ sec = Wanted.section) THEN <<p.value>> ELSE v)
<1> DEFINE m == f[k + 1].means
           sec2 == IF p.status = "LINE_SECTION" THEN p.section ELSE sec
           l2 == IF p.status = "LINE_VALUE" THEN Append(l, <<p.key, p.value>>) ELSE l
           v2 == IF p.status = "LINE_VALUE" /\ v = None /\ (p.key = Wanted.key /\ sec = Wanted.section) THEN <<p.value>> ELSE v
<1>1. sec = SectionOf(f, k) /\ Given(f, k, l) /\ v = Answer(f, k)
  BY DEF Told
<1>2. /\ m.is \in {"section", "entry", "nothing"}
      /\ m.is = "section" => p.status = "LINE_SECTION" /\ p.section = m.name
      /\ m.is = "entry" => p.status = "LINE_VALUE" /\ p.key = m.key /\ p.value = m.value
      /\ m.is = "nothing" => p.status \notin {"LINE_SECTION", "LINE_VALUE"}
  BY Zenon DEF Means
<1>3. f[k + 1] \in Items /\ Len(f) \in Nat
  <2>1. k + 1 \in 1 .. Len(f)
    BY LenProperties
  <2> QED BY <2>1, LinesInIs
<1>4. SectionOf(f, k + 1) = IF m.is = "section" THEN m.name ELSE SectionOf(f, k)
  BY SectionOneMore
<1>5. Given(f, k + 1, IF m.is = "entry" THEN Append(l, PairOf(m)) ELSE l)
  BY <1>1, <1>3, GivenOneMore
<1>6. Answer(f, k + 1) =
        IF m.is = "entry" /\ m.key = Wanted.key /\ SectionOf(f, k + 1) = Wanted.section /\ Answer(f, k) = None
        THEN <<m.value>> ELSE Answer(f, k)
  BY AnswerOneMore
<1> HIDE DEF m
<1>7. sec2 = SectionOf(f, k + 1)
  BY <1>1, <1>2, <1>4
<1>8. Given(f, k + 1, l2)
  <2>1. CASE m.is = "entry"
    <3>1. p.status = "LINE_VALUE" /\ <<p.key, p.value>> = PairOf(m)
      BY <1>2, <2>1, Zenon DEF PairOf
    <3>2. l2 = Append(l, PairOf(m))
      BY <3>1, Zenon
    <3> QED BY <1>5, <2>1, <3>2, Zenon
  <2>2. CASE m.is # "entry"
    <3>1. p.status # "LINE_VALUE"
      BY <1>2, <2>2
    <3>2. l2 = l
      BY <3>1, Zenon
    <3> QED BY <1>5, <2>2, <3>2, Zenon
  <2> QED BY <2>1, <2>2
<1>9. v2 = Answer(f, k + 1)
  <2>1. CASE m.is = "entry"
    <3>1. p.status = "LINE_VALUE" /\ p.key = m.key /\ p.value = m.value
      BY <1>2, <2>1, Zenon
    <3>2. SectionOf(f, k + 1) = sec
      BY <1>1, <1>4, <2>1
    <3> QED BY <1>1, <1>6, <2>1, <3>1, <3>2, Zenon
  <2>2. CASE m.is # "entry"
    <3>1. p.status # "LINE_VALUE"
      BY <1>2, <2>2
    <3> QED BY <1>1, <1>6, <2>2, <3>1, Zenon
  <2> QED BY <2>1, <2>2
<1> QED BY <1>7, <1>8, <1>9, Zenon DEF Told

\* Before the first statement nothing is told.
LEMMA ToldNothing ==
  ASSUME NEW f
  PROVE  Told(f, 0, <<>>, <<>>, None)
<1>1. Opens(f, 0) = {} /\ EntriesTo(f, 0) = {} /\ AskedTo(f, 0) = {}
  BY DEF Opens, EntriesTo, AskedTo
<1>2. SectionOf(f, 0) = <<>> /\ Answer(f, 0) = None
  BY <1>1, Zenon DEF SectionOf, Answer
<1>3. Given(f, 0, <<>>)
  <2>1. Cardinality(EntriesTo(f, 0)) = 0
    BY <1>1, FS_EmptySet
  <2>2. <<>> \in Seq({PairOf(item.means) : item \in Items}) /\ Len(<<>>) = 0
    OBVIOUS
  <2>3. \A i \in EntriesTo(f, 0) : FALSE
    BY <1>1
  <2> QED BY <2>1, <2>2, <2>3, Zenon DEF Given
<1> QED BY <1>2, <1>3, Zenon DEF Told

\* load() begins before the first line.
LEMMA CfgInvInit == Legible /\ CfgInit => CfgInv
<1> SUFFICES ASSUME Legible, CfgInit PROVE CfgInv
  OBVIOUS
<1>1. /\ file \in BoundedSeq(Items, MaxItems) /\ whole \in BOOLEAN /\ skipped = FALSE
      /\ lines = FlattenSeq(LinesIn(file)) /\ joined = <<>> /\ section = <<>>
      /\ loaded = <<>> /\ value = None /\ ending = "reading"
  BY Zenon DEF CfgInit, LinesIn
<1>2. file \in Seq(Items)
  <2>1. file \in UNION {[1 .. m -> Items] : m \in 0 .. MaxItems}
    BY <1>1, Zenon DEF BoundedSeq, SeqOf
  <2>2. PICK m \in 0 .. MaxItems : file \in [1 .. m -> Items]
    BY <2>1
  <2>3. m \in Nat
    BY ConfigureAssumption
  <2> QED BY <2>2, <2>3
<1> DEFINE q == LinesIn(file)
           r == FlattenSeq(q)
           n == Len(file)
<1>3. /\ q \in Seq(Seq(Seq(IniTokens))) /\ Len(q) = n /\ n \in Nat
      /\ \A j \in 1 .. n : file[j] \in Items /\ q[j] = file[j].lines /\ Len(file[j].lines) \in Nat \ {0}
  BY <1>2, LinesInIs
<1>4. PICK at : Spread(Seq(IniTokens), q, r, at, Len(q))
  <2> HIDE DEF q
  <2> QED BY <1>3, FlattenIs
<1>5. Spread(Seq(IniTokens), q, r, at, n)
  BY <1>3, <1>4, Zenon
<1> HIDE DEF q, r
<1>6. /\ r \in Seq(Seq(IniTokens)) /\ at[0] = 0 /\ at[n] = Len(r) /\ \A j \in 0 .. n : at[j] <= Len(r)
      /\ \A j \in 1 .. n : at[j] = at[j - 1] + Len(q[j])
  BY <1>5 DEF Spread
<1>7. SubSeq(r, at[0] + 0 + 1, Len(r)) = r
  <2>1. at[0] + 0 + 1 = 1
    BY <1>6
  <2>2. SubSeq(r, 1, Len(r)) = r
    BY <1>6, SubSeqFull
  <2> QED BY <2>1, <2>2, Zenon
<1>8. 0 < n => 0 < Len(file[0 + 1].lines) /\ joined = Reader(file[0 + 1])[0]
  <2>1. SUFFICES ASSUME 0 < n PROVE 0 < Len(file[0 + 1].lines) /\ joined = Reader(file[0 + 1])[0]
    OBVIOUS
  <2>2. PICK x \in 1 .. n : x = 0 + 1
    BY <1>3, <2>1
  <2>3. file[x] \in Items /\ Len(file[x].lines) \in Nat \ {0}
    BY <1>3, Zenon
  <2>4. Reads(file[x], Reader(file[x]))
    BY <2>3, ReaderIs
  <2>5. Reader(file[x])[0] = <<>>
    BY <2>4, Zenon DEF Reads
  <2>6. 0 < Len(file[x].lines)
    BY <2>3
  <2> QED BY <1>1, <2>2, <2>5, <2>6, Zenon
<1>9. Put(file, lines, joined, at, 0, 0)
  <2>1. 0 \in 0 .. n /\ 0 \in Nat
    BY <1>3
  <2>2. lines = SubSeq(r, at[0] + 0 + 1, Len(r))
    BY <1>1, <1>7, Zenon DEF r, q
  <2> QED BY <1>5, <1>8, <2>1, <2>2, Zenon DEF Put, r, q, n
<1>10. Told(file, 0, section, loaded, value)
  BY <1>1, ToldNothing, Zenon
<1>11. file # <<>> => lines # <<>>
  <2>1. SUFFICES ASSUME file # <<>> PROVE lines # <<>>
    OBVIOUS
  <2>2. n # 0
    BY <1>2, <2>1, EmptySeq DEF n
  <2>3. PICK x \in 1 .. n : x = 1
    BY <1>3, <2>2
  <2>4. Ahead(file, lines, at, 0, 0)
    BY <1>2, <1>9, PutIs
  <2>5. 0 # Len(file) => lines # <<>>
    BY <2>4, Zenon DEF Ahead
  <2> QED BY <2>2, <2>5, Zenon DEF n
<1> QED BY <1>1, <1>2, <1>9, <1>10, <1>11, Zenon DEF CfgInv

\* The rest of a file at the place before a statement, or in one, has a line to read.
LEMMA ReadLineKeeps == Legible /\ CfgInv /\ ReadLine => CfgInv'
<1> SUFFICES ASSUME Legible, CfgInv, ReadLine PROVE CfgInv'
  OBVIOUS
<1> DEFINE line == StripEnd(joined \o Head(lines))
           parsed == iniparser_line(line, section)
<1>1. /\ ending = "reading" /\ lines # <<>>
      /\ file' = file /\ whole' = whole
      /\ file \in Seq(Items) /\ whole \in BOOLEAN
  BY Zenon DEF CfgInv, ReadLine
<1>2. \/ /\ Len(lines) = 1 /\ ~ whole /\ ending' = IF Head(lines) = <<>> THEN "true" ELSE "false"
         /\ loaded' = loaded /\ value' = value /\ strayed' = strayed /\ skipped' = skipped
      \/ /\ ~ (Len(lines) = 1 /\ ~ whole) /\ ending' = ending
         /\ strayed' = (strayed \/ skipped')
  BY <1>1, Zenon DEF ReadLine
<1>3. ending' \in {"reading", "true", "false"}
  <2> HIDE DEF line, parsed
  <2> QED BY <1>1, <1>2
<1>4. strayed' \/ (~ strayed /\ ~ strayed' /\ ~ skipped /\ ~ skipped')
  <2>1. ~ strayed => ~ skipped
    BY Zenon DEF CfgInv
  <2>2. CASE strayed' = strayed /\ skipped' = skipped
    BY <2>1, <2>2, Zenon
  <2>3. CASE strayed' = (strayed \/ skipped')
    BY <2>1, <2>3, Zenon
  <2> QED BY <1>2, <2>2, <2>3
<1>5. ASSUME strayed' PROVE CfgInv'
  BY <1>1, <1>3, <1>5, Zenon DEF CfgInv
<1>6. ASSUME ~ strayed, ~ strayed', ~ skipped, ~ skipped' PROVE CfgInv'
  <2>16. \/ /\ ~ (Len(lines) = 1 /\ ~ whole) /\ Continued(line)
            /\ lines' = Tail(lines) /\ joined' = Front(line) /\ ending' = ending
            /\ section' = section /\ loaded' = loaded /\ value' = value
         \/ /\ ~ (Len(lines) = 1 /\ ~ whole) /\ ~ Continued(line)
            /\ lines' = Tail(lines) /\ joined' = <<>> /\ ending' = ending
            /\ section' = IF parsed.status = "LINE_SECTION" THEN parsed.section ELSE section
            /\ loaded' = IF parsed.status = "LINE_VALUE" THEN Append(loaded, <<parsed.key, parsed.value>>) ELSE loaded
            /\ value' = IF parsed.status = "LINE_VALUE" /\ value = None /\ (parsed.key = Wanted.key /\ section = Wanted.section)
                        THEN <<parsed.value>> ELSE value
         \/ Len(lines) = 1 /\ ~ whole
    BY <1>1, <1>6, Zenon DEF ReadLine, Continued
  <2>1. PICK at, k, i : Put(file, lines, joined, at, k, i) /\ Told(file, k, section, loaded, value)
    BY <1>1, <1>6, Zenon DEF CfgInv
  <2>2. Ahead(file, lines, at, k, i)
    BY <1>1, <2>1, PutIs
  <2>3. k \in 0 .. Len(file) /\ Len(file) \in Nat /\ i \in Nat /\ lines \in Seq(Seq(IniTokens)) /\ k # Len(file)
    BY <1>1, <2>2, Zenon DEF Ahead
  <2>4. /\ file[k + 1] \in Items /\ i < Len(file[k + 1].lines) /\ Head(lines) = file[k + 1].lines[i + 1]
        /\ Len(lines) = 1 => k + 1 = Len(file) /\ i + 1 = Len(file[k + 1].lines)
    BY <2>2, <2>3, Zenon DEF Ahead
  <2> DEFINE item == file[k + 1]
             js == Reader(item)
             m == Len(item.lines)
             Taken(j) == StripEnd(js[j - 1] \o item.lines[j])
  <2>5. joined = js[i]
    <3>1. k < Len(file)
      BY <2>3
    <3> QED BY <2>1, <3>1, Zenon DEF Put
  <2>6. /\ item.lines \in Seq(Seq(IniTokens)) /\ m # 0 /\ js \in [0 .. m - 1 -> Seq(IniTokens)] /\ js[0] = <<>>
        /\ \A j \in 1 .. m - 1 : Continued(Taken(j)) /\ js[j] = Front(Taken(j))
        /\ ~ Continued(Taken(m))
        /\ \A sec : Means(iniparser_line(Taken(m), sec), item.means)
    <3>1. Reads(item, js)
      BY <2>4, ReaderIs
    <3> QED BY <3>1, Zenon DEF Reads
  <2>7. m \in Nat /\ i < m
    BY <2>4, <2>6, LenProperties
  <2> HIDE DEF js, m
  <2>8. PICK x \in 1 .. m : x = i + 1
    BY <2>3, <2>7
  <2>9. line = Taken(x)
    <3>1. x - 1 = i
      BY <2>3, <2>8
    <3> QED BY <2>4, <2>5, <2>8, <3>1, Zenon
  <2>11. ~ whole /\ ~ (Len(lines) = 1 /\ ~ whole) => Tail(lines) # <<>>
    <3>1. SUFFICES ASSUME Len(lines) # 1 PROVE Tail(lines) # <<>>
      OBVIOUS
    <3>2. Len(Tail(lines)) = Len(lines) - 1 /\ Len(lines) \in Nat
      BY <1>1, <2>3, HeadTailProperties, LenProperties
    <3>3. Len(Tail(lines)) # 0
      BY <3>1, <3>2
    <3>4. Len(<<>>) = 0
      OBVIOUS
    <3> QED BY <3>3, <3>4, Zenon
  <2>12. CASE Len(lines) = 1 /\ ~ whole /\ ending' = (IF Head(lines) = <<>> THEN "true" ELSE "false")
              /\ loaded' = loaded /\ value' = value
    <3>1. k = Len(file) - 1
      BY <2>3, <2>4, <2>12
    <3>2. file # <<>>
      <4>1. Len(file) # 0
        BY <2>3
      <4>2. Len(<<>>) = 0
        OBVIOUS
      <4> QED BY <4>1, <4>2, Zenon
    <3>3. Through(file, Len(file) - 1, loaded, value)
      BY <2>1, <3>1, Zenon DEF Told, Through
    <3>4. Through(file', Len(file') - 1, loaded', value')
      BY <1>1, <2>12, <3>3, Zenon
    <3>5. Head(lines) = LastLine(file)
      BY <2>4, <2>12, Zenon DEF LastLine, Last
    <3>6. LastLine(file') = LastLine(file) /\ ~ whole' /\ file' # <<>>
      BY <1>1, <2>12, <3>2, Zenon
    <3>7. CASE LastLine(file) = <<>>
      <4>1. ending' = "true" /\ "true" # "reading" /\ "true" # "false"
        BY <2>12, <3>5, <3>7
      <4> QED BY <1>1, <1>3, <1>6, <3>4, <3>6, <3>7, <4>1, Zenon DEF CfgInv
    <3>8. CASE LastLine(file) # <<>>
      <4>1. ending' = "false" /\ "false" # "reading" /\ "false" # "true"
        BY <2>12, <3>5, <3>8
      <4> QED BY <1>1, <1>3, <1>6, <3>4, <3>6, <3>8, <4>1, Zenon DEF CfgInv
    <3> QED BY <3>7, <3>8
  <2>13. ASSUME NEW k2, NEW i2, Put(file, Tail(lines), joined', at, k2, i2), Told(file, k2, section', loaded', value'),
                ~ (Len(lines) = 1 /\ ~ whole), lines' = Tail(lines), ending' = ending
         PROVE  CfgInv'
    <3>1. Put(file', lines', joined', at, k2, i2) /\ Told(file', k2, section', loaded', value')
      BY <1>1, <2>13, Zenon
    <3>2. ~ whole' /\ file' # <<>> => lines' # <<>>
      BY <1>1, <2>11, <2>13, Zenon
    <3>3. ending' # "true" /\ ending' # "false"
      BY <1>1, <2>13
    <3> QED BY <1>1, <1>3, <1>6, <3>1, <3>2, <3>3, Zenon DEF CfgInv
  <2>14. CASE /\ ~ (Len(lines) = 1 /\ ~ whole) /\ Continued(line)
              /\ lines' = Tail(lines) /\ joined' = Front(line) /\ ending' = ending
              /\ section' = section /\ loaded' = loaded /\ value' = value
    <3>1. x # m
      BY <2>6, <2>9, <2>14, Zenon
    <3>2. x \in 1 .. m - 1 /\ i + 1 < m
      BY <2>7, <2>8, <3>1
    <3>3. joined' = js[i + 1]
      BY <2>6, <2>8, <2>9, <2>14, <3>2, Zenon
    <3>4. Put(file, Tail(lines), js[i + 1], at, k, i + 1)
      BY <1>1, <2>1, <2>3, <3>2, PutOn DEF js, m
    <3>5. Put(file, Tail(lines), joined', at, k, i + 1)
      BY <3>3, <3>4, Zenon
    <3>6. Told(file, k, section', loaded', value')
      BY <2>1, <2>14, Zenon
    <3> QED BY <2>13, <2>14, <3>5, <3>6, Zenon
  <2>15. CASE /\ ~ (Len(lines) = 1 /\ ~ whole) /\ ~ Continued(line)
              /\ lines' = Tail(lines) /\ joined' = <<>> /\ ending' = ending
              /\ section' = IF parsed.status = "LINE_SECTION" THEN parsed.section ELSE section
              /\ loaded' = IF parsed.status = "LINE_VALUE" THEN Append(loaded, <<parsed.key, parsed.value>>) ELSE loaded
              /\ value' = IF parsed.status = "LINE_VALUE" /\ value = None /\ (parsed.key = Wanted.key /\ section = Wanted.section)
                          THEN <<parsed.value>> ELSE value
    <3>1. x = m
      <4>1. x \notin 1 .. m - 1
        BY <2>6, <2>9, <2>15, Zenon
      <4> QED BY <2>7, <4>1
    <3>2. i + 1 = m
      BY <2>8, <3>1
    <3>3. Put(file, Tail(lines), <<>>, at, k + 1, 0)
      BY <1>1, <2>1, <2>3, <3>2, PutNext DEF m
    <3>4. Means(parsed, item.means)
      BY <2>6, <2>9, <3>1, Zenon
    <3> HIDE DEF parsed, line
    <3>5. k \in Nat /\ k + 1 <= Len(file)
      BY <2>3
    <3>6. Told(file, k + 1, IF parsed.status = "LINE_SECTION" THEN parsed.section ELSE section,
               IF parsed.status = "LINE_VALUE" THEN Append(loaded, <<parsed.key, parsed.value>>) ELSE loaded,
               IF parsed.status = "LINE_VALUE" /\ value = None /\ (parsed.key = Wanted.key /\ section = Wanted.section)
               THEN <<parsed.value>> ELSE value)
      BY <1>1, <2>1, <3>4, <3>5, ToldOn
    <3>7. Told(file, k + 1, section', loaded', value')
      BY <2>15, <3>6, Zenon
    <3>8. Put(file, Tail(lines), joined', at, k + 1, 0)
      BY <2>15, <3>3, Zenon
    <3> QED BY <2>13, <2>15, <3>7, <3>8, Zenon
  <2> HIDE DEF line, parsed
  <2> QED BY <1>2, <2>12, <2>14, <2>15, <2>16, Zenon
<1> QED BY <1>4, <1>5, <1>6

\* At the end of the file every statement is told.
LEMMA EndOfFileKeeps == Legible /\ CfgInv /\ EndOfFile => CfgInv'
<1> SUFFICES ASSUME Legible, CfgInv, EndOfFile PROVE CfgInv'
  OBVIOUS
<1>1. /\ ending = "reading" /\ lines = <<>> /\ ending' = "true"
      /\ file' = file /\ whole' = whole /\ loaded' = loaded /\ value' = value
      /\ strayed' = strayed /\ skipped' = skipped
      /\ file \in Seq(Items) /\ whole \in BOOLEAN
  BY Zenon DEF CfgInv, EndOfFile, cfgVars
<1>3. ending' \in {"reading", "true", "false"} /\ ending' # "reading" /\ ending' # "false"
  BY <1>1
<1>4. ASSUME ~ strayed
      PROVE  ~ skipped /\ (whole \/ file = <<>>) /\ Through(file, Len(file), loaded, value)
  <2>1. PICK at, k, i : Put(file, lines, joined, at, k, i) /\ Told(file, k, section, loaded, value)
    BY <1>1, <1>4, Zenon DEF CfgInv
  <2>2. Ahead(file, lines, at, k, i)
    BY <1>1, <2>1, PutIs
  <2>3. k = Len(file)
    BY <1>1, <2>2, Zenon DEF Ahead
  <2>4. ~ skipped /\ (whole \/ file = <<>>)
    BY <1>1, <1>4, Zenon DEF CfgInv
  <2> QED BY <2>1, <2>3, <2>4, Zenon DEF Told, Through
<1>5. ~ strayed' => ~ skipped' /\ (whole' \/ file' = <<>>) /\ Through(file', Len(file'), loaded', value')
  BY <1>1, <1>4, Zenon
<1> QED BY <1>1, <1>3, <1>5, Zenon DEF CfgInv

\* The invariant says what load() and GetStrParam() make of the file.
LEMMA CfgInvIsRight == CfgInv => ConfigRight
<1> SUFFICES ASSUME CfgInv, ending # "reading", ~ strayed
             PROVE  /\ Len(loaded) = Cardinality(Entries)
                    /\ \A i \in Entries :
                         loaded[Cardinality({j \in Entries : j <= i})] = <<file[i].means.key, file[i].means.value>>
                    /\ value = IF Asked = {} THEN None ELSE <<file[CHOOSE i \in Asked : \A j \in Asked : i <= j].means.value>>
                    /\ (ending = "false") = (~whole /\ file # <<>> /\ LastLine(file) # <<>>)
  BY Zenon DEF ConfigRight, LastLine
<1>1. /\ file \in Seq(Items) /\ ending \in {"true", "false"}
      /\ ending = "true" => \/ (whole \/ file = <<>>) /\ Through(file, Len(file), loaded, value)
                            \/ /\ ~ whole /\ file # <<>> /\ LastLine(file) = <<>>
                               /\ Through(file, Len(file) - 1, loaded, value)
      /\ ending = "false" => /\ ~ whole /\ file # <<>> /\ LastLine(file) # <<>>
                             /\ Through(file, Len(file) - 1, loaded, value)
  BY DEF CfgInv
<1>2. PICK k \in Int : Said = 1 .. k /\ Through(file, k, loaded, value)
  <2> DEFINE n == Len(file)
  <2>1. n \in Nat /\ (file = <<>> => n = 0)
    BY <1>1, LenProperties, EmptySeq
  <2> HIDE DEF n
  <2>2. CASE ~ whole /\ Through(file, n - 1, loaded, value)
    <3>1. Said = 1 .. n - 1
      BY <2>2, Zenon DEF Said, n
    <3>2. n - 1 \in Int
      BY <2>1
    <3> QED BY <2>2, <3>1, <3>2, Zenon
  <2>3. CASE whole /\ Through(file, n, loaded, value)
    <3>1. Said = 1 .. n
      BY <2>3, Zenon DEF Said, n
    <3>2. n \in Int
      BY <2>1
    <3> QED BY <2>3, <3>1, <3>2, Zenon
  <2>4. CASE file = <<>> /\ ~ whole /\ Through(file, n, loaded, value)
    <3>1. n = 0
      BY <2>1, <2>4, Zenon
    <3>2. Said = 1 .. n - 1
      BY <2>4, Zenon DEF Said, n
    <3>3. 1 .. n - 1 = 1 .. n /\ n \in Int
      BY <3>1
    <3> QED BY <2>4, <3>2, <3>3, Zenon
  <2>5. \/ ~ whole /\ Through(file, n - 1, loaded, value)
        \/ whole /\ Through(file, n, loaded, value)
        \/ file = <<>> /\ ~ whole /\ Through(file, n, loaded, value)
    BY <1>1 DEF n
  <2> QED BY <2>2, <2>3, <2>4, <2>5, Zenon
<1>3. Entries = EntriesTo(file, k)
  BY <1>2, Zenon DEF Entries, EntriesTo
<1>4. \A i : SectionAt(i) = SectionOf(file, i)
  BY Zenon DEF SectionAt, SectionOf, Opens
<1>5. Asked = AskedTo(file, k)
  BY <1>3, <1>4, Zenon DEF Asked, AskedTo
<1>6. /\ Len(loaded) = Cardinality(Entries)
      /\ \A i \in Entries : loaded[Cardinality({j \in Entries : j <= i})] = PairOf(file[i].means)
  BY <1>2, <1>3, Zenon DEF Given, Through
<1>7. value = IF Asked = {} THEN None ELSE <<file[CHOOSE i \in Asked : \A j \in Asked : i <= j].means.value>>
  <2> DEFINE Value(S) == IF S = {} THEN None ELSE <<file[CHOOSE i \in S : \A j \in S : i <= j].means.value>>
             A == AskedTo(file, k)
  <2>1. value = Value(A)
    BY <1>2, Zenon DEF Answer, Through
  <2>2. Asked = A
    BY <1>5, Zenon
  <2> HIDE DEF Value, A
  <2>3. value = Value(Asked)
    BY <2>1, <2>2, Zenon
  <2> QED BY <2>3, Zenon DEF Value
<1>8. (ending = "false") = (~whole /\ file # <<>> /\ LastLine(file) # <<>>)
  <2>1. whole \in BOOLEAN
    BY DEF CfgInv
  <2> QED BY <1>1, <2>1
<1> QED BY <1>6, <1>7, <1>8, Zenon DEF PairOf

\* A file of statements each of which, read alone, is read as what it means, however long it is and
\* however many lines its statements take: load() hands on every entry, in order, and GetStrParam()
\* answers the first entry of the key in the section asked for; nothing is left of one statement in
\* the next, unless a backslash before line[0] was read with an empty line; and of a last line without
\* its newline nothing is handed on, and load() fails only where there is something of that line.
THEOREM FilesAreRead ==
  ASSUME Legible
  PROVE  CfgSpec => []ConfigRight
<1>1. CfgInit => CfgInv
  BY CfgInvInit
<1>2. CfgInv /\ [CfgNext]_cfgVars => CfgInv'
  <2> SUFFICES ASSUME CfgInv, [CfgNext]_cfgVars PROVE CfgInv'
    OBVIOUS
  <2>1. CASE ReadLine
    BY <2>1, ReadLineKeeps
  <2>2. CASE EndOfFile
    BY <2>2, EndOfFileKeeps
  <2>3. CASE UNCHANGED cfgVars
    BY <2>3, Zenon DEF cfgVars, CfgInv
  <2> QED BY <2>1, <2>2, <2>3, Zenon DEF CfgNext
<1>3. CfgInv => ConfigRight
  BY CfgInvIsRight
<1> QED BY <1>1, <1>2, <1>3, PTL DEF CfgSpec

-----------------------------------------------------------------------------
(* The statements that load() and GetStrParam() can read *)

\* The parts of a sequence of two parts.
LEMMA PiecesAre ==
  ASSUME NEW S, NEW a \in Seq(S), NEW b \in Seq(S)
  PROVE  SubSeq(a \o b, 1, Len(a)) = a /\ SubSeq(a \o b, Len(a) + 1, Len(a \o b)) = b
<1> DEFINE t == a \o b
           m == Len(a)
           n == Len(b)
<1>1. /\ t \in Seq(S) /\ Len(t) = m + n /\ m \in Nat /\ n \in Nat
      /\ \A i \in 1 .. m : t[i] = a[i]
      /\ \A j \in 1 .. n : t[m + j] = b[j]
  BY BehindIs, LenProperties
<1> HIDE DEF t, m, n
<1>2. SubSeq(t, 1, m) = a
  <2> DEFINE u == SubSeq(t, 0 + 1, 0 + m)
  <2>1. u \in Seq(S) /\ Len(u) = m /\ \A j \in 1 .. m : u[j] = t[0 + j]
    <3>1. 0 \in Nat /\ 0 + m <= Len(t)
      BY <1>1
    <3> QED BY <1>1, <3>1, CutIs
  <2> HIDE DEF u
  <2>2. \A j \in 1 .. m : u[j] = a[j]
    <3> TAKE j \in 1 .. m
    <3>1. 0 + j = j
      BY <1>1
    <3>2. u[j] = t[j] /\ t[j] = a[j]
      BY <1>1, <2>1, <3>1, Zenon
    <3> QED BY <3>2
  <2>3. u = a
    BY <2>1, <2>2, SeqEqual DEF m
  <2>4. 0 + 1 = 1 /\ 0 + m = m
    BY <1>1
  <2> QED BY <2>3, <2>4, Zenon DEF u
<1>3. SubSeq(t, m + 1, m + n) = b
  <2> DEFINE u == SubSeq(t, m + 1, m + n)
  <2>1. u \in Seq(S) /\ Len(u) = n /\ \A j \in 1 .. n : u[j] = t[m + j]
    <3>1. m + n <= Len(t)
      BY <1>1
    <3>2. t \in Seq(S) /\ m \in Nat /\ n \in Nat
      BY <1>1
    <3> QED BY <3>1, <3>2, CutIs
  <2> HIDE DEF u
  <2>2. \A j \in 1 .. n : u[j] = b[j]
    BY <1>1, <2>1, Zenon
  <2>3. u = b
    BY <2>1, <2>2, SeqEqual DEF n
  <2> QED BY <2>3 DEF u
<1>4. SubSeq(t, m + 1, Len(t)) = b
  BY <1>1, <1>3, Zenon
<1> QED BY <1>2, <1>4 DEF t, m

\* Where the spaces around a text end.
LEMMA StripIs ==
  ASSUME NEW t \in Seq(IniTokens), NEW m \in 1 .. Len(t), NEW n \in m .. Len(t), t[m] # Space, t[n] # Space,
         \A i \in 1 .. Len(t) : t[i] # Space => m <= i /\ i <= n
  PROVE  strstrip(t) = SubSeq(t, m, n) /\ StripEnd(t) = SubSeq(t, 1, n)
<1> DEFINE kept == {i \in DOMAIN t : t[i] # Space}
           first == CHOOSE i \in kept : \A j \in kept : i <= j
           last == CHOOSE i \in kept : \A j \in kept : j <= i
<1>1. DOMAIN t = 1 .. Len(t) /\ Len(t) \in Nat
  BY LenProperties
<1>2. m \in kept /\ n \in kept /\ kept # {} /\ \A i \in kept : i \in Nat /\ m <= i /\ i <= n
  BY <1>1
<1>3. strstrip(t) = SubSeq(t, first, last)
  BY <1>2, Zenon DEF strstrip
<1>4. StripEnd(t) = SubSeq(t, 1, last)
  <2>1. StripEnd(t) = SubSeq(t, 1, IF kept = {} THEN 0 ELSE last)
    BY Zenon DEF StripEnd
  <2>2. (IF kept = {} THEN 0 ELSE last) = last
    BY <1>2, Zenon
  <2> HIDE DEF last
  <2> QED BY <2>1, <2>2, Zenon
<1> HIDE DEF kept
<1>5. first \in kept /\ \A j \in kept : first <= j
  BY <1>2, Zenon
<1>6. last \in kept /\ \A j \in kept : j <= last
  BY <1>2, Zenon
<1> HIDE DEF first, last
<1>7. first = m /\ last = n
  BY <1>2, <1>5, <1>6
<1> QED BY <1>3, <1>4, <1>7, Zenon

\* A text that neither begins nor ends with a space.
Trim(b) == b \in Seq(IniTokens) /\ Len(b) # 0 /\ b[1] # Space /\ b[Len(b)] # Space

Pads == Seq({Space})

\* Spaces are a text.
LEMMA PadsAre ==
  ASSUME NEW a \in Pads
  PROVE  a \in Seq(IniTokens) /\ Len(a) \in Nat /\ \A i \in 1 .. Len(a) : a[i] = Space
<1>1. a \in Seq({Space})
  BY DEF Pads
<1>2. Len(a) \in Nat /\ a \in [1 .. Len(a) -> {Space}]
  BY <1>1, LenProperties
<1>3. Space \in IniTokens
  BY DEF Space, IniTokens, Marks
<1>4. a \in [1 .. Len(a) -> IniTokens]
  BY <1>2, <1>3
<1>5. a \in Seq(IniTokens)
  BY <1>2, <1>4
<1> QED BY <1>2, <1>5

\* A text of one token.
LEMMA OneIs ==
  ASSUME NEW S, NEW x \in S
  PROVE  <<x>> \in Seq(S) /\ Len(<<x>>) = 1 /\ <<x>>[1] = x
OBVIOUS

\* A text and one token more.
LEMMA OneMoreIs ==
  ASSUME NEW S, NEW a \in Seq(S), NEW x \in S
  PROVE  /\ a \o <<x>> \in Seq(S) /\ Len(a \o <<x>>) = Len(a) + 1
         /\ \A i \in 1 .. Len(a) : (a \o <<x>>)[i] = a[i]
         /\ (a \o <<x>>)[Len(a) + 1] = x
<1> DEFINE y == <<x>>
<1>1. y \in Seq(S) /\ Len(y) = 1 /\ y[1] = x
  BY OneIs
<1> HIDE DEF y
<1> DEFINE t == a \o y
<1>2. /\ t \in Seq(S) /\ Len(t) = Len(a) + Len(y)
      /\ \A i \in 1 .. Len(a) : t[i] = a[i]
      /\ \A j \in 1 .. Len(y) : t[Len(a) + j] = y[j]
  BY <1>1, BehindIs
<1> HIDE DEF t
<1>3. 1 \in 1 .. Len(y)
  BY <1>1
<1>4. t[Len(a) + 1] = x /\ Len(t) = Len(a) + 1
  BY <1>1, <1>2, <1>3, Zenon
<1> QED BY <1>2, <1>4 DEF t, y

\* Spaces around a text are stripped.
LEMMA StripPadded ==
  ASSUME NEW a \in Pads, NEW b, Trim(b), NEW c \in Pads
  PROVE  strstrip((a \o b) \o c) = b /\ StripEnd((a \o b) \o c) = a \o b
<1> DEFINE ab == a \o b
           t == ab \o c
           l == Len(a)
           w == Len(b)
<1>1. /\ a \in Seq(IniTokens) /\ l \in Nat /\ \A i \in 1 .. l : a[i] = Space
      /\ c \in Seq(IniTokens) /\ Len(c) \in Nat /\ \A i \in 1 .. Len(c) : c[i] = Space
  BY PadsAre
<1>2. b \in Seq(IniTokens) /\ w \in Nat /\ w # 0 /\ b[1] # Space /\ b[w] # Space
  BY LenProperties DEF Trim
<1>3. /\ ab \in Seq(IniTokens) /\ Len(ab) = l + w
      /\ \A i \in 1 .. l : ab[i] = a[i]
      /\ \A j \in 1 .. w : ab[l + j] = b[j]
  BY <1>1, <1>2, BehindIs
<1>4. SubSeq(ab, l + 1, l + w) = b
  <2>1. SubSeq(ab, l + 1, Len(ab)) = b
    BY <1>1, <1>2, PiecesAre
  <2> HIDE DEF ab, l, w
  <2> QED BY <1>3, <2>1, Zenon
<1> HIDE DEF ab, l, w
<1>5. /\ t \in Seq(IniTokens) /\ Len(t) = l + w + Len(c)
      /\ \A i \in 1 .. l + w : t[i] = ab[i]
      /\ \A j \in 1 .. Len(c) : t[l + w + j] = c[j]
  <2>1. /\ t \in Seq(IniTokens) /\ Len(t) = Len(ab) + Len(c)
        /\ \A i \in 1 .. Len(ab) : t[i] = ab[i]
        /\ \A j \in 1 .. Len(c) : t[Len(ab) + j] = c[j]
    <3>1. ab \in Seq(IniTokens) /\ c \in Seq(IniTokens)
      BY <1>1, <1>3
    <3> QED BY <3>1, BehindIs
  <2> HIDE DEF t
  <2> QED BY <1>3, <2>1, Zenon
<1>6. SubSeq(t, 1, l + w) = ab
  <2>1. SubSeq(t, 1, Len(ab)) = ab
    BY <1>1, <1>3, PiecesAre
  <2> HIDE DEF t
  <2> QED BY <1>3, <2>1, Zenon
<1> HIDE DEF t
<1>7. t[l + 1] = b[1] /\ t[l + w] = b[w]
  <2>1. l + 1 \in 1 .. l + w /\ l + w \in 1 .. l + w /\ 1 \in 1 .. w /\ w \in 1 .. w
    BY <1>1, <1>2
  <2> QED BY <1>3, <1>5, <2>1, Zenon
<1>8. \A i \in 1 .. Len(t) : t[i] # Space => l + 1 <= i /\ i <= l + w
  <2> TAKE i \in 1 .. Len(t)
  <2>1. CASE i \in 1 .. l
    <3>1. i \in 1 .. l + w
      BY <1>1, <1>2, <2>1
    <3>2. t[i] = Space
      BY <1>1, <1>3, <1>5, <2>1, <3>1, Zenon
    <3> QED BY <3>2
  <2>2. CASE i > l + w
    <3>1. PICK j \in 1 .. Len(c) : i = l + w + j
      <4>1. i - (l + w) \in 1 .. Len(c) /\ i = l + w + (i - (l + w))
        BY <1>1, <1>2, <1>5, <2>2
      <4> QED BY <4>1
    <3>2. t[i] = Space
      BY <1>1, <1>5, <3>1, Zenon
    <3> QED BY <3>2
  <2> QED BY <1>1, <1>2, <1>5, <2>1, <2>2
<1>9. l + 1 \in 1 .. Len(t) /\ l + w \in l + 1 .. Len(t)
  BY <1>1, <1>2, <1>5
<1>10. strstrip(t) = SubSeq(t, l + 1, l + w) /\ StripEnd(t) = SubSeq(t, 1, l + w)
  <2> DEFINE m == l + 1
             n == l + w
  <2>1. /\ m \in 1 .. Len(t) /\ n \in m .. Len(t) /\ t[m] # Space /\ t[n] # Space
        /\ \A i \in 1 .. Len(t) : t[i] # Space => m <= i /\ i <= n
    BY <1>2, <1>7, <1>8, <1>9
  <2> HIDE DEF m, n
  <2>2. strstrip(t) = SubSeq(t, m, n) /\ StripEnd(t) = SubSeq(t, 1, n)
    BY <1>5, <2>1, StripIs
  <2> QED BY <2>2 DEF m, n
<1>11. SubSeq(t, l + 1, l + w) = b
  <2> DEFINE u == SubSeq(t, l + 1, l + w)
  <2>1. u \in Seq(IniTokens) /\ Len(u) = w /\ \A j \in 1 .. w : u[j] = t[l + j]
    <3>1. l + w <= Len(t)
      BY <1>1, <1>2, <1>5
    <3> QED BY <1>1, <1>2, <1>5, <3>1, CutIs
  <2> HIDE DEF u
  <2>2. \A j \in 1 .. w : u[j] = b[j]
    <3> TAKE j \in 1 .. w
    <3>1. l + j \in 1 .. l + w
      BY <1>1, <1>2
    <3> QED BY <1>3, <1>5, <2>1, <3>1, Zenon
  <2>3. u = b
    BY <1>2, <2>1, <2>2, SeqEqual DEF w
  <2> QED BY <2>3 DEF u
<1> QED BY <1>6, <1>10, <1>11, Zenon DEF t, ab

\* Nothing is stripped of a text without spaces around it.
LEMMA StripTrim ==
  ASSUME NEW b, Trim(b)
  PROVE  strstrip(b) = b /\ StripEnd(b) = b
<1>1. b \in Seq(IniTokens) /\ <<>> \in Pads
  BY DEF Trim, Pads
<1>2. (<<>> \o b) \o <<>> = b /\ <<>> \o b = b
  BY <1>1, ConcatEmptySeq
<1>3. strstrip((<<>> \o b) \o <<>>) = b /\ StripEnd((<<>> \o b) \o <<>>) = <<>> \o b
  BY <1>1, StripPadded
<1> QED BY <1>2, <1>3, Zenon

\* Of spaces nothing is left.
LEMMA StripSpaces ==
  ASSUME NEW a \in Pads
  PROVE  strstrip(a) = <<>> /\ StripEnd(a) = <<>>
<1> DEFINE kept == {i \in DOMAIN a : a[i] # Space}
<1>1. a \in Seq(IniTokens) /\ DOMAIN a = 1 .. Len(a)
  BY PadsAre, LenProperties
<1>2. kept = {}
  BY <1>1, PadsAre
<1>3. strstrip(a) = <<>>
  BY <1>2, Zenon DEF strstrip
<1>4. StripEnd(a) = SubSeq(a, 1, IF kept = {} THEN 0 ELSE CHOOSE i \in kept : \A j \in kept : j <= i)
  BY Zenon DEF StripEnd
<1> HIDE DEF kept
<1>5. StripEnd(a) = SubSeq(a, 1, 0)
  BY <1>2, <1>4, Zenon
<1>6. SubSeq(a, 1, 0) = <<>>
  BY SubSeqEmpty
<1> QED BY <1>3, <1>5, <1>6, Zenon

\* The places of the tokens.
Places(s, tokens) == {i \in 1 .. Len(s) : s[i] \in tokens}

\* The first of the tokens is found behind the text that has none of them.
LEMMA FirstIs ==
  ASSUME NEW S, NEW a \in Seq(S), NEW x \in S, NEW b \in Seq(S), NEW tokens, x \in tokens,
         \A i \in 1 .. Len(a) : a[i] \notin tokens
  PROVE  /\ Places((a \o <<x>>) \o b, tokens) # {} /\ Min(Places((a \o <<x>>) \o b, tokens)) = Len(a) + 1
         /\ UpTo((a \o <<x>>) \o b, tokens) = a
         /\ SubSeq((a \o <<x>>) \o b, 1, Len(a)) = a
<1> DEFINE ax == a \o <<x>>
           s == ax \o b
           l == Len(a)
           I == Places(s, tokens)
<1>1. a \in Seq(S) /\ l \in Nat /\ <<x>> \in Seq(S) /\ Len(<<x>>) = 1 /\ <<x>>[1] = x
  <2>1. l \in Nat
    BY LenProperties
  <2> QED BY <2>1, OneIs
<1>2. /\ ax \in Seq(S) /\ Len(ax) = l + 1
      /\ \A i \in 1 .. l : ax[i] = a[i]
      /\ ax[l + 1] = x
  BY OneMoreIs
<1>3. SubSeq(ax, 1, l) = a
  BY <1>1, PiecesAre
<1> HIDE DEF ax, l
<1>4. /\ s \in Seq(S) /\ Len(s) = l + 1 + Len(b) /\ Len(b) \in Nat
      /\ \A i \in 1 .. l + 1 : s[i] = ax[i]
  <2>1. /\ s \in Seq(S) /\ Len(s) = Len(ax) + Len(b)
        /\ \A i \in 1 .. Len(ax) : s[i] = ax[i]
    <3>1. ax \in Seq(S) /\ b \in Seq(S)
      BY <1>2
    <3> QED BY <3>1, BehindIs
  <2> HIDE DEF s
  <2> QED BY <1>2, <2>1, LenProperties
<1> HIDE DEF s
<1>5. l + 1 \in I /\ I \subseteq Nat /\ I # {}
  <2>1. l + 1 \in 1 .. l + 1 /\ l + 1 \in 1 .. Len(s)
    BY <1>1, <1>4
  <2>2. s[l + 1] \in tokens
    BY <1>2, <1>4, <2>1, Zenon
  <2> QED BY <2>1, <2>2 DEF Places
<1>6. \A i \in I : ~ (i <= l)
  <2> TAKE i \in I
  <2>1. SUFFICES ASSUME i <= l PROVE FALSE
    OBVIOUS
  <2>2. i \in 1 .. l /\ i \in 1 .. l + 1 /\ s[i] \in tokens
    BY <1>1, <1>4, <2>1 DEF Places
  <2>3. s[i] = a[i]
    BY <1>2, <1>4, <2>2, Zenon
  <2> QED BY <2>2, <2>3, Zenon DEF l
<1>7. Min(I) \in I /\ \A i \in I : Min(I) <= i
  <2> HIDE DEF I
  <2> QED BY <1>5, MinOf
<1>8. Min(I) = l + 1
  <2> DEFINE o == Min(I)
  <2>1. o \in Nat /\ o <= l + 1 /\ ~ (o <= l)
    BY <1>5, <1>6, <1>7
  <2> HIDE DEF o
  <2>2. o = l + 1
    BY <1>1, <2>1
  <2> QED BY <2>2 DEF o
<1>10. UpTo(s, tokens) = SubSeq(s, 1, l)
  <2> DEFINE found == IF I # {} THEN Min(I) ELSE 0
  <2>1. UpTo(s, tokens) = IF found = 0 THEN s ELSE SubSeq(s, 1, found - 1)
    BY Zenon DEF UpTo, SelectInSeq, Places
  <2>2. found = l + 1
    BY <1>5, <1>8, Zenon
  <2> HIDE DEF found
  <2>3. found # 0 /\ found - 1 = l
    BY <1>1, <2>2
  <2>4. UpTo(s, tokens) = SubSeq(s, 1, found - 1)
    BY <2>1, <2>3, Zenon
  <2> QED BY <2>3, <2>4, Zenon
<1>11. SubSeq(s, 1, l) = a
  <2> DEFINE u == SubSeq(s, 0 + 1, 0 + l)
  <2>1. u \in Seq(S) /\ Len(u) = l /\ \A j \in 1 .. l : u[j] = s[0 + j]
    <3>1. 0 \in Nat /\ 0 + l <= Len(s)
      BY <1>1, <1>4
    <3> QED BY <1>1, <1>4, <3>1, CutIs
  <2> HIDE DEF u
  <2>2. \A j \in 1 .. l : u[j] = a[j]
    <3> TAKE j \in 1 .. l
    <3>1. 0 + j = j /\ j \in 1 .. l + 1
      BY <1>1
    <3> QED BY <1>2, <1>4, <2>1, <3>1, Zenon
  <2>3. u = a
    BY <1>1, <2>1, <2>2, SeqEqual DEF l
  <2>4. 0 + 1 = 1 /\ 0 + l = l
    BY <1>1
  <2> QED BY <2>3, <2>4, Zenon DEF u
<1> QED BY <1>5, <1>8, <1>10, <1>11, Zenon DEF s, ax, l

\* A text without the tokens is taken as a whole.
LEMMA NoneIs ==
  ASSUME NEW a \in Seq(IniTokens), NEW tokens, \A i \in 1 .. Len(a) : a[i] \notin tokens
  PROVE  UpTo(a, tokens) = a
<1> DEFINE I == {i \in 1 .. Len(a) : a[i] \in tokens}
<1>1. I = {}
  OBVIOUS
<1>2. SelectInSeq(a, LAMBDA t : t \in tokens) = 0
  BY <1>1, Zenon DEF SelectInSeq
<1> QED BY <1>2, Zenon DEF UpTo

\* The ends of two texts one behind the other.
LEMMA EndsAre ==
  ASSUME NEW S, NEW a \in Seq(S), NEW b \in Seq(S)
  PROVE  /\ Len(a) # 0 => (a \o b)[1] = a[1]
         /\ Len(b) # 0 => (a \o b)[Len(a \o b)] = b[Len(b)]
<1> DEFINE t == a \o b
           m == Len(a)
           n == Len(b)
<1>1. /\ Len(t) = m + n /\ m \in Nat /\ n \in Nat
      /\ \A i \in 1 .. m : t[i] = a[i]
      /\ \A j \in 1 .. n : t[m + j] = b[j]
  BY BehindIs, LenProperties
<1> HIDE DEF t, m, n
<1>2. m # 0 => 1 \in 1 .. m
  BY <1>1
<1>3. n # 0 => n \in 1 .. n
  BY <1>1
<1> QED BY <1>1, <1>2, <1>3, Zenon DEF t, m, n

\* A token before a text.
LEMMA BeforeIs ==
  ASSUME NEW S, NEW x \in S, NEW s \in Seq(S)
  PROVE  /\ <<x>> \o s \in Seq(S) /\ Len(<<x>> \o s) = Len(s) + 1 /\ (<<x>> \o s)[1] = x
         /\ Tail(<<x>> \o s) = s
         /\ Len(s) # 0 => (<<x>> \o s)[2] = s[1]
<1> DEFINE y == <<x>>
<1>1. y \in Seq(S) /\ Len(y) = 1 /\ y[1] = x /\ Len(s) \in Nat
  BY OneIs, LenProperties
<1> HIDE DEF y
<1> DEFINE t == y \o s
<1>2. /\ t \in Seq(S) /\ Len(t) = Len(y) + Len(s)
      /\ \A i \in 1 .. Len(y) : t[i] = y[i]
      /\ \A j \in 1 .. Len(s) : t[Len(y) + j] = s[j]
  <2>1. y \in Seq(S)
    BY <1>1
  <2> QED BY <2>1, BehindIs
<1>3. SubSeq(t, Len(y) + 1, Len(t)) = s
  BY <1>1, PiecesAre
<1> HIDE DEF t
<1>4. 1 \in 1 .. Len(y)
  BY <1>1
<1>5. t[1] = x /\ Len(t) = Len(s) + 1
  BY <1>1, <1>2, <1>4
<1>6. t # <<>>
  <2>1. Len(t) # 0
    BY <1>1, <1>5
  <2>2. Len(<<>>) = 0
    OBVIOUS
  <2> QED BY <2>1, <2>2, Zenon
<1>7. Tail(t) = SubSeq(t, 2, Len(t))
  BY <1>2, <1>6, TailIsSubSeq
<1>8. Tail(t) = s
  <2>1. Len(y) + 1 = 2
    BY <1>1
  <2> QED BY <1>3, <1>7, <2>1, Zenon
<1>9. ASSUME Len(s) # 0 PROVE t[2] = s[1]
  <2>1. 1 \in 1 .. Len(s) /\ Len(y) + 1 = 2
    BY <1>1, <1>9
  <2> QED BY <1>2, <2>1, Zenon
<1> QED BY <1>2, <1>5, <1>8, <1>9 DEF t, y

\* Two texts that have none of the tokens have none of them one behind the other.
LEMMA NoneBehind ==
  ASSUME NEW S, NEW a \in Seq(S), NEW b \in Seq(S), NEW tokens,
         \A i \in 1 .. Len(a) : a[i] \notin tokens, \A i \in 1 .. Len(b) : b[i] \notin tokens
  PROVE  \A i \in 1 .. Len(a \o b) : (a \o b)[i] \notin tokens
<1> DEFINE t == a \o b
           m == Len(a)
           n == Len(b)
<1>1. /\ Len(t) = m + n /\ m \in Nat /\ n \in Nat
      /\ \A i \in 1 .. m : t[i] = a[i]
      /\ \A j \in 1 .. n : t[m + j] = b[j]
  BY BehindIs, LenProperties
<1> HIDE DEF t
<1>2. \A i \in 1 .. m : t[i] \notin tokens
  BY <1>1, Zenon
<1>3. \A j \in 1 .. n : t[m + j] \notin tokens
  BY <1>1, Zenon
<1> HIDE DEF m, n
<1>4. ASSUME NEW i \in 1 .. Len(t) PROVE t[i] \notin tokens
  <2>1. i \in 1 .. m \/ i - m \in 1 .. n
    BY <1>1
  <2>2. CASE i - m \in 1 .. n
    <3>1. i = m + (i - m)
      BY <1>1
    <3> QED BY <1>3, <2>2, <3>1, Zenon
  <2> QED BY <1>2, <2>1, <2>2
<1> QED BY <1>4 DEF t

\* Spaces have none but the space.
LEMMA NoneOfPads ==
  ASSUME NEW a \in Pads, NEW tokens, Space \notin tokens
  PROVE  \A i \in 1 .. Len(a) : a[i] \notin tokens
BY PadsAre, Zenon

\* Spaces before a text, and behind it.
LEMMA StripOne ==
  ASSUME NEW a \in Pads, NEW b, Trim(b)
  PROVE  strstrip(a \o b) = b /\ strstrip(b \o a) = b
<1>1. b \in Seq(IniTokens) /\ <<>> \in Pads /\ a \in Seq(IniTokens)
  BY PadsAre DEF Trim, Pads
<1>2. a \o b \in Seq(IniTokens)
  BY <1>1, ConcatProperties
<1>3. (a \o b) \o <<>> = a \o b /\ <<>> \o b = b
  BY <1>1, <1>2, ConcatEmptySeq
<1>4. strstrip((a \o b) \o <<>>) = b /\ strstrip((<<>> \o b) \o a) = b
  BY <1>1, StripPadded
<1> QED BY <1>3, <1>4, Zenon

\* Spaces behind a text that does not end in one.
LEMMA EndStripped ==
  ASSUME NEW t \in Seq(IniTokens), Len(t) # 0, t[Len(t)] # Space, NEW c \in Pads
  PROVE  StripEnd(t \o c) = t
<1> DEFINE u == t \o c
           n == Len(t)
           kept == {i \in DOMAIN u : u[i] # Space}
           last == CHOOSE i \in kept : \A j \in kept : j <= i
<1>1. c \in Seq(IniTokens) /\ Len(c) \in Nat /\ \A i \in 1 .. Len(c) : c[i] = Space
  BY PadsAre
<1>2. n \in Nat /\ n # 0
  BY LenProperties
<1>3. /\ u \in Seq(IniTokens) /\ Len(u) = n + Len(c)
      /\ \A i \in 1 .. n : u[i] = t[i]
      /\ \A j \in 1 .. Len(c) : u[n + j] = c[j]
  BY <1>1, BehindIs
<1>4. SubSeq(u, 1, n) = t
  BY <1>1, PiecesAre
<1>5. StripEnd(u) = SubSeq(u, 1, IF kept = {} THEN 0 ELSE last)
  BY Zenon DEF StripEnd
<1>6. t[n] # Space
  OBVIOUS
<1> HIDE DEF u, n
<1>7. DOMAIN u = 1 .. Len(u)
  BY <1>3, LenProperties
<1>8. n \in kept
  <2>1. n \in 1 .. n /\ n \in 1 .. Len(u)
    BY <1>1, <1>2, <1>3
  <2>2. u[n] = t[n]
    BY <1>3, <2>1, Zenon
  <2> QED BY <1>6, <1>7, <2>1, <2>2
<1>9. \A i \in kept : i \in Nat /\ i <= n
  <2> TAKE i \in kept
  <2>1. i \in 1 .. Len(u) /\ u[i] # Space
    BY <1>7
  <2>2. SUFFICES ASSUME ~ (i <= n) PROVE FALSE
    BY <2>1
  <2>3. i - n \in 1 .. Len(c) /\ i = n + (i - n)
    BY <1>1, <1>2, <1>3, <2>1, <2>2
  <2>4. u[i] = Space
    BY <1>1, <1>3, <2>3, Zenon
  <2> QED BY <2>1, <2>4, Zenon
<1> HIDE DEF kept
<1>10. last \in kept /\ \A j \in kept : j <= last
  BY <1>8, <1>9, Zenon
<1> HIDE DEF last
<1>11. last = n /\ kept # {}
  BY <1>2, <1>8, <1>9, <1>10
<1> QED BY <1>4, <1>5, <1>11, Zenon DEF u

\* iniparser_line, of a line without spaces around it.
Parsed(line, sec) ==
  LET eq == SelectInSeq(line, LAMBDA t : t = "=")
      name == UpTo(Tail(line), {"]"})
  IN  IF line = <<>> THEN [status |-> "LINE_EMPTY"]
      ELSE IF line[1] = "#" THEN [status |-> "LINE_COMMENT"]
      ELSE IF line[1] = "[" /\ Last(line) = "]"
        THEN [status |-> "LINE_SECTION", section |-> IF name = <<>> THEN sec ELSE strstrip(name)]
      ELSE IF eq > 1
        THEN [status |-> "LINE_VALUE", key |-> strstrip(SubSeq(line, 1, eq - 1)),
              value |-> ValueOf(strstrip(SubSeq(line, eq + 1, Len(line))))]
      ELSE [status |-> "LINE_ERROR"]

\* It is what iniparser_line makes of the line.
LEMMA ParsedIs == \A text, sec : iniparser_line(text, sec) = Parsed(strstrip(text), sec)
BY Zenon DEF iniparser_line, Parsed

\* What stands behind the first "=" for the value v: nothing; the value, and a comment perhaps; or
\* the value in quotes, and anything, where two quotes within quotes are no value.
Quotes == {"\"", "'"}
Remarks == {";", "#"}
NoValues == {<<"\"", "\"">>, <<"'", "'">>}
ValueText(rest, v) ==
  \/ rest = <<>> /\ v = <<>>
  \/ /\ Trim(rest) /\ Trim(v) /\ v[1] \notin Quotes /\ \A i \in 1 .. Len(v) : v[i] \notin Remarks
     /\ \/ rest = v
        \/ \E p \in Pads, m \in Remarks, w \in Seq(IniTokens) : rest = ((v \o p) \o <<m>>) \o w
  \/ /\ Trim(rest)
     /\ \E d \in Quotes, u, w \in Seq(IniTokens) :
          /\ Trim(u) /\ rest = <<d>> \o ((u \o <<d>>) \o w) /\ \A i \in 1 .. Len(u) : u[i] # d
          /\ v = IF u \in NoValues THEN <<>> ELSE u

\* A statement on one line, without spaces around it.
SectionText(line, name) ==
  \E p, q \in Pads : /\ Trim(name) /\ (\A i \in 1 .. Len(name) : name[i] # "]")
                     /\ line = <<"[">> \o (((p \o name) \o q) \o <<"]">>)
EntryText(line, key, v) ==
  \E p, q \in Pads, rest \in Seq(IniTokens) :
    /\ Trim(key) /\ key[1] \notin {"#", "["} /\ \A i \in 1 .. Len(key) : key[i] # "="
    /\ ValueText(rest, v) /\ (rest = <<>> => q = <<>>)
    /\ line = ((key \o p) \o <<"=">>) \o (q \o rest)
CommentText(line) == Trim(line) /\ line[1] = "#"

\* A statement, with spaces before it: what it means is m.
PlainText(text, m) ==
  \/ m.is = "nothing" /\ text \in Pads
  \/ \E p \in Pads : \E line :
       /\ text = p \o line /\ line[Len(line)] # "\\"
       /\ \/ m.is = "section" /\ SectionText(line, m.name)
          \/ m.is = "entry" /\ EntryText(line, m.key, m.value)
          \/ m.is = "nothing" /\ CommentText(line)

\* A statement in as many lines as it takes, all but the last of which end in a backslash, with
\* spaces behind them.
Folded(q, ends) == [j \in 1 .. Len(q) |-> (IF j = Len(q) THEN q[j] ELSE q[j] \o <<"\\">>) \o ends[j]]
PlainItem(item) ==
  \E q \in Seq(Seq(IniTokens)) : \E ends \in [1 .. Len(q) -> Pads] :
    Len(q) # 0 /\ item.lines = Folded(q, ends) /\ PlainText(FlattenSeq(q), item.means)

\* The marks are tokens, and differ.
LEMMA MarksAre ==
  /\ \A x \in Marks : x \in IniTokens
  /\ Quotes \subseteq Marks /\ Remarks \subseteq Marks /\ "=" \in Marks /\ "[" \in Marks /\ "]" \in Marks /\ "\\" \in Marks
  /\ Space \notin Remarks /\ Space \notin {"[", "]", "=", ";", "#", "\"", "'", "\\"}
  /\ "[" # "#" /\ Quotes \cap Remarks = {}
BY DEF Marks, IniTokens, Quotes, Remarks, Space

\* The first of the tokens, in a text of three parts.
LEMMA UpToIs ==
  ASSUME NEW a \in Seq(IniTokens), NEW x \in IniTokens, NEW b \in Seq(IniTokens), NEW tokens, x \in tokens,
         \A i \in 1 .. Len(a) : a[i] \notin tokens
  PROVE  UpTo((a \o <<x>>) \o b, tokens) = a
BY FirstIs

\* The value is read.
LEMMA ValueIsRead ==
  ASSUME NEW rest, NEW v, ValueText(rest, v)
  PROVE  ValueOf(rest) = v
<1> DEFINE quoted == Len(rest) >= 2 /\ rest[1] \in Quotes /\ rest[2] # rest[1]
           text == IF quoted THEN UpTo(Tail(rest), {rest[1]}) ELSE UpTo(rest, Remarks)
           plain == strstrip(UpTo(rest, Remarks))
<1>1. ValueOf(rest) = IF strstrip(text) \in NoValues THEN <<>> ELSE strstrip(text)
  BY Zenon DEF ValueOf, Quotes, Remarks, NoValues
<1>2. CASE rest = <<>> /\ v = <<>>
  <2>1. Len(rest) = 0
    BY <1>2
  <2>2. ~ quoted
    BY <2>1
  <2>3. rest \in Seq(IniTokens) /\ rest \in Pads /\ \A i \in 1 .. Len(rest) : rest[i] \notin Remarks
    BY <1>2 DEF Pads
  <2>4. UpTo(rest, Remarks) = rest
    BY <2>3, NoneIs
  <2>5. plain = <<>>
    BY <2>3, <2>4, StripSpaces, Zenon
  <2>6. strstrip(text) = plain
    BY <2>2, Zenon
  <2> HIDE DEF plain, text
  <2> QED BY <1>1, <1>2, <2>5, <2>6, Zenon
<1>3. ASSUME Trim(rest), Trim(v), v[1] \notin Quotes, \A i \in 1 .. Len(v) : v[i] \notin Remarks,
             \/ rest = v
             \/ \E p \in Pads, m \in Remarks, w \in Seq(IniTokens) : rest = ((v \o p) \o <<m>>) \o w
      PROVE  ValueOf(rest) = v
  <2>1. v \in Seq(IniTokens) /\ Len(v) \in Nat /\ Len(v) # 0
    BY <1>3, LenProperties DEF Trim
  <2>2. rest[1] = v[1] /\ plain = v
    <3>1. CASE rest = v
      <4>1. UpTo(v, Remarks) = v
        BY <1>3, <2>1, NoneIs
      <4>2. strstrip(v) = v
        BY <1>3, StripTrim
      <4> QED BY <3>1, <4>1, <4>2, Zenon
    <3>2. ASSUME NEW p \in Pads, NEW m \in Remarks, NEW w \in Seq(IniTokens), rest = ((v \o p) \o <<m>>) \o w
          PROVE  rest[1] = v[1] /\ plain = v
      <4> DEFINE a == v \o p
      <4>1. p \in Seq(IniTokens) /\ m \in IniTokens
        BY PadsAre, MarksAre
      <4>2. a \in Seq(IniTokens)
        BY <2>1, <4>1, BehindIs
      <4>12. Len(a) \in Nat /\ Len(a) # 0
        <5>1. Len(a) = Len(v) + Len(p)
          BY <2>1, <4>1, BehindIs
        <5>2. Len(p) \in Nat /\ Len(v) \in Nat /\ Len(v) # 0
          BY <2>1, PadsAre
        <5> HIDE DEF a
        <5> QED BY <5>1, <5>2
      <4>3. \A i \in 1 .. Len(a) : a[i] \notin Remarks
        <5>1. Space \notin Remarks
          BY MarksAre
        <5>2. \A i \in 1 .. Len(p) : p[i] \notin Remarks
          BY <5>1, NoneOfPads, Zenon
        <5> QED BY <1>3, <2>1, <4>1, <5>2, NoneBehind
      <4>4. a[1] = v[1] /\ strstrip(a) = v
        BY <1>3, <2>1, <4>1, EndsAre, StripOne
      <4> HIDE DEF a
      <4>5. UpTo((a \o <<m>>) \o w, Remarks) = a
        <5> DEFINE toks == Remarks
        <5>1. a \in Seq(IniTokens) /\ m \in IniTokens /\ m \in toks /\ \A i \in 1 .. Len(a) : a[i] \notin toks
          BY <4>1, <4>2, <4>3
        <5> HIDE DEF toks
        <5>2. UpTo((a \o <<m>>) \o w, toks) = a
          BY <5>1, UpToIs
        <5> QED BY <5>2 DEF toks
      <4>6. plain = v
        BY <3>2, <4>4, <4>5, Zenon DEF a
      <4>7. a \o <<m>> \in Seq(IniTokens) /\ Len(a \o <<m>>) = Len(a) + 1
        <5>1. a \in Seq(IniTokens) /\ m \in IniTokens
          BY <4>1, <4>2
        <5> QED BY <5>1, OneMoreIs
      <4>8. Len(a) # 0 /\ Len(a \o <<m>>) # 0 /\ <<m>> \in Seq(IniTokens)
        <5>1. <<m>> \in Seq(IniTokens)
          BY <4>1, OneIs
        <5>2. Len(a \o <<m>>) # 0
          BY <4>7, <4>12
        <5> QED BY <4>12, <5>1, <5>2
      <4>9. (a \o <<m>>)[1] = a[1]
        BY <4>2, <4>8, EndsAre
      <4> DEFINE b == a \o <<m>>
      <4>10. b \in Seq(IniTokens) /\ Len(b) # 0
        BY <4>7, <4>8
      <4> HIDE DEF b
      <4>11. (b \o w)[1] = b[1]
        BY <4>10, EndsAre
      <4> QED BY <3>2, <4>4, <4>6, <4>9, <4>11, Zenon DEF a, b
    <3> QED BY <1>3, <3>1, <3>2
  <2>3. ~ quoted
    BY <1>3, <2>2, Zenon
  <2>4. plain \notin NoValues
    <3>1. <<"\"", "\"">>[1] \in Quotes /\ <<"'", "'">>[1] \in Quotes
      BY DEF Quotes
    <3> QED BY <1>3, <2>2, <3>1 DEF NoValues
  <2>5. strstrip(text) = plain
    BY <2>3, Zenon
  <2> HIDE DEF plain, text
  <2> QED BY <1>1, <2>2, <2>4, <2>5, Zenon
<1>4. ASSUME Trim(rest), NEW d \in Quotes, NEW u \in Seq(IniTokens), NEW w \in Seq(IniTokens), Trim(u),
             rest = <<d>> \o ((u \o <<d>>) \o w), \A i \in 1 .. Len(u) : u[i] # d,
             v = IF u \in NoValues THEN <<>> ELSE u
      PROVE  ValueOf(rest) = v
  <2>1. u \in Seq(IniTokens) /\ Len(u) \in Nat /\ Len(u) # 0 /\ d \in IniTokens
    BY <1>4, LenProperties, MarksAre DEF Trim
  <2> DEFINE b == u \o <<d>>
             c == b \o w
  <2>2. b \in Seq(IniTokens) /\ Len(b) = Len(u) + 1 /\ <<d>> \in Seq(IniTokens)
    BY <2>1, OneMoreIs, OneIs
  <2>3. b[1] = u[1]
    BY <2>1, <2>2, EndsAre
  <2>4. UpTo(c, {d}) = u
    <3> DEFINE toks == {d}
    <3>1. u \in Seq(IniTokens) /\ d \in IniTokens /\ d \in toks /\ \A i \in 1 .. Len(u) : u[i] \notin toks
      BY <1>4, <2>1
    <3> HIDE DEF toks
    <3>2. UpTo((u \o <<d>>) \o w, toks) = u
      BY <3>1, UpToIs
    <3> QED BY <3>2 DEF toks
  <2>5. Len(b) # 0 /\ Len(b) \in Nat
    BY <2>1, <2>2
  <2> HIDE DEF b
  <2>6. c \in Seq(IniTokens) /\ Len(c) = Len(b) + Len(w) /\ Len(w) \in Nat
    BY <2>2, BehindIs, LenProperties
  <2>7. c[1] = b[1]
    BY <2>2, <2>5, EndsAre
  <2>8. Len(c) # 0 /\ Len(c) \in Nat
    BY <2>5, <2>6
  <2>9. rest = <<d>> \o c
    BY <1>4 DEF b
  <2> HIDE DEF c
  <2>10. Len(rest) = Len(c) + 1 /\ rest[1] = d /\ Tail(rest) = c /\ rest[2] = c[1]
    BY <2>1, <2>6, <2>8, <2>9, BeforeIs
  <2>11. u[1] # d
    <3>1. 1 \in 1 .. Len(u)
      BY <2>1
    <3> QED BY <1>4, <3>1
  <2>12. quoted
    <3>1. Len(rest) >= 2
      BY <2>8, <2>10
    <3>2. rest[2] # d
      BY <2>3, <2>7, <2>10, <2>11, Zenon
    <3> QED BY <2>10, <3>1, <3>2
  <2>13. strstrip(UpTo(Tail(rest), {rest[1]})) = u
    <3>1. strstrip(u) = u
      BY <1>4, StripTrim
    <3> QED BY <2>4, <2>10, <3>1, Zenon
  <2>14. strstrip(text) = u
    BY <2>12, <2>13, Zenon
  <2> HIDE DEF text
  <2> QED BY <1>1, <1>4, <2>14, Zenon
<1> QED BY <1>2, <1>3, <1>4 DEF ValueText

\* A text between a token before it and a token behind it.
LEMMA BetweenIs ==
  ASSUME NEW o \in IniTokens, NEW x \in IniTokens, NEW b \in Seq(IniTokens), \A i \in 1 .. Len(b) : b[i] # x
  PROVE  LET line == <<o>> \o (b \o <<x>>)
         IN  /\ line \in Seq(IniTokens) /\ Len(line) # 0 /\ line[1] = o /\ line[Len(line)] = x
             /\ UpTo(Tail(line), {x}) = b
<1> DEFINE c == b \o <<x>>
           line == <<o>> \o c
           X == {x}
<1>1. c \in Seq(IniTokens) /\ Len(c) = Len(b) + 1 /\ c[Len(b) + 1] = x
  BY OneMoreIs
<1>2. <<o>> \in Seq(IniTokens)
  BY OneIs
<1>3. Len(b) \in Nat
  BY LenProperties
<1>5. c \o <<>> = c
  BY <1>1, ConcatEmptySeq
<1>6. UpTo(c \o <<>>, X) = b
  <2>1. x \in X /\ \A i \in 1 .. Len(b) : b[i] \notin X
    OBVIOUS
  <2> DEFINE nil == <<>>
  <2>2. nil \in Seq(IniTokens)
    OBVIOUS
  <2> HIDE DEF X, nil
  <2>3. UpTo((b \o <<x>>) \o nil, X) = b
    BY <2>1, <2>2, UpToIs
  <2> QED BY <2>3 DEF nil
<1>7. UpTo(c, X) = b
  BY <1>5, <1>6, Zenon
<1> HIDE DEF c
<1>8. Len(c) # 0 /\ Len(c) \in Nat /\ c[Len(c)] = x
  BY <1>1, <1>3
<1>9. line \in Seq(IniTokens) /\ Len(line) = Len(c) + 1 /\ line[1] = o /\ Tail(line) = c
  BY <1>1, BeforeIs
<1>10. line[Len(line)] = c[Len(c)]
  BY <1>1, <1>2, <1>8, EndsAre
<1> HIDE DEF line, X
<1>11. Len(line) # 0
  BY <1>8, <1>9
<1>12. UpTo(Tail(line), X) = b /\ line[Len(line)] = x
  BY <1>7, <1>8, <1>9, <1>10, Zenon
<1> QED BY <1>9, <1>11, <1>12 DEF line, c, X

\* A section is read.
LEMMA SectionIsRead ==
  ASSUME NEW line, NEW name, SectionText(line, name), NEW sec
  PROVE  /\ Trim(line)
         /\ Parsed(line, sec).status = "LINE_SECTION" /\ Parsed(line, sec).section = name
<1> DEFINE o == "["
           x == "]"
<1>1. PICK p \in Pads, q \in Pads :
        /\ Trim(name) /\ (\A i \in 1 .. Len(name) : name[i] # x)
        /\ line = <<o>> \o (((p \o name) \o q) \o <<x>>)
  BY DEF SectionText
<1>2. o \in IniTokens /\ x \in IniTokens /\ Space \notin {x} /\ o # Space /\ x # Space /\ o # "#"
  BY DEF IniTokens, Marks, Space
<1> HIDE DEF o, x
<1> DEFINE a == p \o name
           b == a \o q
<1>3. name \in Seq(IniTokens) /\ Len(name) # 0 /\ Len(name) \in Nat /\ p \in Seq(IniTokens) /\ q \in Seq(IniTokens)
  BY <1>1, PadsAre, LenProperties DEF Trim
<1>4. strstrip(b) = name
  BY <1>1, StripPadded
<1>5. a \in Seq(IniTokens) /\ Len(a) = Len(p) + Len(name) /\ \A i \in 1 .. Len(a) : a[i] \notin {x}
  <2>1. \A i \in 1 .. Len(name) : name[i] \notin {x}
    BY <1>1
  <2>2. \A i \in 1 .. Len(p) : p[i] \notin {x}
    BY <1>2, NoneOfPads, Zenon
  <2> DEFINE X == {x}
  <2> HIDE DEF X
  <2>3. (\A i \in 1 .. Len(name) : name[i] \notin X) /\ \A i \in 1 .. Len(p) : p[i] \notin X
    BY <2>1, <2>2 DEF X
  <2>4. \A i \in 1 .. Len(a) : a[i] \notin X
    BY <1>3, <2>3, NoneBehind
  <2>5. a \in Seq(IniTokens) /\ Len(a) = Len(p) + Len(name)
    BY <1>3, BehindIs
  <2> QED BY <2>4, <2>5 DEF X
<1> HIDE DEF a
<1>6. b \in Seq(IniTokens) /\ Len(b) = Len(a) + Len(q) /\ \A i \in 1 .. Len(b) : b[i] \notin {x}
  <2>2. \A i \in 1 .. Len(q) : q[i] \notin {x}
    BY <1>2, NoneOfPads, Zenon
  <2> DEFINE X == {x}
  <2> HIDE DEF X
  <2>3. (\A i \in 1 .. Len(a) : a[i] \notin X) /\ \A i \in 1 .. Len(q) : q[i] \notin X
    BY <1>5, <2>2 DEF X
  <2>4. \A i \in 1 .. Len(b) : b[i] \notin X
    BY <1>3, <1>5, <2>3, NoneBehind
  <2>5. b \in Seq(IniTokens) /\ Len(b) = Len(a) + Len(q)
    BY <1>3, <1>5, BehindIs
  <2> QED BY <2>4, <2>5 DEF X
<1> HIDE DEF b
<1>7. b # <<>>
  <2>1. Len(p) \in Nat /\ Len(q) \in Nat
    BY PadsAre
  <2>2. Len(b) # 0
    BY <1>3, <1>5, <1>6, <2>1
  <2>3. Len(<<>>) = 0
    OBVIOUS
  <2> QED BY <2>2, <2>3, Zenon
<1>8. /\ line \in Seq(IniTokens) /\ Len(line) # 0 /\ line[1] = o /\ line[Len(line)] = x
      /\ UpTo(Tail(line), {x}) = b
  <2>1. \A i \in 1 .. Len(b) : b[i] # x
    BY <1>6
  <2>2. line = <<o>> \o (b \o <<x>>)
    BY <1>1 DEF a, b
  <2> QED BY <1>2, <1>6, <2>1, <2>2, BetweenIs
<1>9. line # <<>>
  <2>1. Len(<<>>) = 0
    OBVIOUS
  <2> QED BY <1>8, <2>1, Zenon
<1>10. Parsed(line, sec) = [status |-> "LINE_SECTION", section |-> IF b = <<>> THEN sec ELSE strstrip(b)]
  <2>1. line[1] # "#" /\ line[1] = "[" /\ Last(line) = "]"
    BY <1>2, <1>8, Zenon DEF Last, o, x
  <2>2. UpTo(Tail(line), {"]"}) = b
    BY <1>8, Zenon DEF x
  <2> QED BY <1>9, <2>1, <2>2, Zenon DEF Parsed
<1>11. Trim(line)
  BY <1>2, <1>8, Zenon DEF Trim
<1> QED BY <1>4, <1>7, <1>10, <1>11

\* A comment is read.
LEMMA CommentIsRead ==
  ASSUME NEW line, CommentText(line), NEW sec
  PROVE  Trim(line) /\ Parsed(line, sec).status = "LINE_COMMENT"
<1>1. Trim(line) /\ line[1] = "#" /\ Len(line) # 0
  BY DEF CommentText, Trim
<1>2. line # <<>>
  <2>1. Len(<<>>) = 0
    OBVIOUS
  <2> QED BY <1>1, <2>1, Zenon
<1>3. Parsed(line, sec) = [status |-> "LINE_COMMENT"]
  BY <1>1, <1>2, Zenon DEF Parsed
<1> QED BY <1>1, <1>3

\* The key and what stands behind the first "=".
LEMMA EqualIs ==
  ASSUME NEW k \in Seq(IniTokens), NEW r \in Seq(IniTokens), \A i \in 1 .. Len(k) : k[i] # "="
  PROVE  LET line == (k \o <<"=">>) \o r
             eq == SelectInSeq(line, LAMBDA t : t = "=")
         IN  /\ eq = Len(k) + 1
             /\ SubSeq(line, 1, eq - 1) = k /\ SubSeq(line, eq + 1, Len(line)) = r
<1> DEFINE e == "="
           E == {e}
           ke == k \o <<e>>
           line == ke \o r
           P == Places(line, E)
           eq == SelectInSeq(line, LAMBDA t : t = "=")
<1>1. e \in IniTokens /\ \A i \in 1 .. Len(k) : k[i] \notin E
  BY DEF IniTokens, Marks
<1>2. e \in E
  OBVIOUS
<1>3. P = {i \in 1 .. Len(line) : line[i] = "="}
  BY DEF Places
<1>4. eq = IF P # {} THEN Min(P) ELSE 0
  <2> DEFINE Q == {i \in 1 .. Len(line) : line[i] = "="}
             First(S) == IF S # {} THEN Min(S) ELSE 0
  <2>1. eq = First(Q)
    BY Zenon DEF SelectInSeq
  <2>2. P = Q
    BY <1>3, Zenon
  <2> HIDE DEF First, P, Q
  <2>3. eq = First(P)
    BY <2>1, <2>2, Zenon
  <2> QED BY <2>3, Zenon DEF First
<1> HIDE DEF e, E
<1>5. P # {} /\ Min(P) = Len(k) + 1 /\ SubSeq(line, 1, Len(k)) = k
  BY <1>1, <1>2, FirstIs
<1>6. ke \in Seq(IniTokens) /\ Len(ke) = Len(k) + 1 /\ Len(k) \in Nat
  <2>1. Len(k) \in Nat
    BY LenProperties
  <2> QED BY <1>1, <2>1, OneMoreIs
<1> HIDE DEF ke
<1>7. SubSeq(line, Len(ke) + 1, Len(line)) = r
  BY <1>6, PiecesAre
<1> HIDE DEF P, line, eq
<1>8. eq = Len(k) + 1
  BY <1>4, <1>5, Zenon
<1>9. eq - 1 = Len(k) /\ eq = Len(ke)
  BY <1>6, <1>8
<1>10. SubSeq(line, 1, eq - 1) = k /\ SubSeq(line, eq + 1, Len(line)) = r
  BY <1>5, <1>7, <1>9, Zenon
<1> QED BY <1>8, <1>10, Zenon DEF line, ke, eq, e

\* An entry is read.
LEMMA EntryIsRead ==
  ASSUME NEW line, NEW key, NEW v, EntryText(line, key, v), NEW sec
  PROVE  /\ Trim(line)
         /\ Parsed(line, sec).status = "LINE_VALUE" /\ Parsed(line, sec).key = key /\ Parsed(line, sec).value = v
<1> DEFINE e == "="
<1>1. PICK p \in Pads, q \in Pads, rest \in Seq(IniTokens) :
        /\ Trim(key) /\ key[1] \notin {"#", "["} /\ (\A i \in 1 .. Len(key) : key[i] # e)
        /\ ValueText(rest, v) /\ (rest = <<>> => q = <<>>)
        /\ line = ((key \o p) \o <<e>>) \o (q \o rest)
  BY DEF EntryText
<1>2. e \in IniTokens /\ Space \notin {e} /\ e # Space
  BY DEF IniTokens, Marks, Space
<1> DEFINE k == key \o p
           r == q \o rest
           ke == k \o <<e>>
<1>3. key \in Seq(IniTokens) /\ Len(key) \in Nat /\ Len(key) # 0 /\ key[1] # Space
  BY <1>1, LenProperties DEF Trim
<1>4. p \in Seq(IniTokens) /\ q \in Seq(IniTokens) /\ Len(p) \in Nat
  BY PadsAre
<1>5. k \in Seq(IniTokens) /\ Len(k) = Len(key) + Len(p) /\ k[1] = key[1]
  <2>1. k \in Seq(IniTokens) /\ Len(k) = Len(key) + Len(p)
    BY <1>3, <1>4, BehindIs
  <2>2. k[1] = key[1]
    BY <1>3, <1>4, EndsAre
  <2> QED BY <2>1, <2>2
<1>6. \A i \in 1 .. Len(k) : k[i] # e
  <2> DEFINE X == {e}
  <2>1. \A i \in 1 .. Len(key) : key[i] \notin X
    BY <1>1
  <2>2. Space \notin X
    BY <1>2
  <2> HIDE DEF X
  <2>3. \A i \in 1 .. Len(p) : p[i] \notin X
    BY <2>2, NoneOfPads, Zenon
  <2>4. \A i \in 1 .. Len(k) : k[i] \notin X
    BY <1>3, <1>4, <2>1, <2>3, NoneBehind
  <2> QED BY <2>4, Zenon DEF X
<1>7. strstrip(k) = key
  BY <1>1, StripOne
<1>8. rest = <<>> \/ Trim(rest)
  BY <1>1 DEF ValueText
<1>9. strstrip(r) = rest
  <2>1. CASE rest = <<>>
    <3>1. q \o rest = <<>> /\ <<>> \in Pads
      BY <1>1, <2>1 DEF Pads
    <3>2. strstrip(<<>>) = <<>>
      BY <3>1, StripSpaces
    <3> QED BY <2>1, <3>1, <3>2, Zenon
  <2>2. CASE Trim(rest)
    BY <2>2, StripOne
  <2> QED BY <1>8, <2>1, <2>2
<1>10. ValueOf(rest) = v
  BY <1>1, ValueIsRead
<1>11. r \in Seq(IniTokens)
  BY <1>4, BehindIs
<1>12. /\ rest = <<>> => Len(r) = 0
       /\ rest # <<>> => Len(r) # 0 /\ r[Len(r)] # Space
  <2>1. ASSUME rest = <<>> PROVE Len(r) = 0
    <3>1. q \o rest = <<>>
      BY <1>1, <2>1
    <3>2. Len(<<>>) = 0
      OBVIOUS
    <3> QED BY <3>1, <3>2, Zenon
  <2>2. ASSUME rest # <<>> PROVE Len(r) # 0 /\ r[Len(r)] # Space
    <3>1. Len(rest) # 0 /\ rest[Len(rest)] # Space /\ Len(rest) \in Nat /\ Len(q) \in Nat
      BY <1>8, <2>2, LenProperties, PadsAre DEF Trim
    <3>2. r[Len(r)] = rest[Len(rest)]
      BY <1>4, <3>1, EndsAre
    <3>3. Len(r) = Len(q) + Len(rest)
      BY <1>4, BehindIs
    <3> HIDE DEF r
    <3> QED BY <3>1, <3>2, <3>3
  <2> QED BY <2>1, <2>2
<1> HIDE DEF k, r
<1>13. /\ ke \in Seq(IniTokens) /\ Len(ke) = Len(k) + 1 /\ ke[Len(k) + 1] = e
       /\ \A i \in 1 .. Len(k) : ke[i] = k[i]
  <2>1. e \in IniTokens /\ k \in Seq(IniTokens)
    BY <1>2, <1>5
  <2> HIDE DEF e
  <2> QED BY <2>1, OneMoreIs
<1>14. Len(k) \in Nat /\ Len(k) # 0 /\ Len(ke) \in Nat /\ Len(ke) # 0
  BY <1>3, <1>4, <1>5, <1>13
<1>15. ke[1] = key[1] /\ ke[Len(ke)] = e
  <2>1. 1 \in 1 .. Len(k)
    BY <1>14
  <2>2. ke[1] = k[1]
    BY <1>13, <2>1, Zenon
  <2> QED BY <1>5, <1>13, <2>2, Zenon
<1>16. LET eq == SelectInSeq(line, LAMBDA t : t = "=")
       IN  eq = Len(k) + 1 /\ SubSeq(line, 1, eq - 1) = k /\ SubSeq(line, eq + 1, Len(line)) = r
  <2>1. line = (k \o <<"=">>) \o r
    BY <1>1 DEF k, r
  <2>2. \A i \in 1 .. Len(k) : k[i] # "="
    BY <1>6
  <2>3. LET l == (k \o <<"=">>) \o r
            eq == SelectInSeq(l, LAMBDA t : t = "=")
        IN  eq = Len(k) + 1 /\ SubSeq(l, 1, eq - 1) = k /\ SubSeq(l, eq + 1, Len(l)) = r
    BY <1>5, <1>11, <2>2, EqualIs, Zenon
  <2> QED BY <2>1, <2>3, Zenon
<1>17. line = ke \o r
  BY <1>1 DEF ke, k, r
<1> HIDE DEF ke
<1>18. line \in Seq(IniTokens) /\ Len(line) = Len(ke) + Len(r) /\ Len(r) \in Nat /\ line[1] = ke[1]
  <2>1. line \in Seq(IniTokens) /\ Len(line) = Len(ke) + Len(r)
    BY <1>11, <1>13, <1>17, BehindIs
  <2>2. Len(r) \in Nat
    BY <1>11, LenProperties
  <2>3. line[1] = ke[1]
    BY <1>11, <1>13, <1>14, <1>17, EndsAre
  <2> QED BY <2>1, <2>2, <2>3
<1>19. line[Len(line)] # Space
  <2>1. CASE rest = <<>>
    <3>1. Len(r) = 0
      BY <1>12, <2>1
    <3>2. line = ke
      <4>1. r = <<>>
        BY <1>11, <3>1, EmptySeq
      <4>2. ke \o <<>> = ke
        BY <1>13, ConcatEmptySeq
      <4> QED BY <1>17, <4>1, <4>2, Zenon
    <3> QED BY <1>2, <1>15, <3>2, Zenon
  <2>2. CASE rest # <<>>
    <3>1. line[Len(line)] = r[Len(r)]
      BY <1>11, <1>12, <1>13, <1>17, <2>2, EndsAre
    <3> QED BY <1>12, <2>2, <3>1, Zenon
  <2> QED BY <2>1, <2>2
<1>20. Len(line) # 0
  BY <1>14, <1>18
<1>21. Trim(line)
  BY <1>3, <1>15, <1>18, <1>19, <1>20, Zenon DEF Trim
<1>22. line # <<>> /\ line[1] # "#" /\ line[1] # "["
  <2>1. Len(<<>>) = 0
    OBVIOUS
  <2>2. key[1] # "#" /\ key[1] # "["
    BY <1>1
  <2> QED BY <1>15, <1>18, <1>20, <2>1, <2>2, Zenon
<1>23. Parsed(line, sec) = [status |-> "LINE_VALUE", key |-> key, value |-> v]
  <2> DEFINE eq == SelectInSeq(line, LAMBDA t : t = "=")
             kk == SubSeq(line, 1, eq - 1)
             rr == SubSeq(line, eq + 1, Len(line))
  <2>1. eq = Len(k) + 1 /\ kk = k /\ rr = r
    BY <1>16, Zenon
  <2>2. Parsed(line, sec) = IF eq > 1
                            THEN [status |-> "LINE_VALUE", key |-> strstrip(kk), value |-> ValueOf(strstrip(rr))]
                            ELSE [status |-> "LINE_ERROR"]
    BY <1>22, Zenon DEF Parsed
  <2> HIDE DEF eq, kk, rr
  <2>3. eq > 1
    BY <1>14, <2>1
  <2> QED BY <1>7, <1>9, <1>10, <2>1, <2>2, <2>3, Zenon
<1> QED BY <1>21, <1>23

\* What is read of a line, for what the statement means.
LEMMA PlainLineIsRead ==
  ASSUME NEW line, NEW m,
         \/ m.is = "section" /\ SectionText(line, m.name)
         \/ m.is = "entry" /\ EntryText(line, m.key, m.value)
         \/ m.is = "nothing" /\ CommentText(line)
  PROVE  Trim(line) /\ \A sec : Means(Parsed(line, sec), m)
<1>1. CASE m.is = "section" /\ SectionText(line, m.name)
  <2>1. Trim(line) /\ \A sec : Parsed(line, sec).status = "LINE_SECTION" /\ Parsed(line, sec).section = m.name
    BY <1>1, SectionIsRead
  <2> QED BY <1>1, <2>1, Zenon DEF Means
<1>2. CASE m.is = "entry" /\ EntryText(line, m.key, m.value)
  <2>1. Trim(line) /\ \A sec : /\ Parsed(line, sec).status = "LINE_VALUE"
                               /\ Parsed(line, sec).key = m.key /\ Parsed(line, sec).value = m.value
    BY <1>2, EntryIsRead
  <2> QED BY <1>2, <2>1, Zenon DEF Means
<1>3. CASE m.is = "nothing" /\ CommentText(line)
  <2>1. Trim(line) /\ \A sec : Parsed(line, sec).status = "LINE_COMMENT"
    BY <1>3, CommentIsRead
  <2>2. "LINE_COMMENT" \notin {"LINE_SECTION", "LINE_VALUE"}
    OBVIOUS
  <2> QED BY <1>3, <2>1, <2>2, Zenon DEF Means
<1> QED BY <1>1, <1>2, <1>3

\* A statement on one line, with spaces around it, is read as what it means.
LEMMA PlainTextIsRead ==
  ASSUME NEW text, NEW m, PlainText(text, m), NEW c \in Pads
  PROVE  /\ text \in Seq(IniTokens) /\ ~ Continued(StripEnd(text \o c))
         /\ \A sec : Means(iniparser_line(StripEnd(text \o c), sec), m)
<1>1. CASE m.is = "nothing" /\ text \in Pads
  <2>1. text \o c \in Pads /\ text \in Seq(IniTokens) /\ <<>> \in Pads
    BY <1>1, PadsAre, ConcatProperties DEF Pads
  <2>2. StripEnd(text \o c) = <<>> /\ strstrip(<<>>) = <<>>
    BY <2>1, StripSpaces
  <2>3. ~ Continued(<<>>)
    BY Zenon DEF Continued
  <2>4. \A sec : iniparser_line(<<>>, sec) = [status |-> "LINE_EMPTY"]
    <3>1. \A sec : iniparser_line(<<>>, sec) = Parsed(<<>>, sec)
      BY <2>2, ParsedIs, Zenon
    <3>2. \A sec : Parsed(<<>>, sec) = [status |-> "LINE_EMPTY"]
      BY Zenon DEF Parsed
    <3> QED BY <3>1, <3>2, Zenon
  <2>5. \A sec : Means(iniparser_line(<<>>, sec), m)
    <3> TAKE sec
    <3>1. iniparser_line(<<>>, sec).status = "LINE_EMPTY"
      BY <2>4
    <3>2. "LINE_EMPTY" \notin {"LINE_SECTION", "LINE_VALUE"}
      OBVIOUS
    <3> QED BY <1>1, <3>1, <3>2, Zenon DEF Means
  <2> QED BY <2>1, <2>2, <2>3, <2>5, Zenon
<1>2. ASSUME NEW p \in Pads, NEW line, text = p \o line, line[Len(line)] # "\\",
             \/ m.is = "section" /\ SectionText(line, m.name)
             \/ m.is = "entry" /\ EntryText(line, m.key, m.value)
             \/ m.is = "nothing" /\ CommentText(line)
      PROVE  /\ text \in Seq(IniTokens) /\ ~ Continued(StripEnd(text \o c))
             /\ \A sec : Means(iniparser_line(StripEnd(text \o c), sec), m)
  <2>1. Trim(line) /\ \A sec : Means(Parsed(line, sec), m)
    BY <1>2, PlainLineIsRead
  <2>2. p \in Seq(IniTokens) /\ line \in Seq(IniTokens) /\ Len(line) # 0
    BY <2>1, PadsAre DEF Trim
  <2>3. text \in Seq(IniTokens)
    BY <1>2, <2>2, ConcatProperties
  <2>4. StripEnd(text \o c) = text
    BY <1>2, <2>1, StripPadded
  <2>5. text[Len(text)] = line[Len(line)]
    BY <1>2, <2>2, EndsAre
  <2>6. ~ Continued(text)
    BY <1>2, <2>5, Zenon DEF Continued, Last
  <2>7. strstrip(text) = line
    BY <1>2, <2>1, StripOne
  <2>8. \A sec : Means(iniparser_line(text, sec), m)
    BY <2>1, <2>7, ParsedIs, Zenon
  <2> QED BY <2>3, <2>4, <2>6, <2>8, Zenon
<1> QED BY <1>1, <1>2 DEF PlainText

\* Texts one behind the other, taken from the left and from the right.
Joined(a, b, c) == (a \o b) \o c = a \o (b \o c)

\* It makes no difference.
LEMMA JoinedIs ==
  ASSUME NEW S, NEW a \in Seq(S), NEW b \in Seq(S), NEW c \in Seq(S)
  PROVE  Joined(a, b, c)
BY ConcatAssociative DEF Joined

\* The first pieces of a text and the next piece.
Grows(q, r, at, j) ==
  /\ at[j] \in 0 .. Len(r) /\ at[j - 1] \in 0 .. Len(r)
  /\ SubSeq(r, 1, at[j - 1]) \o q[j] = SubSeq(r, 1, at[j])

\* They are the first pieces with it.
LEMMA PiecesGrow ==
  ASSUME NEW S, NEW q \in Seq(Seq(S)), NEW r, NEW at, Spread(S, q, r, at, Len(q)), NEW j \in 1 .. Len(q)
  PROVE  Grows(q, r, at, j)
<1>1. /\ r \in Seq(S) /\ at \in [0 .. Len(q) -> Nat] /\ \A k \in 0 .. Len(q) : at[k] <= Len(r)
      /\ at[j] = at[j - 1] + Len(q[j]) /\ \A i \in 1 .. Len(q[j]) : r[at[j - 1] + i] = q[j][i]
  BY DEF Spread
<1>2. Len(q) \in Nat /\ q[j] \in Seq(S) /\ Len(r) \in Nat
  BY <1>1, LenProperties, ElementOfSeq
<1> DEFINE p == q[j]
           a == at[j - 1]
           b == at[j]
           n == Len(p)
<1>3. n \in Nat /\ a \in Nat /\ b \in Nat /\ a <= Len(r) /\ b <= Len(r) /\ b = a + n
  <2>1. j \in 0 .. Len(q) /\ j - 1 \in 0 .. Len(q)
    BY <1>2
  <2>2. n \in Nat
    BY <1>2, LenProperties
  <2> QED BY <1>1, <2>1, <2>2
<1>4. \A i \in 1 .. n : r[a + i] = p[i]
  BY <1>1
<1>5. p \in Seq(S)
  BY <1>2
<1> HIDE DEF p, a, b
<1> DEFINE u == SubSeq(r, a + 1, a + n)
<1>6. u \in Seq(S) /\ Len(u) = n /\ \A i \in 1 .. n : u[i] = r[a + i]
  BY <1>1, <1>3, CutIs
<1> HIDE DEF u
<1>7. u = p
  <2>1. \A i \in 1 .. n : u[i] = p[i]
    BY <1>4, <1>6, Zenon
  <2> QED BY <1>5, <1>6, <2>1, SeqEqual
<1> HIDE DEF n
<1>8. SubSeq(r, 1, a) \o SubSeq(r, a + 1, b) = SubSeq(r, 1, b)
  <2>1. 1 \in 1 .. Len(r) + 1 /\ a \in 1 - 1 .. Len(r) /\ b \in a .. Len(r)
    BY <1>2, <1>3
  <2> QED BY <1>1, <2>1, ConcatAdjacentSubSeq
<1>9. a \in 0 .. Len(r) /\ b \in 0 .. Len(r)
  BY <1>2, <1>3
<1>10. SubSeq(r, a + 1, b) = p
  BY <1>3, <1>7, Zenon DEF u
<1> QED BY <1>8, <1>9, <1>10, Zenon DEF Grows, p, a, b

\* A statement on as many lines as it takes is read as what it means.
LEMMA FoldedIsRead ==
  ASSUME NEW item, PlainItem(item)
  PROVE  \E js : Reads(item, js)
<1>1. PICK q \in Seq(Seq(IniTokens)) : \E ends \in [1 .. Len(q) -> Pads] :
         Len(q) # 0 /\ item.lines = Folded(q, ends) /\ PlainText(FlattenSeq(q), item.means)
  BY DEF PlainItem
<1>2. PICK ends \in [1 .. Len(q) -> Pads] :
         Len(q) # 0 /\ item.lines = Folded(q, ends) /\ PlainText(FlattenSeq(q), item.means)
  BY <1>1
<1> DEFINE r == FlattenSeq(q)
           n == Len(q)
           back == "\\"
           Piece(j) == IF j = n THEN q[j] ELSE q[j] \o <<back>>
<1>3. PICK at : Spread(IniTokens, q, r, at, n)
  BY FlattenIs
<1> HIDE DEF r
<1>4. /\ n \in Nat \ {0} /\ at[0] = 0 /\ at[n] = Len(r) /\ r \in Seq(IniTokens) /\ Len(r) \in Nat
      /\ \A j \in 1 .. n : q[j] \in Seq(IniTokens)
  <2>1. at[0] = 0 /\ at[n] = Len(r) /\ r \in Seq(IniTokens)
    BY <1>3 DEF Spread
  <2> QED BY <1>2, <2>1, LenProperties, ElementOfSeq
<1> DEFINE js == [j \in 0 .. n - 1 |-> SubSeq(r, 1, at[j])]
           Taken(j) == StripEnd(js[j - 1] \o item.lines[j])
<1>5. back \in IniTokens /\ back # Space
  BY DEF IniTokens, Marks, Space
<1>6. item.lines = [j \in 1 .. n |-> Piece(j) \o ends[j]]
  BY <1>2, Zenon DEF Folded
<1> HIDE DEF back
<1>7. \A j \in 1 .. n : ends[j] \in Pads /\ ends[j] \in Seq(IniTokens)
  BY PadsAre
<1>8. item.lines \in Seq(Seq(IniTokens)) /\ Len(item.lines) = n /\ \A j \in 1 .. n : item.lines[j] = Piece(j) \o ends[j]
  <2>1. \A j \in 1 .. n : Piece(j) \o ends[j] \in Seq(IniTokens)
    <3> TAKE j \in 1 .. n
    <3>1. q[j] \o <<back>> \in Seq(IniTokens)
      BY <1>4, <1>5, OneMoreIs
    <3> DEFINE p == Piece(j)
               z == ends[j]
    <3>2. p \in Seq(IniTokens)
      BY <1>4, <3>1
    <3>3. z \in Seq(IniTokens)
      BY <1>7
    <3> HIDE DEF p, z
    <3>4. p \o z \in Seq(IniTokens)
      BY <3>2, <3>3, ConcatProperties
    <3> QED BY <3>4 DEF p, z
  <2> DEFINE F(j) == Piece(j) \o ends[j]
             T == Seq(IniTokens)
  <2>2. item.lines = [j \in 1 .. n |-> F(j)] /\ \A j \in 1 .. n : F(j) \in T
    BY <1>6, <2>1
  <2> HIDE DEF F, T
  <2>3. item.lines \in [1 .. n -> T] /\ \A j \in 1 .. n : item.lines[j] = F(j)
    BY <2>2
  <2> HIDE DEF n
  <2>4. item.lines \in Seq(T) /\ Len(item.lines) = n
    BY <1>4, <2>3
  <2> QED BY <2>3, <2>4 DEF F, T
<1>9. js \in [0 .. n - 1 -> Seq(IniTokens)] /\ js[0] = <<>>
  <2>1. ASSUME NEW j \in 0 .. n - 1 PROVE SubSeq(r, 1, at[j]) \in Seq(IniTokens)
    <3>1. PICK i \in 1 .. n : i = j + 1
      BY <1>4
    <3>2. at[i - 1] \in 0 .. Len(r) /\ i - 1 = j
      BY <1>3, <1>4, <3>1, PiecesGrow DEF Grows
    <3> DEFINE b == at[j]
    <3>3. b \in 0 .. Len(r)
      BY <3>2, Zenon
    <3> HIDE DEF b
    <3>4. \A k \in 1 .. b : r[k] \in IniTokens
      BY <1>4, <3>3, ElementOfSeq
    <3>5. SubSeq(r, 1, b) \in Seq(IniTokens)
      BY <1>4, <3>3, <3>4, SubSeqProperties
    <3> QED BY <3>5 DEF b
  <2>2. js[0] = SubSeq(r, 1, 0)
    BY <1>4
  <2>3. SubSeq(r, 1, 0) = <<>>
    BY SubSeqEmpty
  <2> QED BY <2>1, <2>2, <2>3
<1>10. \A j \in 1 .. n : js[j - 1] = SubSeq(r, 1, at[j - 1]) /\ js[j - 1] \in Seq(IniTokens)
                        /\ js[j - 1] \o q[j] = SubSeq(r, 1, at[j])
  <2> TAKE j \in 1 .. n
  <2>1. j - 1 \in 0 .. n - 1
    BY <1>4
  <2>2. js[j - 1] = SubSeq(r, 1, at[j - 1]) /\ js[j - 1] \in Seq(IniTokens)
    BY <1>9, <2>1
  <2>3. SubSeq(r, 1, at[j - 1]) \o q[j] = SubSeq(r, 1, at[j])
    <3>1. j \in 1 .. Len(q)
      OBVIOUS
    <3>2. Grows(q, r, at, j)
      BY <1>3, <3>1, PiecesGrow
    <3> QED BY <3>2, Zenon DEF Grows
  <2> HIDE DEF js
  <2> QED BY <2>2, <2>3, Zenon
<1>11. ASSUME NEW j \in 1 .. n - 1 PROVE Continued(Taken(j)) /\ js[j] = Front(Taken(j))
  <2>1. j \in 1 .. n /\ j # n /\ j \in 0 .. n - 1
    BY <1>4
  <2> DEFINE a == js[j - 1]
             p == q[j]
             z == ends[j]
             c == js[j]
             d == c \o <<back>>
  <2>2. c = SubSeq(r, 1, at[j]) /\ c \in Seq(IniTokens)
    BY <1>9, <2>1
  <2>3. a \o p = c /\ a \in Seq(IniTokens) /\ p \in Seq(IniTokens) /\ z \in Pads /\ z \in Seq(IniTokens)
    <3> HIDE DEF js
    <3> QED BY <1>4, <1>7, <1>10, <2>1, <2>2, Zenon
  <2>4. item.lines[j] = (p \o <<back>>) \o z
    BY <1>8, <2>1, Zenon
  <2> HIDE DEF a, p, z, c
  <2>5. a \o ((p \o <<back>>) \o z) = d \o z
    <3> DEFINE y == <<back>>
               py == p \o y
    <3>1. y \in Seq(IniTokens)
      BY <1>5, OneIs
    <3> HIDE DEF y
    <3>2. a \in Seq(IniTokens) /\ p \in Seq(IniTokens) /\ z \in Seq(IniTokens)
      BY <2>3
    <3>4. py \in Seq(IniTokens)
      BY <3>1, <3>2, ConcatProperties
    <3>7. Joined(a, p, y)
      BY <3>1, <3>2, JoinedIs
    <3>5. (a \o p) \o y = a \o (p \o y)
      BY <3>7 DEF Joined
    <3>6. a \o py = c \o y
      BY <2>3, <3>5, Zenon
    <3> HIDE DEF py
    <3>8. Joined(a, py, z)
      BY <3>2, <3>4, JoinedIs
    <3>3. (a \o py) \o z = a \o (py \o z)
      BY <3>8 DEF Joined
    <3> QED BY <3>3, <3>6, Zenon DEF y, py
  <2>6. d \in Seq(IniTokens) /\ Len(d) = Len(c) + 1 /\ d[Len(c) + 1] = back
    BY <1>5, <2>2, OneMoreIs
  <2>7. SubSeq(d, 1, Len(c)) = c
    <3> DEFINE y == <<back>>
    <3>1. y \in Seq(IniTokens)
      BY <1>5, OneIs
    <3> HIDE DEF y
    <3>2. SubSeq(c \o y, 1, Len(c)) = c
      BY <2>2, <3>1, PiecesAre
    <3> QED BY <3>2 DEF y
  <2> HIDE DEF d
  <2>8. Len(c) \in Nat
    BY <2>2, LenProperties
  <2>9. Len(d) # 0 /\ Len(d) - 1 = Len(c) /\ d[Len(d)] = back
    BY <2>6, <2>8
  <2>10. StripEnd(d \o z) = d
    <3>1. d[Len(d)] # Space
      BY <1>5, <2>9, Zenon
    <3> QED BY <2>3, <2>6, <2>9, <3>1, EndStripped
  <2>11. Taken(j) = d
    BY <2>4, <2>5, <2>10, Zenon DEF a
  <2>12. Continued(d)
    <3>1. d # <<>>
      <4>1. Len(<<>>) = 0
        OBVIOUS
      <4> QED BY <2>9, <4>1, Zenon
    <3> QED BY <2>9, <3>1, Zenon DEF Continued, Last, back
  <2>13. Front(d) = c
    BY <2>7, <2>9, Zenon DEF Front
  <2> QED BY <2>11, <2>12, <2>13, Zenon DEF c
<1>12. Taken(n) = StripEnd(r \o ends[n])
  <2>1. n \in 1 .. n
    BY <1>4
  <2>2. SubSeq(r, 1, at[n]) = r
    BY <1>4, SubSeqFull
  <2> DEFINE a == js[n - 1]
             p == q[n]
             z == ends[n]
  <2>3. a \o p = r /\ a \in Seq(IniTokens) /\ p \in Seq(IniTokens) /\ z \in Seq(IniTokens)
    <3> HIDE DEF js
    <3> QED BY <1>4, <1>7, <1>10, <2>1, <2>2, Zenon
  <2>4. item.lines[n] = p \o z
    BY <1>8, <2>1, Zenon
  <2> HIDE DEF a, p, z
  <2>5. a \o (p \o z) = r \o z
    <3>1. a \in Seq(IniTokens) /\ p \in Seq(IniTokens) /\ z \in Seq(IniTokens)
      BY <2>3
    <3>3. Joined(a, p, z)
      BY <3>1, JoinedIs
    <3>2. (a \o p) \o z = a \o (p \o z)
      BY <3>3 DEF Joined
    <3> QED BY <2>3, <3>2, Zenon
  <2> QED BY <2>4, <2>5, Zenon DEF a, z
<1>13. ~ Continued(Taken(n)) /\ \A sec : Means(iniparser_line(Taken(n), sec), item.means)
  <2>1. n \in 1 .. n /\ PlainText(r, item.means)
    BY <1>2, <1>4 DEF r
  <2> DEFINE t == StripEnd(r \o ends[n])
             z == ends[n]
  <2>2. z \in Pads
    BY <1>7, <2>1
  <2> HIDE DEF z
  <2>3. ~ Continued(StripEnd(r \o z)) /\ \A sec : Means(iniparser_line(StripEnd(r \o z), sec), item.means)
    BY <2>1, <2>2, PlainTextIsRead
  <2> QED BY <1>12, <2>3, Zenon DEF z
<1> HIDE DEF js
<1>14. Reads(item, js)
  <2>1. Len(item.lines) # 0
    BY <1>4, <1>8
  <2> QED BY <1>8, <1>9, <1>11, <1>13, <2>1, Zenon DEF Reads
<1> QED BY <1>14, Zenon

\* A file of plain statements is a file that can be read.
LEMMA PlainIsLegible ==
  ASSUME \A item \in Items : PlainItem(item)
  PROVE  Legible
<1> SUFFICES ASSUME NEW item \in Items PROVE \E js : Reads(item, js)
  BY Zenon DEF Legible
<1>1. PlainItem(item)
  OBVIOUS
<1> QED BY <1>1, FoldedIsRead

\* A file of statements each written as an ini file has them - spaces before it and behind each of its
\* lines, a section in brackets, a key and a plain or a quoted value with or without spaces around them
\* and a remark behind them, a comment, a blank line - and each on as many lines as it takes, is read by
\* load() and GetStrParam() as what it says (two quotes within quotes are no value), whatever its words
\* and however many they are, unless a backslash before line[0] was read with an empty line.
THEOREM PlainFilesAreRead ==
  ASSUME \A item \in Items : PlainItem(item)
  PROVE  CfgSpec => []ConfigRight
<1>1. Legible
  BY PlainIsLegible
<1> QED BY <1>1, FilesAreRead

-----------------------------------------------------------------------------
(* A query: ParseParams(), HttpClient.cpp. *)

\* The texts w stand in r, each but the first behind a separator x: e[k] is where the k-th ends.
Placed(w, r, x, e) ==
  /\ r \in Seq(Octets) /\ e \in [0 .. Len(w) -> Nat] /\ e[0] = 0 /\ e[Len(w)] = Len(r) + 1
  /\ \A k \in 1 .. Len(w) : e[k] = e[k - 1] + Len(w[k]) + 1 /\ e[k] <= Len(r) + 1
                            /\ \A j \in 1 .. Len(w[k]) : r[e[k - 1] + j] = w[k][j]
  /\ \A k \in 1 .. Len(w) : k # Len(w) => e[k] <= Len(r) /\ r[e[k]] = x

\* The texts w in one, with separators x between them.
Separated(w, x) == FlattenSeq([k \in 1 .. Len(w) |-> (IF k = 1 THEN <<>> ELSE <<x>>) \o w[k]])

\* They stand there as FlattenSeq places them.
LEMMA PlacedIs ==
  ASSUME NEW w \in Seq(Seq(Octets)), Len(w) # 0, NEW x \in Octets
  PROVE  \E e : Placed(w, Separated(w, x), x, e)
<1> DEFINE N == Len(w)
           q == [k \in 1 .. N |-> (IF k = 1 THEN <<>> ELSE <<x>>) \o w[k]]
           r == Separated(w, x)
<1>1. N \in Nat \ {0} /\ \A k \in 1 .. N : w[k] \in Seq(Octets) /\ Len(w[k]) \in Nat
  BY LenProperties, ElementOfSeq
<1>2. ASSUME NEW k \in 1 .. N
      PROVE  /\ q[k] \in Seq(Octets) /\ (k = 1 => q[k] = w[k])
             /\ k # 1 => /\ Len(q[k]) = Len(w[k]) + 1 /\ q[k][1] = x
                         /\ \A j \in 1 .. Len(w[k]) : q[k][1 + j] = w[k][j]
  <2> DEFINE v == w[k]
  <2>1. v \in Seq(Octets)
    BY <1>1
  <2> HIDE DEF v
  <2>2. CASE k = 1
    <3>1. q[k] = <<>> \o v
      BY <2>2 DEF v
    <3>2. <<>> \o v = v
      BY <2>1, ConcatEmptySeq
    <3> QED BY <2>1, <2>2, <3>1, <3>2 DEF v
  <2>3. CASE k # 1
    <3> DEFINE y == <<x>>
    <3>1. y \in Seq(Octets) /\ Len(y) = 1 /\ y[1] = x
      BY OneIs
    <3> HIDE DEF y
    <3>2. q[k] = y \o v
      BY <2>3 DEF v, y
    <3>3. /\ y \o v \in Seq(Octets) /\ Len(y \o v) = Len(y) + Len(v)
          /\ \A i \in 1 .. Len(y) : (y \o v)[i] = y[i]
          /\ \A j \in 1 .. Len(v) : (y \o v)[Len(y) + j] = v[j]
      <4>1. y \in Seq(Octets) /\ v \in Seq(Octets)
        BY <2>1, <3>1
      <4> QED BY <4>1, BehindIs
    <3> DEFINE z == y \o v
    <3>4. z \in Seq(Octets) /\ Len(z) = Len(v) + 1 /\ z[1] = x /\ \A j \in 1 .. Len(v) : z[1 + j] = v[j]
      <4>1. Len(v) \in Nat /\ 1 \in 1 .. 1
        BY <2>1, LenProperties
      <4> HIDE DEF z
      <4> QED BY <3>1, <3>3, <4>1 DEF z
    <3> HIDE DEF z
    <3>5. q[k] = z
      BY <3>2 DEF z
    <3> HIDE DEF q
    <3> QED BY <2>3, <3>4, <3>5, Zenon DEF v
  <2> QED BY <2>2, <2>3
<1>3. q \in Seq(Seq(Octets)) /\ Len(q) = N
  <2>1. \A k \in 1 .. N : q[k] \in Seq(Octets)
    BY <1>2
  <2> HIDE DEF N
  <2> QED BY <1>1, <2>1
<1>4. r = FlattenSeq(q)
  BY Zenon DEF Separated
<1> HIDE DEF q, r
<1>5. PICK at : Spread(Octets, q, r, at, N)
  BY <1>3, <1>4, FlattenIs
<1>6. /\ r \in Seq(Octets) /\ at \in [0 .. N -> Nat] /\ at[0] = 0 /\ at[N] = Len(r) /\ Len(r) \in Nat
      /\ \A k \in 1 .. N : at[k] <= Len(r) /\ at[k] = at[k - 1] + Len(q[k])
                           /\ \A j \in 1 .. Len(q[k]) : r[at[k - 1] + j] = q[k][j]
  <2>1. /\ r \in Seq(Octets) /\ at \in [0 .. N -> Nat] /\ at[0] = 0 /\ at[N] = Len(r)
        /\ \A k \in 0 .. N : at[k] <= Len(r)
        /\ \A k \in 1 .. N : /\ at[k] = at[k - 1] + Len(q[k])
                             /\ \A j \in 1 .. Len(q[k]) : r[at[k - 1] + j] = q[k][j]
    BY <1>5, Zenon DEF Spread
  <2>2. \A k \in 1 .. N : k \in 0 .. N
    BY <1>1
  <2>3. Len(r) \in Nat
    BY <2>1, LenProperties
  <2> QED BY <2>1, <2>2, <2>3, Zenon
<1> DEFINE e == [k \in 0 .. N |-> IF k = 0 THEN 0 ELSE at[k] + 1]
<1>7. e \in [0 .. N -> Nat] /\ e[0] = 0 /\ e[N] = Len(r) + 1 /\ \A k \in 1 .. N : e[k] = at[k] + 1
  BY <1>1, <1>6
<1> HIDE DEF e, N
<1>8. ASSUME NEW k \in 1 .. N
      PROVE  /\ e[k] = e[k - 1] + Len(w[k]) + 1 /\ e[k] <= Len(r) + 1
             /\ \A j \in 1 .. Len(w[k]) : r[e[k - 1] + j] = w[k][j]
  <2>1. CASE k = 1
    <3>3. 1 \in 1 .. N /\ 1 - 1 = 0
      BY <1>1
    <3>4. q[1] = w[1] /\ at[1] = at[0] + Len(q[1]) /\ \A j \in 1 .. Len(q[1]) : r[at[0] + j] = q[1][j]
      <4>1. at[1] = at[1 - 1] + Len(q[1]) /\ \A j \in 1 .. Len(q[1]) : r[at[1 - 1] + j] = q[1][j]
        BY <1>6, <3>3, Zenon
      <4> QED BY <1>2, <3>3, <4>1
    <3>1. q[1] = w[1] /\ at[1] = Len(w[1]) /\ \A j \in 1 .. Len(w[1]) : r[0 + j] = w[1][j]
      BY <1>1, <1>6, <3>3, <3>4
    <3>2. e[0] = 0 /\ e[1] = Len(w[1]) + 1 /\ 1 - 1 = 0
      BY <1>1, <1>7, <2>1, <3>1
    <3> QED BY <1>1, <1>6, <1>7, <2>1, <3>1, <3>2
  <2>2. CASE k # 1
    <3>1. k - 1 \in 1 .. N /\ k \in 1 .. N
      BY <1>1, <2>2
    <3> DEFINE a == at[k - 1]
               l == Len(w[k])
    <3>6. k - 1 \in 0 .. N /\ k \in 0 .. N
      BY <1>1, <3>1
    <3>2. a \in Nat /\ l \in Nat /\ e[k - 1] = a + 1 /\ e[k] = at[k] + 1 /\ at[k] \in Nat
      <4>1. a \in Nat /\ at[k] \in Nat
        BY <1>6, <3>6
      <4>2. e[k - 1] = a + 1 /\ e[k] = at[k] + 1
        BY <1>7, <3>1
      <4>3. l \in Nat
        BY <1>1
      <4> QED BY <4>1, <4>2, <4>3
    <3>3. Len(q[k]) = l + 1 /\ at[k] = a + Len(q[k]) /\ at[k] <= Len(r)
      BY <1>2, <1>6, <2>2
    <3>4. ASSUME NEW j \in 1 .. l PROVE r[e[k - 1] + j] = w[k][j]
      <4>1. 1 + j \in 1 .. Len(q[k])
        BY <3>2, <3>3
      <4>2. r[a + (1 + j)] = q[k][1 + j]
        BY <1>6, <4>1
      <4>3. a + (1 + j) = e[k - 1] + j
        <5> HIDE DEF a, l
        <5> QED BY <3>2
      <4>4. q[k][1 + j] = w[k][j]
        BY <1>2, <2>2
      <4> QED BY <4>2, <4>3, <4>4, Zenon
    <3> HIDE DEF a, l
    <3>5. e[k] = e[k - 1] + l + 1 /\ e[k] <= Len(r) + 1
      BY <1>6, <3>2, <3>3
    <3> QED BY <3>4, <3>5 DEF l
  <2> QED BY <2>1, <2>2
<1>9. ASSUME NEW k \in 1 .. N, k # N PROVE e[k] <= Len(r) /\ r[e[k]] = x
  <2> DEFINE m == k + 1
  <2>1. m \in 1 .. N /\ m # 1 /\ m - 1 = k /\ k \in 0 .. N
    BY <1>1, <1>9
  <2> HIDE DEF m
  <2>2. Len(q[m]) = Len(w[m]) + 1 /\ q[m][1] = x /\ Len(w[m]) \in Nat
    BY <1>1, <1>2, <2>1
  <2>3. at[m] <= Len(r) /\ at[m] = at[k] + Len(q[m]) /\ \A j \in 1 .. Len(q[m]) : r[at[k] + j] = q[m][j]
    BY <1>6, <2>1
  <2>4. at[k] \in Nat /\ e[k] = at[k] + 1
    BY <1>6, <1>7, <2>1
  <2>5. 1 \in 1 .. Len(q[m])
    BY <2>2
  <2>6. r[at[k] + 1] = x
    BY <2>2, <2>3, <2>5
  <2> QED BY <1>6, <2>2, <2>3, <2>4, <2>6
<1>10. Placed(w, r, x, e)
  BY <1>6, <1>7, <1>8, <1>9, Zenon DEF Placed, N
<1> QED BY <1>10, Zenon DEF r

\* Find() gives a place of the text, or one past its end.
LEMMA FindType ==
  ASSUME NEW r \in Seq(Octets), NEW x, NEW i \in Nat
  PROVE  Find(r, x, i) \in Nat
<1> DEFINE found == {j \in i .. Len(r) : r[j] = x}
<1>1. Len(r) \in Nat /\ found \subseteq Nat
  BY LenProperties
<1>2. Find(r, x, i) = IF found = {} THEN Len(r) + 1 ELSE Min(found)
  BY Zenon DEF Find
<1> HIDE DEF found
<1>3. found # {} => Min(found) \in Nat
  BY <1>1, MinOf
<1> QED BY <1>1, <1>2, <1>3

\* From behind one separator the next is found where the next text ends.
LEMMA FindIs ==
  ASSUME NEW w, NEW r, NEW x, NEW e, Placed(w, r, x, e), Len(w) \in Nat, NEW k \in 1 .. Len(w), Len(w[k]) \in Nat,
         \A j \in 1 .. Len(w[k]) : w[k][j] # x
  PROVE  Find(r, x, e[k - 1] + 1) = e[k]
<1> DEFINE a == e[k - 1]
           b == e[k]
           l == Len(w[k])
           N == Len(w)
           found == {j \in a + 1 .. Len(r) : r[j] = x}
<1>1. /\ b = a + l + 1 /\ b <= Len(r) + 1 /\ \A j \in 1 .. l : r[a + j] = w[k][j]
      /\ k # N => b <= Len(r) /\ r[b] = x
      /\ k = N => b = Len(r) + 1
      /\ r \in Seq(Octets)
  BY Zenon DEF Placed
<1>2. a \in Nat /\ l \in Nat /\ Len(r) \in Nat
  <2>1. k - 1 \in 0 .. N /\ e \in [0 .. N -> Nat]
    BY DEF Placed
  <2>2. Len(r) \in Nat
    BY <1>1, LenProperties
  <2> QED BY <2>1, <2>2
<1>3. Find(r, x, a + 1) = IF found = {} THEN Len(r) + 1 ELSE Min(found)
  BY Zenon DEF Find
<1> HIDE DEF a, b, N
<1>4. ASSUME NEW j \in a + 1 .. Len(r), r[j] = x PROVE b <= j
  <2>1. SUFFICES ASSUME ~ (b <= j) PROVE FALSE
    OBVIOUS
  <2>2. PICK i \in 1 .. l : j = a + i
    <3>1. j - a \in 1 .. l /\ j = a + (j - a)
      BY <1>1, <1>2, <2>1
    <3> QED BY <3>1
  <2>3. r[j] = w[k][i]
    BY <1>1, <2>2, Zenon
  <2> QED BY <1>4, <2>3
<1>5. CASE k # N
  <2>1. b \in a + 1 .. Len(r) /\ r[b] = x
    BY <1>1, <1>2, <1>5
  <2>2. b \in found /\ found \subseteq Nat /\ \A j \in found : b <= j
    BY <1>2, <1>4, <2>1
  <2> HIDE DEF found
  <2>3. Min(found) \in found /\ \A j \in found : Min(found) <= j
    BY <2>2, MinOf
  <2>4. Min(found) = b
    <3> DEFINE m == Min(found)
    <3>1. m \in Nat /\ b \in Nat /\ m <= b /\ b <= m
      BY <2>2, <2>3
    <3> HIDE DEF m
    <3>2. m = b
      BY <3>1
    <3> QED BY <3>2 DEF m
  <2> QED BY <1>3, <2>2, <2>4 DEF a, b
<1>6. CASE k = N
  <2>1. b = Len(r) + 1
    BY <1>1, <1>6
  <2>2. found = {}
    BY <1>2, <1>4, <2>1
  <2> HIDE DEF found
  <2> QED BY <1>3, <2>1, <2>2 DEF a, b
<1> QED BY <1>5, <1>6

\* The places where the pieces of r end, as Pieces has them.
Stops(r, x, f) ==
  f = [k \in 0 .. Len(r) + 1 |-> IF k = 0 THEN 0 ELSE Find(r, x, f[k - 1] + 1)]

\* There are such places.
LEMMA StopsExist ==
  ASSUME NEW r \in Seq(Octets), NEW x
  PROVE  \E f : Stops(r, x, f)
<1> DEFINE L == Len(r) + 1
           step == [p \in (1 .. L) \X Nat |-> Find(r, x, p[2] + 1)]
<1>1. L \in Nat
  BY LenProperties
<1>2. ASSUME NEW k \in 1 .. L, NEW t \in Nat
      PROVE  step[<<k, t>>] = Find(r, x, t + 1) /\ step[<<k, t>>] \in Nat
  <2>1. <<k, t>> \in (1 .. L) \X Nat /\ <<k, t>>[2] = t /\ t + 1 \in Nat
    OBVIOUS
  <2> QED BY <2>1, FindType
<1> HIDE DEF step, L
<1>3. PICK f : Solves(f, Nat, 0, L, 0, step)
  <2>1. \A k \in 0 + 1 .. L : k \in 1 .. L
    OBVIOUS
  <2>2. Recursion(Nat, 0, L, 0, step)
    BY <1>1, <1>2, <2>1 DEF Recursion
  <2> QED BY <2>2, RecursionOn
<1>4. f \in [0 .. L -> Nat] /\ f[0] = 0 /\ \A k \in 0 + 1 .. L : f[k] = step[<<k, f[k - 1]>>]
  BY <1>3, Zenon DEF Solves
<1>5. ASSUME NEW k \in 0 .. L PROVE f[k] = IF k = 0 THEN 0 ELSE Find(r, x, f[k - 1] + 1)
  <2>1. CASE k = 0
    BY <1>4, <2>1
  <2>2. CASE k # 0
    <3>1. k \in 1 .. L /\ k \in 0 + 1 .. L /\ k - 1 \in 0 .. L
      BY <1>1, <2>2
    <3>2. f[k - 1] \in Nat
      BY <1>4, <3>1
    <3>3. f[k] = step[<<k, f[k - 1]>>]
      BY <1>4, <3>1, Zenon
    <3>4. f[k] = Find(r, x, f[k - 1] + 1)
      BY <1>2, <3>1, <3>2, <3>3, Zenon
    <3> QED BY <2>2, <3>4, Zenon
  <2> QED BY <2>1, <2>2
<1>6. f = [k \in 0 .. L |-> f[k]]
  BY <1>4
<1> DEFINE B(k) == IF k = 0 THEN 0 ELSE Find(r, x, f[k - 1] + 1)
<1>7. \A k \in 0 .. L : f[k] = B(k)
  BY <1>5
<1> HIDE DEF B
<1>8. f = [k \in 0 .. L |-> B(k)]
  BY <1>6, <1>7, Zenon
<1> QED BY <1>8, Zenon DEF Stops, B, L

\* The pieces of texts with separators between them are the texts.
LEMMA PiecesAreTexts ==
  ASSUME NEW w \in Seq(Seq(Octets)), Len(w) # 0, NEW x \in Octets,
         \A k \in 1 .. Len(w) : \A j \in 1 .. Len(w[k]) : w[k][j] # x
  PROVE  Pieces(Separated(w, x), x) = w
<1> DEFINE N == Len(w)
           r == Separated(w, x)
           L == Len(r)
<1>1. PICK e : Placed(w, r, x, e)
  BY PlacedIs
<1> HIDE DEF r
<1>2. N \in Nat \ {0} /\ \A k \in 1 .. N : w[k] \in Seq(Octets) /\ Len(w[k]) \in Nat
  BY LenProperties, ElementOfSeq
<1>3. /\ r \in Seq(Octets) /\ e \in [0 .. N -> Nat] /\ e[0] = 0 /\ e[N] = L + 1 /\ L \in Nat
      /\ \A k \in 1 .. N : e[k] = e[k - 1] + Len(w[k]) + 1 /\ e[k] <= L + 1
                            /\ \A j \in 1 .. Len(w[k]) : r[e[k - 1] + j] = w[k][j]
      /\ \A k \in 1 .. N : k # N => e[k] <= L
  BY <1>1, LenProperties DEF Placed
<1> DEFINE stop[k \in 0 .. Len(r) + 1] == IF k = 0 THEN 0 ELSE Find(r, x, stop[k - 1] + 1)
           last == {k \in 1 .. Len(r) + 1 : stop[k] > Len(r)}
           n == Min(last)
<1>4. Pieces(r, x) = [k \in 1 .. n |-> SubSeq(r, stop[k - 1] + 1, stop[k] - 1)]
  BY Zenon DEF Pieces
<1>5. Stops(r, x, stop)
  <2>1. \E f : Stops(r, x, f)
    BY <1>3, StopsExist
  <2> QED BY <2>1, Zenon DEF Stops
<1> HIDE DEF stop
<1>6. stop[0] = 0 /\ \A k \in 1 .. L + 1 : stop[k] = Find(r, x, stop[k - 1] + 1)
  <2> DEFINE B(f) == [k \in 0 .. L + 1 |-> IF k = 0 THEN 0 ELSE Find(r, x, f[k - 1] + 1)]
  <2>1. stop = B(stop)
    BY <1>5, Zenon DEF Stops
  <2>2. \A f : \A k \in 0 .. L + 1 : B(f)[k] = IF k = 0 THEN 0 ELSE Find(r, x, f[k - 1] + 1)
    BY Zenon
  <2> HIDE DEF B
  <2>3. ASSUME NEW k \in 0 .. L + 1 PROVE stop[k] = IF k = 0 THEN 0 ELSE Find(r, x, stop[k - 1] + 1)
    <3>1. stop[k] = B(stop)[k]
      BY <2>1, Zenon
    <3> QED BY <2>2, <3>1, Zenon
  <2>4. 0 \in 0 .. L + 1 /\ \A k \in 1 .. L + 1 : k \in 0 .. L + 1 /\ k # 0
    BY <1>3
  <2> QED BY <2>3, <2>4, Zenon
<1> DEFINE T == {k \in Nat : k <= N => stop[k] = e[k] /\ k <= e[k]}
<1>7. 0 \in T
  BY <1>3, <1>6
<1>8. ASSUME NEW k \in Nat, k \in T PROVE k + 1 \in T
  <2> SUFFICES ASSUME k + 1 <= N PROVE stop[k + 1] = e[k + 1] /\ k + 1 <= e[k + 1]
    OBVIOUS
  <2> DEFINE m == k + 1
  <2>1. m \in 1 .. N /\ m - 1 = k /\ k \in 0 .. N /\ k <= N
    BY <1>2
  <2>2. stop[k] = e[k] /\ k <= e[k] /\ e[k] \in Nat
    BY <1>3, <1>8, <2>1
  <2> HIDE DEF m
  <2>3. e[m] = e[k] + Len(w[m]) + 1 /\ e[m] <= L + 1 /\ Len(w[m]) \in Nat
    BY <1>2, <1>3, <2>1
  <2>4. m <= e[m] /\ m \in 1 .. L + 1
    BY <1>3, <2>1, <2>2, <2>3
  <2>5. Find(r, x, e[m - 1] + 1) = e[m]
    <3>1. m \in 1 .. Len(w) /\ Len(w) \in Nat /\ Len(w[m]) \in Nat /\ \A j \in 1 .. Len(w[m]) : w[m][j] # x
      BY <1>2, <2>1
    <3> HIDE DEF N
    <3> QED BY <1>1, <3>1, FindIs
  <2>6. stop[m] = e[m]
    BY <1>6, <2>1, <2>2, <2>4, <2>5
  <2> QED BY <2>4, <2>6 DEF m
<1> HIDE DEF T
<1>9. \A k \in Nat : k \in T
  BY <1>7, <1>8, InductionOn, Zenon
<1>10. ASSUME NEW k \in 0 .. N PROVE stop[k] = e[k] /\ k <= e[k]
  <2>1. k \in T /\ k <= N
    BY <1>2, <1>9
  <2> QED BY <2>1 DEF T
<1>11. n = N
  <2>1. N \in 1 .. L + 1 /\ stop[N] > L
    <3>1. N \in 0 .. N
      BY <1>2
    <3>2. stop[N] = e[N] /\ N <= e[N]
      BY <1>10, <3>1
    <3> QED BY <1>2, <1>3, <3>2
  <2>2. ASSUME NEW k \in 1 .. L + 1, k < N PROVE ~ (stop[k] > L)
    <3>1. k \in 1 .. N /\ k # N /\ k \in 0 .. N
      BY <1>2, <2>2
    <3>2. stop[k] = e[k] /\ e[k] <= L /\ e[k] \in Nat
      BY <1>3, <1>10, <3>1
    <3> QED BY <1>3, <3>2
  <2>3. N \in last /\ last \subseteq Nat /\ \A k \in last : ~ (k < N)
    BY <2>1, <2>2
  <2> HIDE DEF last
  <2>4. n \in last /\ n <= N
    BY <2>3, MinOf
  <2> HIDE DEF n
  <2> QED BY <1>2, <2>3, <2>4
<1> HIDE DEF n
<1>12. ASSUME NEW k \in 1 .. N PROVE SubSeq(r, stop[k - 1] + 1, stop[k] - 1) = w[k]
  <2> DEFINE a == e[k - 1]
             v == w[k]
             l == Len(v)
             u == SubSeq(r, a + 1, a + l)
  <2>1. k - 1 \in 0 .. N /\ k \in 0 .. N
    BY <1>2
  <2>2. a \in Nat /\ v \in Seq(Octets) /\ l \in Nat /\ e[k] = a + l + 1 /\ e[k] <= L + 1
        /\ \A j \in 1 .. l : r[a + j] = v[j]
    BY <1>2, <1>3, <2>1
  <2> HIDE DEF a, v
  <2>3. a + l <= Len(r)
    BY <1>3, <2>2
  <2>4. u \in Seq(Octets) /\ Len(u) = l /\ \A j \in 1 .. l : u[j] = r[a + j]
    BY <1>3, <2>2, <2>3, CutIs
  <2>5. stop[k - 1] = a /\ stop[k] - 1 = a + l
    BY <1>10, <2>1, <2>2 DEF a
  <2> HIDE DEF u
  <2>6. u = v
    <3>1. \A j \in 1 .. l : u[j] = v[j]
      BY <2>2, <2>4, Zenon
    <3> QED BY <2>2, <2>4, <3>1, SeqEqual
  <2> QED BY <2>5, <2>6, Zenon DEF u, v
<1>13. Pieces(r, x) = [k \in 1 .. N |-> w[k]]
  <2> DEFINE P(k) == SubSeq(r, stop[k - 1] + 1, stop[k] - 1)
  <2>1. Pieces(r, x) = [k \in 1 .. N |-> P(k)] /\ \A k \in 1 .. N : P(k) = w[k]
    BY <1>4, <1>11, <1>12, Zenon
  <2> HIDE DEF P
  <2> QED BY <2>1
<1>14. w = [k \in 1 .. N |-> w[k]]
  OBVIOUS
<1> QED BY <1>13, <1>14, Zenon DEF r

\* The greatest of a bounded set of numbers.
LEMMA MaxOf ==
  ASSUME NEW S, S \subseteq Nat, S # {}, NEW b \in Nat, \A n \in S : n <= b
  PROVE  Max(S) \in S /\ \A n \in S : n <= Max(S)
<1> DEFINE G(m) == m \in S /\ \A n \in S : m >= n
<1>1. \E m : G(m)
  <2>1. PICK m \in S : \A n \in S : n <= m
    BY GreatestOf
  <2>2. \A n \in S : m >= n
    BY <2>1
  <2> QED BY <2>2
<1> DEFINE o == CHOOSE m : G(m)
<1>2. G(o)
  <2> HIDE DEF G
  <2> QED BY <1>1, Zenon
<1>3. Max(S) = CHOOSE m \in S : \A n \in S : m >= n
  BY Zenon DEF Max
<1>4. Max(S) \in S /\ \A n \in S : Max(S) >= n
  BY <1>1, <1>3
<1> QED BY <1>4

\* Name and value are what stands before the first "=" and behind it.
LEMMA ParamIs ==
  ASSUME NEW a \in Seq(Octets), NEW b \in Seq(Octets), NEW x \in Octets, \A i \in 1 .. Len(a) : a[i] # x
  PROVE  Param((a \o <<x>>) \o b, x) = <<a, b>>
<1> DEFINE ax == a \o <<x>>
           s == ax \o b
           X == {x}
           I == {i \in 1 .. Len(s) : s[i] = x}
           n == IF I # {} THEN Min(I) ELSE 0
<1>1. Param(s, x) = IF n = 0 THEN <<s, <<>>>> ELSE <<SubSeq(s, 1, n - 1), SubSeq(s, n + 1, Len(s))>>
  BY Zenon DEF Param, SelectInSeq
<1>2. ax \in Seq(Octets) /\ Len(ax) = Len(a) + 1 /\ Len(a) \in Nat
  BY OneMoreIs, LenProperties
<1>3. Places(s, X) # {} /\ Min(Places(s, X)) = Len(a) + 1 /\ SubSeq(s, 1, Len(a)) = a
  <2>1. x \in X /\ \A i \in 1 .. Len(a) : a[i] \notin X
    OBVIOUS
  <2> HIDE DEF X
  <2> QED BY <2>1, FirstIs
<1> HIDE DEF ax
<1>4. SubSeq(s, Len(ax) + 1, Len(s)) = b
  BY <1>2, PiecesAre
<1>5. I = Places(s, X)
  <2> HIDE DEF s
  <2> QED BY DEF Places
<1> HIDE DEF s, X, I
<1>6. n = Len(a) + 1
  BY <1>3, <1>5, Zenon
<1> HIDE DEF n
<1>7. n # 0 /\ n - 1 = Len(a) /\ n + 1 = Len(ax) + 1
  BY <1>2, <1>6
<1>8. Param(s, x) = <<SubSeq(s, 1, Len(a)), SubSeq(s, Len(ax) + 1, Len(s))>>
  BY <1>1, <1>7, Zenon
<1> QED BY <1>3, <1>4, <1>8, Zenon DEF s, ax

\* What UrlEncode writes has none of the separators of a query.
Unseparating == Octets \ {38, 61}
LEMMA EncodedIs ==
  ASSUME NEW data \in Seq(Octets)
  PROVE  UrlEncode(data) \in Seq(Unseparating)
<1> DEFINE q == [i \in DOMAIN data |-> UrlCode(data[i])]
           n == Len(data)
<1>1. n \in Nat /\ DOMAIN data = 1 .. n /\ \A i \in 1 .. n : data[i] \in Octets
  BY LenProperties, ElementOfSeq
<1>2. UrlEncode(data) = FlattenSeq(q)
  BY Zenon DEF UrlEncode, UrlCode
<1>3. ASSUME NEW c \in Octets PROVE UrlCode(c) \in Seq(Unseparating)
  <2>1. CASE Plain(c)
    <3>1. c \in Unseparating
      <4>1. c # 38 /\ c # 61
        BY <2>1, PlainIs, Zenon
      <4> QED BY <4>1 DEF Unseparating
    <3>2. UrlCode(c) = <<c>>
      <4>1. c # 32
        BY <2>1, PlainIs, Zenon
      <4> QED BY <2>1, <4>1 DEF UrlCode
    <3> QED BY <3>1, <3>2
  <2>2. CASE ~ Plain(c) /\ c = 32
    <3>1. UrlCode(c) = <<43>> /\ 43 \in Unseparating
      BY <2>2 DEF UrlCode, Unseparating, Octets
    <3> QED BY <3>1
  <2>3. CASE ~ Plain(c) /\ c # 32
    <3>1. \A d \in 0 .. 15 : Hex2Char(d) \in Unseparating
      BY DEF Hex2Char, Unseparating, Octets
    <3>2. c \div 16 \in 0 .. 15 /\ c % 16 \in 0 .. 15
      BY DEF Octets
    <3> DEFINE u == Hex2Char(c \div 16)
               v == Hex2Char(c % 16)
    <3>3. u \in Unseparating /\ v \in Unseparating /\ 37 \in Unseparating
      <4>1. 37 \in Unseparating
        BY DEF Unseparating, Octets
      <4> QED BY <3>1, <3>2, <4>1
    <3>4. UrlCode(c) = <<37, u, v>>
      BY <2>3, Zenon DEF UrlCode
    <3> HIDE DEF u, v
    <3> QED BY <3>3, <3>4
  <2> QED BY <2>1, <2>2, <2>3
<1>4. q \in Seq(Seq(Unseparating))
  <2>1. \A i \in 1 .. n : UrlCode(data[i]) \in Seq(Unseparating)
    BY <1>1, <1>3
  <2> HIDE DEF n
  <2> QED BY <1>1, <2>1
<1> HIDE DEF q
<1>5. PICK at : Spread(Unseparating, q, FlattenSeq(q), at, Len(q))
  BY <1>4, FlattenIs
<1> QED BY <1>2, <1>5 DEF Spread

\* A name and a value, as they are written into a query.
Written(p) == (UrlEncode(p[1]) \o <<61>>) \o UrlEncode(p[2])

\* It has no separator, is not empty, and is cut where it was put together.
LEMMA WrittenIs ==
  ASSUME NEW p \in Seq(Octets) \X Seq(Octets)
  PROVE  /\ UrlEncode(p[1]) \in Seq(Octets) /\ UrlEncode(p[2]) \in Seq(Octets)
         /\ Written(p) \in Seq(Octets) /\ Written(p) # <<>> /\ \A j \in 1 .. Len(Written(p)) : Written(p)[j] # 38
         /\ Param(Written(p), 61) = <<UrlEncode(p[1]), UrlEncode(p[2])>>
<1> DEFINE a == UrlEncode(p[1])
           b == UrlEncode(p[2])
           s == Written(p)
           ax == a \o <<61>>
           T == Octets \ {38}
<1>1. a \in Seq(Unseparating) /\ b \in Seq(Unseparating)
  <2>1. p[1] \in Seq(Octets) /\ p[2] \in Seq(Octets)
    OBVIOUS
  <2> QED BY <2>1, EncodedIs
<1> HIDE DEF a, b
<1>2. Unseparating \subseteq T /\ T \subseteq Octets /\ 61 \in T
  BY DEF Unseparating, Octets
<1>3. a \in Seq(T) /\ b \in Seq(T) /\ \A i \in 1 .. Len(a) : a[i] # 61
  <2>1. \A i \in 1 .. Len(a) : a[i] \in Unseparating
    BY <1>1, ElementOfSeq
  <2> HIDE DEF T
  <2>2. a \in Seq(T) /\ b \in Seq(T)
    BY <1>1, <1>2
  <2> QED BY <2>1, <2>2 DEF Unseparating
<1> HIDE DEF T
<1>4. a \in Seq(Octets) /\ b \in Seq(Octets) /\ 61 \in Octets
  BY <1>2, <1>3
<1>5. s = ax \o b
  BY Zenon DEF Written, a, b
<1>6. ax \in Seq(T) /\ Len(ax) = Len(a) + 1 /\ Len(a) \in Nat
  BY <1>2, <1>3, OneMoreIs, LenProperties
<1>7. Param(ax \o b, 61) = <<a, b>>
  BY <1>3, <1>4, ParamIs
<1> HIDE DEF s, ax
<1>8. s \in Seq(T) /\ Len(s) = Len(ax) + Len(b) /\ Len(b) \in Nat
  BY <1>3, <1>5, <1>6, BehindIs, LenProperties
<1>9. s # <<>>
  <2>1. Len(s) # 0
    BY <1>6, <1>8
  <2> QED BY <2>1
<1>10. \A j \in 1 .. Len(s) : s[j] # 38
  <2>1. \A j \in 1 .. Len(s) : s[j] \in T
    BY <1>8, ElementOfSeq
  <2> QED BY <2>1 DEF T
<1>11. s \in Seq(Octets)
  BY <1>2, <1>8
<1> QED BY <1>4, <1>5, <1>7, <1>9, <1>10, <1>11, Zenon DEF a, b, s

\* The map of a query of parameters: kept is the list of its names and values.
Mapped(kept) ==
  [name \in {p[1] : p \in ToSet(kept)} |-> kept[SelectLastInSeq(kept, LAMBDA p : p[1] = name)][2]]

\* For each pair that no later pair of the same name follows, the map has the value of its name; and
\* it has no others.
Lasts(pairs) == {k \in DOMAIN pairs : \A l \in DOMAIN pairs : l > k => pairs[l][1] # pairs[k][1]}

\* The map of the encoded pairs, decoded.
DecodesTo(kept, pairs) ==
  {<<UrlDecode(n), UrlDecode(Mapped(kept)[n])>> : n \in DOMAIN Mapped(kept)} = {pairs[i] : i \in Lasts(pairs)}

\* It is the pairs, the last of a name.
LEMMA MapIsDecoded ==
  ASSUME NEW pairs \in Seq(Seq(Octets) \X Seq(Octets)), NEW kept,
         kept = [i \in 1 .. Len(pairs) |-> <<UrlEncode(pairs[i][1]), UrlEncode(pairs[i][2])>>]
  PROVE  DecodesTo(kept, pairs)
<1> DEFINE N == Len(pairs)
           read == Mapped(kept)
           Name(i) == UrlEncode(pairs[i][1])
           Same(n) == {i \in 1 .. N : Name(i) = n}
<1>1. /\ N \in Nat /\ DOMAIN pairs = 1 .. N
      /\ \A i \in 1 .. N : pairs[i] \in Seq(Octets) \X Seq(Octets)
  BY LenProperties, ElementOfSeq
<1>2. ASSUME NEW i \in 1 .. N
      PROVE  /\ UrlDecode(Name(i)) = pairs[i][1] /\ UrlDecode(UrlEncode(pairs[i][2])) = pairs[i][2]
             /\ pairs[i] = <<pairs[i][1], pairs[i][2]>>
  <2>1. pairs[i][1] \in Seq(Octets) /\ pairs[i][2] \in Seq(Octets) /\ pairs[i] = <<pairs[i][1], pairs[i][2]>>
    BY <1>1
  <2> QED BY <2>1, UrlTextsReadBack, Zenon DEF UrlRoundTrip
<1> HIDE DEF N, Name
<1>3. Len(kept) = N /\ DOMAIN kept = 1 .. N /\ \A i \in 1 .. N : kept[i][1] = Name(i) /\ kept[i][2] = UrlEncode(pairs[i][2])
  BY <1>1 DEF N, Name
<1>4. /\ DOMAIN read = {Name(i) : i \in 1 .. N}
      /\ \A n \in DOMAIN read : read[n] = kept[SelectLastInSeq(kept, LAMBDA p : p[1] = n)][2]
  <2> DEFINE V(n) == kept[SelectLastInSeq(kept, LAMBDA p : p[1] = n)][2]
             dom == {p[1] : p \in ToSet(kept)}
  <2>1. read = [n \in dom |-> V(n)]
    BY Zenon DEF Mapped
  <2>2. dom = {Name(i) : i \in 1 .. N}
    <3>1. ToSet(kept) = {kept[i] : i \in 1 .. N}
      BY <1>3, Zenon DEF ToSet
    <3>2. \A i \in 1 .. N : kept[i][1] = Name(i)
      BY <1>3
    <3>3. ASSUME NEW z \in dom PROVE z \in {Name(i) : i \in 1 .. N}
      <4>1. PICK p \in ToSet(kept) : z = p[1]
        BY Zenon
      <4>2. PICK i \in 1 .. N : p = kept[i]
        BY <3>1, <4>1, Zenon
      <4>3. z = Name(i)
        BY <3>2, <4>1, <4>2, Zenon
      <4> QED BY <4>3, Zenon
    <3>4. ASSUME NEW i \in 1 .. N PROVE Name(i) \in dom
      <4>1. kept[i] \in ToSet(kept)
        BY <3>1, Zenon
      <4>2. kept[i][1] = Name(i)
        BY <3>2, Zenon
      <4> QED BY <4>1, <4>2, Zenon
    <3> HIDE DEF dom
    <3>5. \A z : z \in dom <=> z \in {Name(i) : i \in 1 .. N}
      <4>1. \A z : z \in dom => z \in {Name(i) : i \in 1 .. N}
        BY <3>3, Zenon
      <4>2. \A z : z \in {Name(i) : i \in 1 .. N} => z \in dom
        BY <3>4, Zenon
      <4> QED BY <4>1, <4>2, Zenon
    <3> QED BY <3>5, Zenon
  <2> HIDE DEF V, dom
  <2>3. DOMAIN read = dom /\ \A n \in dom : read[n] = V(n)
    BY <2>1
  <2> QED BY <2>2, <2>3, Zenon DEF V
<1>5. ASSUME NEW i \in 1 .. N
      PROVE  LET m == Max(Same(Name(i)))
             IN  m \in 1 .. N /\ Name(m) = Name(i) /\ read[Name(i)] = UrlEncode(pairs[m][2]) /\ m \in Lasts(pairs)
                 /\ (i \in Lasts(pairs) => m = i)
  <2> DEFINE n == Name(i)
             I == Same(n)
             m == Max(I)
  <2>1. SelectLastInSeq(kept, LAMBDA p : p[1] = n) = IF I # {} THEN m ELSE 0
    <3>1. {j \in 1 .. Len(kept) : kept[j][1] = n} = I
      BY <1>3
    <3> HIDE DEF I
    <3> QED BY <3>1, Zenon DEF SelectLastInSeq
  <2>2. i \in I /\ I \subseteq Nat /\ \A j \in I : j <= N
    BY <1>1
  <2>3. n \in DOMAIN read
    BY <1>4
  <2> HIDE DEF I
  <2>4. m \in I /\ \A j \in I : j <= m
    BY <1>1, <2>2, MaxOf
  <2>5. SelectLastInSeq(kept, LAMBDA p : p[1] = n) = m
    BY <2>1, <2>4, Zenon
  <2>6. read[n] = kept[m][2]
    BY <1>4, <2>3, <2>5, Zenon
  <2>7. m \in 1 .. N /\ Name(m) = n
    BY <2>4 DEF I
  <2> HIDE DEF m
  <2>8. read[n] = UrlEncode(pairs[m][2])
    BY <1>3, <2>6, <2>7
  <2>9. ASSUME NEW l \in 1 .. N, l > m PROVE pairs[l][1] # pairs[m][1]
    <3>1. SUFFICES ASSUME pairs[l][1] = pairs[m][1] PROVE FALSE
      OBVIOUS
    <3>2. Name(l) = Name(m)
      BY <3>1, Zenon DEF Name
    <3>3. l \in I
      BY <2>7, <3>2 DEF I
    <3>4. l <= m /\ m \in Nat /\ l \in Nat
      BY <1>1, <2>4, <2>7, <3>3
    <3> QED BY <2>9, <3>4
  <2>10. m \in Lasts(pairs)
    BY <1>1, <2>7, <2>9 DEF Lasts
  <2>11. ASSUME i \in Lasts(pairs) PROVE m = i
    <3>1. pairs[m][1] = pairs[i][1]
      <4>1. UrlDecode(Name(m)) = pairs[m][1] /\ UrlDecode(Name(i)) = pairs[i][1]
        BY <1>2, <2>7
      <4>2. UrlDecode(Name(m)) = UrlDecode(Name(i))
        BY <2>7, Zenon
      <4> QED BY <4>1, <4>2, Zenon
    <3>2. ~ (m > i)
      BY <1>1, <2>7, <2>11, <3>1 DEF Lasts
    <3>3. i <= m
      BY <2>2, <2>4
    <3> QED BY <1>1, <2>7, <3>2, <3>3
  <2> QED BY <2>7, <2>8, <2>10, <2>11 DEF m, I
<1> HIDE DEF read, Same
<1>6. ASSUME NEW i \in 1 .. N
      PROVE  \E m \in Lasts(pairs) : /\ <<UrlDecode(Name(i)), UrlDecode(read[Name(i)])>> = pairs[m]
                                     /\ (i \in Lasts(pairs) => m = i)
  <2> DEFINE m == Max(Same(Name(i)))
  <2>1. /\ m \in 1 .. N /\ Name(m) = Name(i) /\ read[Name(i)] = UrlEncode(pairs[m][2]) /\ m \in Lasts(pairs)
        /\ (i \in Lasts(pairs) => m = i)
    BY <1>5
  <2> HIDE DEF m
  <2>2. UrlDecode(Name(i)) = pairs[m][1] /\ UrlDecode(read[Name(i)]) = pairs[m][2]
    BY <1>2, <2>1, Zenon
  <2>3. <<UrlDecode(Name(i)), UrlDecode(read[Name(i)])>> = pairs[m]
    BY <1>2, <2>1, <2>2, Zenon
  <2> QED BY <2>1, <2>3, Zenon
<1>7. ASSUME NEW n \in DOMAIN read PROVE <<UrlDecode(n), UrlDecode(read[n])>> \in {pairs[i] : i \in Lasts(pairs)}
  <2>1. PICK i \in 1 .. N : n = Name(i)
    BY <1>4
  <2>2. PICK m \in Lasts(pairs) : <<UrlDecode(Name(i)), UrlDecode(read[Name(i)])>> = pairs[m]
    BY <1>6, Zenon
  <2>3. <<UrlDecode(n), UrlDecode(read[n])>> = pairs[m]
    BY <2>1, <2>2, Zenon
  <2> QED BY <2>3
<1>8. ASSUME NEW i \in Lasts(pairs) PROVE pairs[i] \in {<<UrlDecode(n), UrlDecode(read[n])>> : n \in DOMAIN read}
  <2>1. i \in 1 .. N
    BY <1>1 DEF Lasts
  <2>2. Name(i) \in DOMAIN read
    BY <1>4, <2>1
  <2>3. <<UrlDecode(Name(i)), UrlDecode(read[Name(i)])>> = pairs[i]
    BY <1>6, <2>1, Zenon
  <2> QED BY <2>2, <2>3, Zenon
<1>9. {<<UrlDecode(n), UrlDecode(read[n])>> : n \in DOMAIN read} = {pairs[i] : i \in Lasts(pairs)}
  BY <1>7, <1>8, Zenon
<1> QED BY <1>9, Zenon DEF DecodesTo, read

\* A sequence without members is the empty one.
LEMMA EmptyTextIs ==
  ASSUME NEW r, NEW S, r \in Seq(S), Len(r) = 0
  PROVE  r = <<>>
OBVIOUS

\* The query of no pairs has one piece, the empty text.
LEMMA EmptyPiece ==
  Pieces(<<>>, 38) = << <<>> >>
<1> DEFINE w == << <<>> >>
           r == Separated(w, 38)
<1>1. w \in Seq(Seq(Octets)) /\ Len(w) = 1 /\ w[1] = <<>>
  OBVIOUS
<1>2. 38 \in Octets /\ \A k \in 1 .. Len(w) : \A j \in 1 .. Len(w[k]) : w[k][j] # 38
  BY <1>1 DEF Octets
<1> HIDE DEF w
<1>3. Pieces(r, 38) = w
  <2>1. Len(w) # 0
    BY <1>1
  <2> QED BY <1>1, <1>2, <2>1, PiecesAreTexts, Zenon
<1>4. PICK e : Placed(w, r, 38, e)
  <2>1. Len(w) # 0
    BY <1>1
  <2> QED BY <1>1, <1>2, <2>1, PlacedIs, Zenon
<1> HIDE DEF r
<1>5. r = <<>>
  <2>1. r \in Seq(Octets) /\ e[0] = 0 /\ e[1] = Len(r) + 1 /\ e[1] = e[1 - 1] + Len(w[1]) + 1
    <3>1. 1 \in 1 .. Len(w)
      BY <1>1
    <3> QED BY <1>1, <1>4, <3>1, Zenon DEF Placed
  <2>2. Len(w[1]) = 0 /\ Len(r) \in Nat
    BY <1>1, <2>1, LenProperties
  <2>3. Len(r) = 0
    BY <2>1, <2>2
  <2> QED BY <2>1, <2>3, EmptyTextIs
<1> QED BY <1>3, <1>5, Zenon DEF w

\* ParseParams() from the pieces of the query.
LEMMA QueryRead ==
  ASSUME NEW query, NEW pieces, Pieces(query, 38) = pieces, NEW params,
         params = [k \in DOMAIN pieces |-> Param(pieces[k], 61)], NEW kept,
         kept = IF Last(pieces) = <<>> THEN Front(params) ELSE params
  PROVE  ParseParams(query, 38, 61) = Mapped(kept)
<1> DEFINE p == Pieces(query, 38)
           given == [k \in DOMAIN p |-> Param(p[k], IF k = Len(p) THEN 61 ELSE 61)]
<1>1. ParseParams(query, 38, 61) = Mapped(IF Last(p) = <<>> THEN Front(given) ELSE given)
  BY Zenon DEF ParseParams, Mapped
<1>2. given = [k \in DOMAIN p |-> Param(p[k], 61)]
  <2>1. \A k \in DOMAIN p : Param(p[k], IF k = Len(p) THEN 61 ELSE 61) = Param(p[k], 61)
    BY Zenon
  <2> HIDE DEF p
  <2> QED BY <2>1, Zenon
<1>3. p = pieces
  OBVIOUS
<1> HIDE DEF p, given
<1>4. given = params
  BY <1>2, <1>3, Zenon
<1>5. Mapped(IF Last(p) = <<>> THEN Front(given) ELSE given) = Mapped(kept)
  BY <1>3, <1>4, Zenon
<1> QED BY <1>1, <1>5, Zenon

\* Names and values encoded, put into a query and read by ParseParams are the pairs they were made
\* of, the last of a name: for every list of pairs of texts.
THEOREM QueriesReadBack ==
  \A pairs \in Seq(Seq(Octets) \X Seq(Octets)) : QueryRoundTrip(pairs)
<1> SUFFICES ASSUME NEW pairs \in Seq(Seq(Octets) \X Seq(Octets)) PROVE QueryRoundTrip(pairs)
  OBVIOUS
<1> DEFINE N == Len(pairs)
           w == [i \in 1 .. N |-> Written(pairs[i])]
           q == [i \in DOMAIN pairs |-> (IF i = 1 THEN <<>> ELSE <<38>>) \o Written(pairs[i])]
           query == FlattenSeq(q)
           read == ParseParams(query, 38, 61)
           kept == [i \in 1 .. N |-> <<UrlEncode(pairs[i][1]), UrlEncode(pairs[i][2])>>]
<1>1. N \in Nat /\ DOMAIN pairs = 1 .. N /\ \A i \in 1 .. N : pairs[i] \in Seq(Octets) \X Seq(Octets)
  BY LenProperties, ElementOfSeq
<1>2. ASSUME NEW i \in 1 .. N
      PROVE  /\ w[i] \in Seq(Octets) /\ w[i] # <<>> /\ \A j \in 1 .. Len(w[i]) : w[i][j] # 38
             /\ Param(w[i], 61) = kept[i]
  <2>1. w[i] = Written(pairs[i]) /\ kept[i] = <<UrlEncode(pairs[i][1]), UrlEncode(pairs[i][2])>>
    OBVIOUS
  <2> HIDE DEF w, kept
  <2> QED BY <1>1, <2>1, WrittenIs
<1>3. w \in Seq(Seq(Octets)) /\ Len(w) = N /\ DOMAIN w = 1 .. N
  <2>1. \A i \in 1 .. N : w[i] \in Seq(Octets)
    BY <1>2
  <2> HIDE DEF N
  <2> QED BY <1>1, <2>1
<1>4. query = Separated(w, 38)
  <2>1. q = [k \in 1 .. Len(w) |-> (IF k = 1 THEN <<>> ELSE <<38>>) \o w[k]]
    BY <1>1, <1>3
  <2> HIDE DEF q
  <2> QED BY <2>1, Zenon DEF Separated
<1>5. read = Mapped(kept)
  <2>1. CASE N = 0
    <3>1. query = <<>>
      <4>1. q = <<>>
        BY <1>1, <2>1
      <4> HIDE DEF q
      <4>2. q \in Seq(Seq(Octets)) /\ Len(q) = 0
        BY <4>1
      <4>3. PICK at : Spread(Octets, q, query, at, Len(q))
        BY <4>2, FlattenIs
      <4>4. query \in Seq(Octets) /\ Len(query) = 0
        BY <4>2, <4>3, Zenon DEF Spread
      <4> QED BY <4>4, EmptyTextIs
    <3> DEFINE pieces == << <<>> >>
               params == [k \in DOMAIN pieces |-> Param(pieces[k], 61)]
    <3>2. Pieces(query, 38) = pieces
      <4> HIDE DEF query
      <4> QED BY <3>1, EmptyPiece
    <3>3. Last(pieces) = <<>> /\ Front(params) = kept
      <4>1. params = << Param(<<>>, 61) >>
        OBVIOUS
      <4>2. Front(params) = <<>>
        BY <4>1 DEF Front
      <4>3. kept = <<>>
        BY <2>1
      <4> QED BY <4>2, <4>3 DEF Last
    <3>4. params = [k \in DOMAIN pieces |-> Param(pieces[k], 61)]
      OBVIOUS
    <3> HIDE DEF query, pieces, params, kept
    <3>5. kept = IF Last(pieces) = <<>> THEN Front(params) ELSE params
      BY <3>3, Zenon
    <3> QED BY <3>2, <3>4, <3>5, QueryRead, Zenon
  <2>2. CASE N # 0
    <3>1. Pieces(query, 38) = w
      <4>1. 38 \in Octets /\ \A i \in 1 .. Len(w) : \A j \in 1 .. Len(w[i]) : w[i][j] # 38
        BY <1>2, <1>3 DEF Octets
      <4>2. Len(w) # 0
        BY <1>3, <2>2
      <4> HIDE DEF w, query
      <4> QED BY <1>3, <1>4, <4>1, <4>2, PiecesAreTexts
    <3> DEFINE params == [k \in DOMAIN w |-> Param(w[k], 61)]
    <3>2. Last(w) # <<>>
      <4>1. N \in 1 .. N /\ Last(w) = w[N]
        BY <1>1, <1>3, <2>2 DEF Last
      <4> HIDE DEF w, N
      <4> QED BY <1>2, <4>1, Zenon
    <3>3. params = kept
      <4>1. \A i \in 1 .. N : Param(w[i], 61) = kept[i]
        BY <1>2
      <4>2. kept = [i \in 1 .. N |-> kept[i]]
        OBVIOUS
      <4> HIDE DEF w, kept, N
      <4>3. params = [i \in 1 .. N |-> Param(w[i], 61)]
        BY <1>3
      <4> QED BY <4>1, <4>2, <4>3
    <3>4. kept = IF Last(w) = <<>> THEN Front(params) ELSE params
      <4> HIDE DEF w, kept, params
      <4> QED BY <3>2, <3>3, Zenon
    <3>5. params = [k \in DOMAIN w |-> Param(w[k], 61)]
      OBVIOUS
    <3> HIDE DEF w, query, kept, params
    <3> QED BY <3>1, <3>4, <3>5, QueryRead, Zenon
  <2> QED BY <2>1, <2>2
<1>6. DecodesTo(kept, pairs)
  <2>1. kept = [i \in 1 .. Len(pairs) |-> <<UrlEncode(pairs[i][1]), UrlEncode(pairs[i][2])>>]
    OBVIOUS
  <2> HIDE DEF kept
  <2> QED BY <2>1, MapIsDecoded
<1>7. {<<UrlDecode(n), UrlDecode(read[n])>> : n \in DOMAIN read} = {pairs[i] : i \in Lasts(pairs)}
  <2> HIDE DEF read, kept
  <2> QED BY <1>5, <1>6, Zenon DEF DecodesTo
<1> QED BY <1>7, Zenon DEF QueryRoundTrip, Lasts, Written

\* What base64.cpp and the URL functions of HttpClient.cpp encode, they decode, whatever it is.
THEOREM TextsAlwaysReadBack == EncSpec => []TextsReadBack
<1>1. EncInit => TextsReadBack
  <2> SUFFICES ASSUME EncInit PROVE TextsReadBack
    OBVIOUS
  <2>1. someOctets \in Seq(Octets) /\ somePairs \in Seq(Seq(Octets) \X Seq(Octets))
    BY DEF EncInit, Octets
  <2> QED BY <2>1, Base64IsRfc4648, Base64ReadsBack, UrlTextsReadBack, QueriesReadBack, Zenon DEF TextsReadBack
<1>2. TextsReadBack /\ [FALSE]_<<someOctets, somePairs>> => TextsReadBack'
  <2> SUFFICES ASSUME TextsReadBack, UNCHANGED <<someOctets, somePairs>> PROVE TextsReadBack'
    OBVIOUS
  <2>1. someOctets' = someOctets /\ somePairs' = somePairs
    OBVIOUS
  <2> QED BY <2>1, Zenon DEF TextsReadBack
<1> QED BY <1>1, <1>2, PTL DEF EncSpec
=============================================================================
