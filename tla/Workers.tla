------------------------------ MODULE Workers ------------------------------
(***************************************************************************)
(* main.cpp: the parent clamps the number of workers, forks them, and      *)
(* waits; each worker makes its own Network_Interface, whose listening     *)
(* socket shares the port with the others (SO_REUSEPORT).  With one worker *)
(* the parent itself serves.  What a process does with its connections is  *)
(* module Reactor.                                                         *)
(*                                                                         *)
(* Process 0 is the parent, 1 .. MaxWorkers are the workers in the order   *)
(* of their forks.                                                         *)
(***************************************************************************)
EXTENDS Integers, Sequences

CONSTANTS
  Asked,        \* what --workers or WS_WORKERS may say
  MaxWorkers    \* 64 in main()

ASSUME WorkersAssumption ==
  /\ Asked \subseteq Int
  /\ MaxWorkers \in Nat \ {0}

VARIABLES
  phase,     \* the parent: "start", "fork", "wait", "serve", "done"
  workers,   \* the number of workers
  kids,      \* kids, the processes forked so far, in order
  proc,      \* proc[p]: "none", "init", "up", "dead" (a zombie for the parent), "reaped"
  termed,    \* processes SIGTERM was sent to by the parent
  code,      \* the exit status the program ended with by itself, or -1
  shot       \* processes ended from outside: a signal, a crash

workerVars == <<phase, workers, kids, proc, termed, code, shot>>

Procs == 0..MaxWorkers

WorkersInit ==
  /\ phase = "start"
  /\ workers = 0
  /\ kids = <<>>
  /\ proc = [p \in Procs |-> "none"]
  /\ termed = {}
  /\ code = -1
  /\ shot = {}

-----------------------------------------------------------------------------
(* main() *)

Clamp(n) == IF n < 1 THEN 1 ELSE IF n > MaxWorkers THEN MaxWorkers ELSE n

Starts ==
  /\ phase = "start"
  /\ \E n \in Asked : workers' = Clamp(n)
  /\ phase' = IF workers' = 1 THEN "serve" ELSE "fork"
  /\ proc' = IF workers' = 1 THEN [proc EXCEPT ![0] = "init"] ELSE proc
  /\ UNCHANGED <<kids, termed, code, shot>>

Fork ==
  /\ phase = "fork"
  /\ Len(kids) < workers
  /\ kids' = Append(kids, Len(kids) + 1)
  /\ proc' = [proc EXCEPT ![Len(kids) + 1] = "init"]
  /\ UNCHANGED <<phase, workers, termed, code, shot>>

\* fork() fails: SIGTERM for all that were forked, and main() returns without
\* waiting for them.
ForkFails ==
  /\ phase = "fork"
  /\ Len(kids) < workers
  /\ termed' = {kids[k] : k \in DOMAIN kids}
  /\ phase' = "done"
  /\ code' = 1
  /\ UNCHANGED <<workers, kids, proc, shot>>

AllForked ==
  /\ phase = "fork"
  /\ Len(kids) = workers
  /\ phase' = "wait"
  /\ UNCHANGED <<workers, kids, proc, termed, code, shot>>

\* wait() returns a process that has ended.
WaitReaps(p) ==
  /\ phase = "wait"
  /\ proc[p] = "dead"
  /\ proc' = [proc EXCEPT ![p] = "reaped"]
  /\ UNCHANGED <<phase, workers, kids, termed, code, shot>>

\* Mutant: the loop ends after one wait().
WaitOnce ==
  /\ phase = "wait"
  /\ \E p \in Procs : proc[p] = "reaped"
  /\ phase' = "done"
  /\ code' = 0
  /\ UNCHANGED <<workers, kids, proc, termed, shot>>

\* Mutant: the loop goes on when wait() fails.
WaitForever ==
  /\ phase = "wait"
  /\ \A p \in Procs : proc[p] \in {"none", "reaped"}
  /\ UNCHANGED workerVars

\* wait() fails: there is no child left.
WaitFails ==
  /\ phase = "wait"
  /\ \A p \in Procs : proc[p] \in {"none", "reaped"}
  /\ phase' = "done"
  /\ code' = 0
  /\ UNCHANGED <<workers, kids, proc, termed, shot>>

-----------------------------------------------------------------------------
(* The processes that serve *)

\* The socket of p is bound and listens.
InitSucceeds(p) ==
  /\ proc[p] = "init"
  /\ proc' = [proc EXCEPT ![p] = "up"]
  /\ UNCHANGED <<phase, workers, kids, termed, code, shot>>

\* The end of a process; nothing makes a new one.  Process 0 ends with the program.
End(p) ==
  /\ proc' = [proc EXCEPT ![p] = "dead"]
  /\ UNCHANGED <<workers, kids, termed>>

\* init() returns -1: exit(1).
InitFails(p) ==
  /\ proc[p] = "init"
  /\ End(p)
  /\ IF p = 0 THEN phase' = "done" /\ code' = 1 ELSE UNCHANGED <<phase, code>>
  /\ UNCHANGED shot

\* SIGTERM takes effect.
Terminated(p) ==
  /\ p \in termed
  /\ proc[p] \in {"init", "up"}
  /\ End(p)
  /\ UNCHANGED <<phase, code, shot>>

\* A process is ended from outside.
Shot(p) ==
  /\ proc[p] \in {"init", "up"}
  /\ End(p)
  /\ shot' = shot \cup {p}
  /\ phase' = IF p = 0 THEN "done" ELSE phase
  /\ UNCHANGED code

\* The parent of several workers is ended from outside: they go on without it.
ParentShot ==
  /\ phase \in {"fork", "wait"}
  /\ phase' = "done"
  /\ UNCHANGED <<workers, kids, proc, termed, code, shot>>

-----------------------------------------------------------------------------
MainStep == Starts \/ Fork \/ ForkFails \/ AllForked \/ (\E p \in Procs : WaitReaps(p)) \/ WaitFails

WorkersNext ==
  \/ MainStep
  \/ ParentShot
  \/ \E p \in Procs : InitSucceeds(p) \/ InitFails(p) \/ Terminated(p) \/ Shot(p)

\* Processes run, and signals are delivered.  Every process does each of these
\* once at most, so that it does not matter that they are fair together.
WorkersFair ==
  WF_workerVars(MainStep \/ \E p \in Procs : InitSucceeds(p) \/ InitFails(p) \/ Terminated(p))

WorkersSpec == WorkersInit /\ [][WorkersNext]_workerVars

-----------------------------------------------------------------------------
WorkersTypes ==
  /\ phase \in {"start", "fork", "wait", "serve", "done"}
  /\ workers \in 0..MaxWorkers
  /\ phase # "start" => workers > 0
  /\ kids \in Seq(1..MaxWorkers)
  /\ proc \in [Procs -> {"none", "init", "up", "dead", "reaped"}]
  /\ termed \subseteq Procs /\ shot \subseteq Procs
  /\ code \in {-1, 0, 1}

\* When main() has returned no worker runs that nobody has told to end: it
\* returns 0 only when all have ended and been waited for, and 1 when all that
\* were forked have ended or were sent SIGTERM.
NoOrphans ==
  phase = "done" =>
    /\ code = 0 => \A p \in Procs : proc[p] \in {"none", "reaped"}
    /\ code = 1 => \A p \in Procs : proc[p] \in {"init", "up"} => p \in termed

\* Types, and no worker left running (main).
WorkersKept == WorkersTypes /\ NoOrphans

\* A fork that fails ends the program, the workers included.
FailedForkEndsAll == phase = "done" /\ code = 1 ~> \A p \in Procs : proc[p] \in {"none", "dead", "reaped"}

\* The parent does not outlive its last worker.
ParentFollows ==
  phase = "wait" /\ (\A p \in 1..workers : proc[p] \in {"dead", "reaped"}) ~> phase = "done"
=============================================================================
