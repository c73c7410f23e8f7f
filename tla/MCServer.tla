------------------------------ MODULE MCServer ------------------------------
(***************************************************************************)
(* The two ends of the server that Reactor takes for granted, for TLC: the *)
(* frames of one connection, and main with its workers.  They share no     *)
(* state; one of them moves in each behaviour.                             *)
(***************************************************************************)
EXTENDS FrameReader, Workers

VARIABLE part

F(opcode, masked, ext, high, length) ==
  [opcode |-> opcode, masked |-> masked, ext |-> ext, high |-> high, length |-> length]

\* Text (1) and ping (9), with lengths on both sides of every border of the
\* encoding and of the limit, in every encoding that can hold them.
MCFrames ==
  {F(1, TRUE, 0, 0, 0), F(1, FALSE, 0, 0, 125), F(9, TRUE, 0, 0, 125),
   F(1, TRUE, 2, 0, 126), F(1, FALSE, 2, 0, 5), F(1, TRUE, 2, 0, 65535),
   F(1, TRUE, 8, 0, 65536), F(2, FALSE, 8, 0, 7),
   F(1, TRUE, 8, 0, MaxPayload), F(1, FALSE, 8, 0, MaxPayload),
   F(1, TRUE, 8, 0, MaxPayload + 1), F(1, TRUE, 8, 1, 0), F(1, TRUE, 8, 128, 0)}

\* Numbers of workers below, in and above the range main allows.
MCAsked == {-1, 1, 2, 5}

Init == part \in {"frames", "workers"} /\ ReaderInit /\ WorkersInit

Next ==
  \/ part = "frames" /\ ReaderNext /\ UNCHANGED <<part, workerVars>>
  \/ part = "workers" /\ WorkersNext /\ UNCHANGED <<part, readerVars>>

vars == <<part, readerVars, workerVars>>

Spec == Init /\ [][Next]_vars /\ (part = "frames" => ReaderFair) /\ (part = "workers" => WorkersFair)

(* Written frames are handled. *)
FramesTaken == part = "frames" => WrittenIsTaken

(* The program comes to its end when its parts do (main). *)
WorkersEnd == part = "workers" => FailedForkEndsAll /\ ParentFollows
=============================================================================
