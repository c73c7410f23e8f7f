----------------------------- MODULE DebugTrace -----------------------------
(***************************************************************************)
(* common/debugtrace: the one CDebugTrace of a process, used by several    *)
(* threads through TRACE, in the build debugtrace.h makes                  *)
(* (LOG_OUTPUT_TO_FILE_DIRECT: a line goes to the file when it ends).      *)
(* A line is put together part by part in one shared buffer and written    *)
(* to a file named by a prefix and a minute; over a size limit the file    *)
(* changes.  A part is the thread, its place in the line and its length;   *)
(* text is left out.                                                       *)
(***************************************************************************)
EXTENDS Integers, Sequences, FiniteSets

CONSTANTS
  Tracers,      \* threads
  Lines,        \* the argument lists of TRACE: sequences of part lengths
  LogNames,     \* log file names the program sets
  LogNameLen,    \* LogNameLen[p]: strlen(p)
  MaxBuff,      \* DEF_MAX_BUFF_LEN
  MaxFile,      \* muiLogFileSize, in lines
  MaxMinutes,   \* bound: changes of the minute
  MaxLines,     \* bound: lines traced
  MaxSets       \* bound: calls of the setters

ASSUME DebugTraceAssumption ==
  /\ Lines \subseteq Seq(Nat)
  /\ LogNameLen \in [LogNames -> Nat]
  /\ {MaxBuff, MaxFile, MaxMinutes, MaxLines, MaxSets} \subseteq Nat /\ MaxBuff > 0
  /\ "nobody" \notin Tracers

VARIABLES
  moCriticalSection, \* the thread inside, or NoTracer
  tracing,        \* tracing[t]: "out", "locked", "parts", "ended"
  left,           \* left[t]: parts of t's line still to be printed
  mszPrintBuff,   \* the parts printed so far
  mlDataLen,
  muTraceOptions, \* of "Timestamp" and "AppendToFile"
  mszLogFileName, \* the file to write, or NoFile
  lfpTraceFile,   \* the file that is open, or NoFile
  disk,           \* the log files: from names to lines
  minute,         \* the clock
  sets,           \* history: calls of the setters
  meant           \* history: the lines whose EndTrace() reached an open file

traceVars == <<moCriticalSection, tracing, left, mszPrintBuff, mlDataLen, muTraceOptions, mszLogFileName,
               lfpTraceFile, disk, minute, sets, meant>>

NoTracer == "nobody"
NoFile == [pre |-> "none", minute |-> 0, len |-> 0]
DateLen == 17

LogTypeOK ==
  /\ moCriticalSection \in Tracers \cup {NoTracer}
  /\ tracing \in [Tracers -> {"out", "locked", "parts", "ended"}]
  /\ mlDataLen \in 0..MaxBuff
  /\ lfpTraceFile \in DOMAIN disk \cup {NoFile}
  /\ minute \in 0..MaxMinutes

TraceInit ==
  /\ moCriticalSection = NoTracer
  /\ tracing = [t \in Tracers |-> "out"]
  /\ left = [t \in Tracers |-> <<>>]
  /\ mszPrintBuff = <<>> /\ mlDataLen = 0
  /\ muTraceOptions = {"Timestamp", "AppendToFile"}
  /\ mszLogFileName = NoFile /\ lfpTraceFile = NoFile
  /\ disk = << >> /\ minute = 0 /\ sets = 0 /\ meant = <<>>

\* The name the prefix and the minute give.  memcpy() leaves out the terminator, so that what a
\* longer name left behind stays at its end: the length of the name never falls.
Named(pre) ==
  LET len == LogNameLen[pre] + DateLen IN
  [pre |-> pre, minute |-> minute,
   len |-> IF mszLogFileName.len > len THEN mszLogFileName.len ELSE len]

\* SetLogFileName(): its CAutoLock waits for a line that is being traced.
SetLogFileName(pre) ==
  /\ sets < MaxSets /\ moCriticalSection = NoTracer
  /\ lfpTraceFile' = NoFile
  /\ mszLogFileName' = Named(pre)
  /\ sets' = sets + 1
  /\ UNCHANGED <<moCriticalSection, tracing, left, mszPrintBuff, mlDataLen, muTraceOptions, disk, minute, meant>>

\* SetTraceOptions() takes no lock.
SetTraceOptions(options) ==
  /\ sets < MaxSets
  /\ muTraceOptions' = options
  /\ sets' = sets + 1
  /\ UNCHANGED <<moCriticalSection, tracing, left, mszPrintBuff, mlDataLen, mszLogFileName, lfpTraceFile, disk,
                 minute, meant>>

\* The parts TRACE prints for its arguments, numbered, and the line's end.
Parts(line) == [i \in 1..Len(line) + 1 |-> [part |-> i, size |-> Append(line, 1)[i]]]

\* Mutant: TRACE without Lock(), as TraceFormat() is called.
TraceLockFree(t, line) ==
  /\ tracing[t] = "out" /\ Len(meant) < MaxLines
  /\ tracing' = [tracing EXCEPT ![t] = "locked"]
  /\ left' = [left EXCEPT ![t] = Parts(line)]
  /\ UNCHANGED <<moCriticalSection, mszPrintBuff, mlDataLen, muTraceOptions, mszLogFileName, lfpTraceFile, disk,
                 minute, sets, meant>>

\* TRACE: CanTrace() let the line through, Lock() was passed; the parts and the line's end follow.
TraceLock(t, line) ==
  /\ tracing[t] = "out" /\ moCriticalSection = NoTracer /\ Len(meant) < MaxLines
  /\ moCriticalSection' = t
  /\ tracing' = [tracing EXCEPT ![t] = "locked"]
  /\ left' = [left EXCEPT ![t] = Parts(line)]
  /\ UNCHANGED <<mszPrintBuff, mlDataLen, muTraceOptions, mszLogFileName, lfpTraceFile, disk, minute,
                 sets, meant>>

\* BeginTrace(): the buffer is cleared and the time printed, if the options ask for it now.
BeginTrace(t) ==
  /\ tracing[t] = "locked"
  /\ tracing' = [tracing EXCEPT ![t] = "parts"]
  /\ mszPrintBuff' = <<>>
  /\ mlDataLen' = IF "Timestamp" \in muTraceOptions THEN 1 ELSE 0
  /\ UNCHANGED <<moCriticalSection, left, muTraceOptions, mszLogFileName, lfpTraceFile, disk, minute, sets, meant>>

\* operator<<: a part that does not fit with its terminator is left out whole.
PrintPart(t) ==
  /\ tracing[t] = "parts" /\ left[t] # <<>>
  /\ left' = [left EXCEPT ![t] = Tail(@)]
  /\ IF mlDataLen < MaxBuff - Head(left[t]).size
     THEN /\ mszPrintBuff' = Append(mszPrintBuff, [by |-> t, part |-> Head(left[t]).part])
          /\ mlDataLen' = mlDataLen + Head(left[t]).size
     ELSE UNCHANGED <<mszPrintBuff, mlDataLen>>
  /\ UNCHANGED <<moCriticalSection, tracing, muTraceOptions, mszLogFileName, lfpTraceFile, disk, minute, sets, meant>>

\* fopen(name, "a") is granted or not.
Opened(name, granted) == IF granted THEN name ELSE NoFile

LinesOf(file) == IF file \in DOMAIN disk THEN disk[file] ELSE <<>>

\* What EndTrace() writes, for a file that is open.
WriteLine(t, file) ==
  disk' = [f \in DOMAIN disk \cup {file} |->
             IF f = file THEN Append(LinesOf(f), [by |-> t, text |-> mszPrintBuff, at |-> minute]) ELSE disk[f]]

\* EndTrace(): a file over the limit is closed, SetLogFileName() (which enters the section a second
\* time) names the next one by the minute, and the line goes there.
EndTrace(t, granted, again) ==
  /\ tracing[t] = "parts" /\ left[t] = <<>>
  /\ tracing' = [tracing EXCEPT ![t] = "ended"]
  /\ IF "AppendToFile" \in muTraceOptions /\ mszLogFileName # NoFile
     THEN LET file == IF lfpTraceFile = NoFile THEN Opened(mszLogFileName, granted) ELSE lfpTraceFile
              over == file # NoFile /\ Len(LinesOf(file)) > MaxFile
              name == IF over THEN Named(mszLogFileName.pre) ELSE mszLogFileName
              final == IF over THEN Opened(name, again) ELSE file
          IN /\ mszLogFileName' = name /\ lfpTraceFile' = final
             /\ IF final = NoFile
                THEN UNCHANGED <<disk, meant>>
                ELSE WriteLine(t, final) /\ meant' = Append(meant, t)
     ELSE UNCHANGED <<mszLogFileName, lfpTraceFile, disk, meant>>
  /\ UNCHANGED <<moCriticalSection, left, mszPrintBuff, mlDataLen, muTraceOptions, minute, sets>>

TraceUnLock(t) ==
  /\ tracing[t] = "ended"
  /\ moCriticalSection' = NoTracer
  /\ tracing' = [tracing EXCEPT ![t] = "out"]
  /\ UNCHANGED <<left, mszPrintBuff, mlDataLen, muTraceOptions, mszLogFileName, lfpTraceFile, disk,
                 minute, sets, meant>>

MinutePasses ==
  /\ minute < MaxMinutes /\ minute' = minute + 1
  /\ UNCHANGED <<moCriticalSection, tracing, left, mszPrintBuff, mlDataLen, muTraceOptions, mszLogFileName,
                 lfpTraceFile, disk, sets, meant>>

TraceNext ==
  \/ \E t \in Tracers :
       \/ \E line \in Lines : TraceLock(t, line)
       \/ BeginTrace(t) \/ PrintPart(t) \/ TraceUnLock(t)
       \/ \E granted, again \in BOOLEAN : EndTrace(t, granted, again)
  \/ \E pre \in LogNames : SetLogFileName(pre)
  \/ \E options \in SUBSET {"Timestamp", "AppendToFile"} : SetTraceOptions(options)
  \/ MinutePasses

TraceSpec == TraceInit /\ [][TraceNext]_traceVars

-----------------------------------------------------------------------------
LinesBy(t) == UNION {{<<f, i>> : i \in {j \in DOMAIN disk[f] : disk[f][j].by = t}} : f \in DOMAIN disk}

\* A line of a file is parts of one TRACE of one thread, in the order of its arguments: nothing of
\* another thread comes between.
OneSpeaker == \A f \in DOMAIN disk : \A i \in DOMAIN disk[f] :
  LET line == disk[f][i] IN
  /\ \A k \in DOMAIN line.text : line.text[k].by = line.by
  /\ \A k \in 2..Len(line.text) : line.text[k - 1].part < line.text[k].part

\* Every line that found an open file is in one file, over changes of the file's name and size.
NoLineLost == \A t \in Tracers :
  Cardinality(LinesBy(t)) = Cardinality({i \in DOMAIN meant : meant[i] = t})

\* A file grows past the limit by one line, or within the minute it is named by (the next name is
\* then its own).
GrowsWithinItsMinute == \A f \in DOMAIN disk : \A i \in DOMAIN disk[f] :
  i > MaxFile + 1 => disk[f][i].at = f.minute

\* The log of several threads that trace, rename and set options: lines of one thread each, their parts
\* together and in order, less those the buffer had no room for (the newline may be one), each line once,
\* in files that change with size (TRACE, EndTrace).
LogKept == LogTypeOK /\ OneSpeaker /\ NoLineLost /\ GrowsWithinItsMinute
=============================================================================
