------------------------------- MODULE CsvLog -------------------------------
(***************************************************************************)
(* The log of metadata lines, one file for every hour: CsvLog::write() of  *)
(* src/src/CsvLog.cpp with getOutput(), called by several threads, in a    *)
(* process that may die between any two writes to the file and come back.  *)
(*                                                                         *)
(* An hour is a number, a line a record of its kind, its time and what it  *)
(* says.  Each write to a file reaches it whole, as the code flushes after *)
(* each.  That a file cannot be opened is left out.  WFTime::getHour() and *)
(* format() use the C library's one buffer for broken down times, so that  *)
(* the hour found may be that of a time another thread is formatting.      *)
(***************************************************************************)
EXTENDS Integers, Sequences, SequencesExt

CONSTANTS
  Writers,  \* the threads that log
  HourOf(_) \* the hour of a time

VARIABLES
  files,   \* what is on the disk, by hour
  output,  \* the hour of the file output_, as a set of at most one
  call,    \* each thread's call of write(), or where it is in none
  headless, \* history: the files the process died on before their header
  strayed  \* history: the lines whose hour was another thread's

logVars == <<files, output, call, headless, strayed>>

NoCall == [at |-> "none"]

Header == [kind |-> "header", time |-> 0, says |-> << >>]

LogTypeOK ==
  /\ output \subseteq DOMAIN files
  /\ \A t \in Writers : call[t].at \in {"none", "waiting", "opening", "heading", "writing"}
  /\ headless \subseteq DOMAIN files
  /\ \A line \in strayed : line.kind # "header"

LogInit ==
  /\ files = << >>
  /\ output = {}
  /\ call = [t \in Writers |-> NoCall]
  /\ headless = {}
  /\ strayed = {}

-----------------------------------------------------------------------------
\* Thread t calls write().
Calls(t, line) ==
  /\ call[t] = NoCall
  /\ call' = [call EXCEPT ![t] = [at |-> "waiting", line |-> line, hour |-> HourOf(line.time)]]
  /\ UNCHANGED <<files, output, headless, strayed>>

\* Nobody is inside the mutex.
MutexFree == \A t \in Writers : call[t].at \in {"none", "waiting"}

\* output_ is the file wanted.
IsOpen(h) == h \in output

\* The mutex and getFileName(), and whether the file wanted is open.  The
\* times are those that other threads are formatting.
Enter(t, times) ==
  /\ MutexFree
  /\ call[t].at = "waiting"
  /\ \E h \in {HourOf(time) : time \in times \cup {call[t].line.time}} :
       /\ call' = [call EXCEPT ![t] =
                    [at |-> IF IsOpen(h) THEN "writing" ELSE "opening", line |-> @.line, hour |-> h]]
       /\ strayed' = IF h = HourOf(call[t].line.time) THEN strayed
                     ELSE strayed \cup {call[t].line}
  /\ UNCHANGED <<files, output, headless>>

Goes(t, from, to) ==
  /\ call[t].at = from
  /\ call' = [call EXCEPT ![t] = [@ EXCEPT !.at = to]]

\* A faulty getOutput() that does not ask whether the file exists.
IsAlwaysNew(h) == TRUE

\* Whether the file gets a header.
IsNew(h) == h \notin DOMAIN files

\* The file is created if it does not exist, and appended to if it does.
Open(t) ==
  LET h == call[t].hour IN
  /\ Goes(t, "opening", IF IsNew(h) THEN "heading" ELSE "writing")
  /\ output' = {h}
  /\ files' = [g \in DOMAIN files \cup {h} |-> IF g \in DOMAIN files THEN files[g] ELSE << >>]
  /\ UNCHANGED <<headless, strayed>>

Put(line) == [h \in DOMAIN files |-> IF h \in output THEN Append(files[h], line) ELSE files[h]]

WriteHeader(t) ==
  /\ Goes(t, "heading", "writing")
  /\ files' = Put(Header)
  /\ UNCHANGED <<output, headless, strayed>>

WriteEntry(t) ==
  /\ call[t].at = "writing"
  /\ files' = Put(call[t].line)
  /\ call' = [call EXCEPT ![t] = NoCall]
  /\ UNCHANGED <<output, headless, strayed>>

Logs(t, times) ==
  \/ Enter(t, times)
  \/ Open(t)
  \/ WriteHeader(t)
  \/ WriteEntry(t)

\* The process ends, by a signal or exit(), and begins again.
LogRestarts ==
  /\ output' = {}
  /\ call' = [t \in Writers |-> NoCall]
  /\ headless' = headless \cup {h \in DOMAIN files : files[h] = << >>}
  /\ UNCHANGED <<files, strayed>>

-----------------------------------------------------------------------------
(* Properties.                                                             *)

\* A file begins with its header and has it once, though threads with times
\* of different hours open it again and again and the process may have died:
\* only a file it died on between creating and heading it has none.  And a
\* line is in the file of its own hour, unless the hour was another thread's.
\* (CsvLog.cpp:12-24, 40-53, WFTime.h:146-159.)
FilesAreLogs ==
  \A h \in DOMAIN files : \A i \in DOMAIN files[h] :
    LET line == files[h][i] IN
    /\ (line = Header) = (i = 1 /\ h \notin headless)
    /\ line = Header \/ HourOf(line.time) = h \/ line \in strayed

\* Each line is in the file of its own hour.  It is not when another thread
\* formats a time meanwhile.  (WFTime.h:150, WFTime.cpp:25-27.)
LinesInTheirHour ==
  \A h \in DOMAIN files : \A i \in DOMAIN files[h] :
    files[h][i] = Header \/ HourOf(files[h][i].time) = h
=============================================================================
