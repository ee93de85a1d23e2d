----------------------- MODULE MessageDispatch_proofs -----------------------
(***************************************************************************)
(* What is proved of MessageDispatch with CsvLog, for any hours, fields,   *)
(* snapshot length and stream, and a process that dies any number of       *)
(* times: the log's files have one header, in front; a snapshot's line is  *)
(* not older than the snapshot, or of nothing at all; an announced meteor  *)
(* is in the log.                                                          *)
(***************************************************************************)
EXTENDS MessageDispatch, SequenceTheorems, TLAPS

-----------------------------------------------------------------------------
(* The log.  One thread at a time is inside the mutex, and the file it is  *)
(* heading is the only empty one the process has not died on.              *)

Reads == UNION {[S -> Values] : S \in SUBSET Fields}

Saying == Seq(Int \cup Snapshots \cup {NoSnapshot} \cup Reads)
Line == [kind : {"snapshot", "meteor"}, time : Int, says : Saying]
Entry == Line \cup {Header}
Hours == {HourOf(time) : time \in Int}

Inside == {"opening", "heading", "writing"}
Call == [at : {"waiting"} \cup Inside, line : Line, hour : Hours]

LogTypes ==
  /\ files = [h \in DOMAIN files |-> files[h]]
  /\ \A h \in DOMAIN files : files[h] \in Seq(Entry)
  /\ call \in [Writers -> {NoCall} \cup Call]
  /\ output \subseteq DOMAIN files
  /\ headless \subseteq DOMAIN files
  /\ strayed \subseteq Line

OneInside ==
  \A t, u \in Writers : call[t].at \in Inside /\ call[u].at \in Inside => t = u

OpenForCaller ==
  /\ \A h, g \in output : h = g
  /\ \A t \in Writers : call[t].at \in {"heading", "writing"} => call[t].hour \in output

HourIsKnown ==
  \A t \in Writers : call[t].at \in Inside =>
    call[t].hour = HourOf(call[t].line.time) \/ call[t].line \in strayed

HeadingEmpty ==
  /\ \A t \in Writers : call[t].at = "heading" =>
       files[call[t].hour] = << >> /\ call[t].hour \notin headless
  /\ \A h \in DOMAIN files : files[h] = << >> =>
       h \in headless \/ \E t \in Writers : call[t].at = "heading" /\ call[t].hour = h

LogIInv ==
  LogTypes /\ OneInside /\ OpenForCaller /\ HourIsKnown /\ HeadingEmpty /\ FilesAreLogs

-----------------------------------------------------------------------------
(* The values.  While a row's fields are being stored, or when the snapshot *)
(* recorder comes first, only those of the row before are sure; and while   *)
(* there was no row, or without a detector, there are none.                 *)

Fresh(n) == \A f \in Fields : values[f] >= n

LatestStored ==
  IF input = "noise" \/ (input \in {"snapshots", "naming"} /\ detector = "last" /\ ~ended)
  THEN /\ rows > first
       /\ rows > first + 1 => Fresh(rows - 2)
       /\ \A f \in stored : values[f] = rows - 1
  ELSE detector # "none" /\ rows > first => Fresh(rows - 1)

NoneStored ==
  detector = "none" \/ rows = first => \A f \in Fields : values[f] = Unset

\* What may be said of a snapshot.
Told(snapshot, value) ==
  IF Heard(snapshot) THEN value >= snapshot.start + snapshot.length - 1 ELSE value = Unset

FreshLine(line) ==
  line.kind = "snapshot" => \A f \in Fields : Told(line.says[1], line.says[2][f])

\* A snapshot nobody has told of is the last, of no rows, or never told of.
Kept(snapshot) ==
  /\ Heard(snapshot) \/ detector = "none" \/ (rows = first /\ ended)
  /\ \A f \in Fields : Told(snapshot, values[f])

\* Where the threads are.
Places ==
  /\ input \in {"noise", "detecting", "logging", "announcing"} =>
       detector # "none" /\ rows > first
  /\ ended => input \in {"idle", "naming"}
  /\ first <= rows /\ first <= next
  /\ ~ended => next = first \/ next <= rows - 2

RowsFresh ==
  /\ Places
  /\ \A f \in Fields : values[f] <= rows - 1
  /\ LatestStored
  /\ NoneStored
  /\ \A i \in DOMAIN queue : Kept(queue[i])
  /\ worker # "idle" => Kept(current)

ReadFresh ==
  /\ read \in Reads
  /\ \A f \in DOMAIN read : Told(current, read[f])

LinesFresh ==
  /\ call["worker"] # NoCall => FreshLine(call["worker"].line)
  /\ call["input"] # NoCall => call["input"].line.kind = "meteor"
  /\ LineIsFresh

ValuesFresh == RowsFresh /\ ReadFresh /\ LinesFresh

-----------------------------------------------------------------------------
(* The announcements.                                                      *)

MeteorLine(line, n) == line.kind = "meteor" /\ line.says = << n >>

InLog(n) == \E line \in Lines : MeteorLine(line, n)

LoggedFirst ==
  /\ input = "announcing" => InLog(rows - 1)
  /\ input = "logging" =>
       IF call["input"] = NoCall THEN InLog(rows - 1)
                                 ELSE MeteorLine(call["input"].line, rows - 1)
  /\ call["input"] # NoCall => input = "logging"
  /\ call["worker"] # NoCall => worker = "logging"
  /\ AnnouncedIsLogged

MessageIInv == MessageTypeOK /\ LogIInv /\ ValuesFresh /\ LoggedFirst

-----------------------------------------------------------------------------
(* The log's steps.                                                        *)

\* A thread is in write() exactly while it has a line.
LEMMA WhereCalls ==
  ASSUME LogTypes, NEW t \in Writers
  PROVE  /\ call[t] = NoCall <=> call[t].at = "none"
         /\ call[t].at # "none" => call[t] \in Call
BY DEF LogTypes, NoCall, Call, Inside

\* A call of write() waits for the mutex.
LEMMA CallsKeepsLog ==
  ASSUME LogIInv, NEW t \in Writers, NEW line \in Line, Calls(t, line)
  PROVE  LogIInv'
<1> USE DEF LogIInv
<1> DEFINE new == [at |-> "waiting", line |-> line, hour |-> HourOf(line.time)]
<1>1. new \in Call /\ new.at = "waiting"
  BY DEF Call, Hours, Line
<1>2. /\ call' = [call EXCEPT ![t] = new]
      /\ UNCHANGED <<files, output, headless, strayed>>
  BY DEF Calls
<1>3. LogTypes'
  BY <1>1, <1>2 DEF LogTypes
<1>4. call'[t] = new /\ \A u \in Writers \ {t} : call'[u] = call[u]
  BY <1>2 DEF LogTypes
<1>5. \A u \in Writers : call'[u].at \in Inside => u # t
  BY <1>1, <1>4 DEF Inside
<1>6. OneInside'
  BY <1>4, <1>5 DEF OneInside
<1>7. OpenForCaller' /\ HourIsKnown'
  BY <1>1, <1>2, <1>4, <1>5 DEF OpenForCaller, HourIsKnown, Inside
<1>8. call[t].at = "none"
  BY WhereCalls DEF Calls
<1>9. HeadingEmpty'
  BY <1>1, <1>2, <1>4, <1>8 DEF HeadingEmpty
<1>10. FilesAreLogs'
  BY <1>2 DEF FilesAreLogs
<1> QED BY <1>3, <1>6, <1>7, <1>9, <1>10

\* Inside the mutex a thread is alone, and its hour is known.
LEMMA EnterKeepsLog ==
  ASSUME LogIInv, NEW t \in Writers, NEW times \in SUBSET Int, Enter(t, times)
  PROVE  LogIInv'
<1> USE DEF LogIInv
<1>1. call[t].at = "waiting" /\ call[t] \in Call
  BY WhereCalls DEF Enter
<1>2. PICK h \in {HourOf(time) : time \in times \cup {call[t].line.time}} :
        /\ call' = [call EXCEPT ![t] =
                      [at |-> IF IsOpen(h) THEN "writing" ELSE "opening", line |-> @.line, hour |-> h]]
        /\ strayed' = IF h = HourOf(call[t].line.time) THEN strayed
                      ELSE strayed \cup {call[t].line}
  BY DEF Enter
<1>3. UNCHANGED <<files, output, headless>>
  BY DEF Enter
<1>4. call[t].line \in Line /\ call[t].line.time \in Int
  BY <1>1 DEF Call, Line
<1>5. h \in Hours
  BY <1>4 DEF Hours
<1> DEFINE new == [at |-> IF IsOpen(h) THEN "writing" ELSE "opening", line |-> call[t].line, hour |-> h]
<1>6. new \in Call /\ new.at = (IF IsOpen(h) THEN "writing" ELSE "opening")
                    /\ new.line = call[t].line /\ new.hour = h
  BY <1>4, <1>5 DEF Call, Inside
<1>7. call' = [call EXCEPT ![t] = new]
  BY <1>2 DEF LogTypes
<1> HIDE DEF new
<1>8. call'[t] = new /\ \A u \in Writers \ {t} : call'[u] = call[u]
  BY <1>7 DEF LogTypes
<1>9. LogTypes'
  <2>1. strayed' \subseteq Line
    BY <1>2, <1>4 DEF LogTypes
  <2> QED BY <1>3, <1>6, <1>7, <2>1 DEF LogTypes
<1>10. \A u \in Writers \ {t} : call[u].at \notin Inside
  BY DEF Enter, MutexFree, Inside
<1>11. OneInside'
  BY <1>8, <1>10 DEF OneInside
<1>12. OpenForCaller'
  BY <1>3, <1>6, <1>8, <1>10 DEF OpenForCaller, IsOpen, Inside
<1>13. HourIsKnown'
  BY <1>2, <1>6, <1>8, <1>10 DEF HourIsKnown
<1>14. HeadingEmpty'
  BY <1>1, <1>3, <1>6, <1>8, <1>10 DEF HeadingEmpty, Inside
<1>15. FilesAreLogs'
  BY <1>2, <1>3 DEF FilesAreLogs
<1> QED BY <1>9, <1>11, <1>12, <1>13, <1>14, <1>15

\* The file that is opened is there then, empty if it is new.
LEMMA OpenKeepsLog ==
  ASSUME LogIInv, NEW t \in Writers, Open(t)
  PROVE  LogIInv' /\ Lines' = Lines
<1> USE DEF LogIInv
<1> DEFINE h == call[t].hour
           at == IF IsNew(h) THEN "heading" ELSE "writing"
           new == [call[t] EXCEPT !.at = at]
<1>1. call[t].at = "opening" /\ call[t] \in Call
  BY WhereCalls DEF Open, Goes
<1>2. /\ call' = [call EXCEPT ![t] = new]
      /\ output' = {h}
      /\ files' = [g \in DOMAIN files \cup {h} |-> IF g \in DOMAIN files THEN files[g] ELSE << >>]
      /\ UNCHANGED <<headless, strayed>>
  BY DEF Open, Goes
<1>3. new \in Call /\ new.at = at /\ new.hour = h /\ new.line = call[t].line
  BY <1>1 DEF Call, Inside
<1> HIDE DEF new
<1>4. call'[t] = new /\ \A u \in Writers \ {t} : call'[u] = call[u]
  BY <1>2 DEF LogTypes
<1>5. /\ DOMAIN files' = DOMAIN files \cup {h}
      /\ files' = [g \in DOMAIN files' |-> files'[g]]
      /\ \A g \in DOMAIN files : files'[g] = files[g]
      /\ h \notin DOMAIN files => files'[h] = << >>
  BY <1>2 DEF LogTypes, IsNew
<1>6. LogTypes'
  <2>1. \A g \in DOMAIN files' : files'[g] \in Seq(Entry)
    <3>1. << >> \in Seq(Entry)
      OBVIOUS
    <3> QED BY <1>5, <3>1 DEF LogTypes
  <2> QED BY <1>2, <1>3, <1>5, <2>1 DEF LogTypes
<1>7. \A u \in Writers \ {t} : call[u].at \notin Inside
  BY <1>1 DEF OneInside, Inside
<1>8. OneInside'
  BY <1>4, <1>7 DEF OneInside
<1>9. OpenForCaller'
  BY <1>2, <1>3, <1>4, <1>7 DEF OpenForCaller, Inside
<1>10. HourIsKnown'
  BY <1>1, <1>2, <1>3, <1>4, <1>7 DEF HourIsKnown, Inside
<1>11. HeadingEmpty'
  <2>1. \A u \in Writers \ {t} : call'[u].at # "heading" /\ call[u].at # "heading"
    BY <1>4, <1>7 DEF Inside
  <2>2. call'[t].at = "heading" <=> h \notin DOMAIN files
    BY <1>3, <1>4 DEF IsNew
  <2>3. h \notin DOMAIN files => h \notin headless
    BY DEF LogTypes
  <2>4. call'[t].hour = h
    BY <1>3, <1>4
  <2>5. \A g \in DOMAIN files : files'[g] = << >> => g \in headless
    BY <1>1, <1>5, <2>1 DEF HeadingEmpty
  <2> QED BY <1>2, <1>5, <2>1, <2>2, <2>3, <2>4, <2>5 DEF HeadingEmpty
<1>12. FilesAreLogs'
  BY <1>2, <1>5 DEF FilesAreLogs
<1>13. Lines' = Lines
  BY <1>5 DEF Lines, Range
<1> QED BY <1>6, <1>8, <1>9, <1>10, <1>11, <1>12, <1>13

\* A line more, in the file that is open.
LEMMA PutKeepsTypes ==
  ASSUME LogTypes, NEW line \in Entry, files' = Put(line)
  PROVE  /\ DOMAIN files' = DOMAIN files
         /\ files' = [h \in DOMAIN files' |-> files'[h]]
         /\ \A h \in DOMAIN files :
              /\ files'[h] \in Seq(Entry)
              /\ h \in output => /\ Len(files'[h]) = Len(files[h]) + 1
                                /\ files'[h][Len(files[h]) + 1] = line
              /\ h \notin output => files'[h] = files[h]
              /\ \A i \in DOMAIN files[h] : i \in DOMAIN files'[h] /\ files'[h][i] = files[h][i]
              /\ \A i \in DOMAIN files'[h] : i \in DOMAIN files[h] \/ files'[h][i] = line
<1>1. DOMAIN files' = DOMAIN files /\ files' = [h \in DOMAIN files' |-> files'[h]]
  BY DEF Put
<1>2. ASSUME NEW h \in DOMAIN files
      PROVE  files[h] \in Seq(Entry)
             /\ files'[h] = IF h \in output THEN Append(files[h], line) ELSE files[h]
  BY <1>2 DEF LogTypes, Put
<1>3. ASSUME NEW s \in Seq(Entry)
      PROVE  /\ Append(s, line) \in Seq(Entry)
             /\ Len(Append(s, line)) = Len(s) + 1
             /\ Append(s, line)[Len(s) + 1] = line
             /\ \A i \in DOMAIN s : i \in DOMAIN Append(s, line) /\ Append(s, line)[i] = s[i]
             /\ \A i \in DOMAIN Append(s, line) : i \in DOMAIN s \/ Append(s, line)[i] = line
  OBVIOUS
<1>4. ASSUME NEW h \in DOMAIN files
      PROVE  /\ files'[h] \in Seq(Entry)
             /\ h \in output => /\ Len(files'[h]) = Len(files[h]) + 1
                               /\ files'[h][Len(files[h]) + 1] = line
             /\ h \notin output => files'[h] = files[h]
             /\ \A i \in DOMAIN files[h] : i \in DOMAIN files'[h] /\ files'[h][i] = files[h][i]
             /\ \A i \in DOMAIN files'[h] : i \in DOMAIN files[h] \/ files'[h][i] = line
  <2>1. CASE h \in output
    <3>1. files'[h] = Append(files[h], line) /\ files[h] \in Seq(Entry)
      BY <1>2, <2>1
    <3> QED BY <1>3, <2>1, <3>1
  <2>2. CASE h \notin output
    BY <1>2, <2>2
  <2> QED BY <2>1, <2>2
<1> QED BY <1>1, <1>4

\* A line is added, none is lost.
LEMMA LinesGrow ==
  ASSUME LogTypes, NEW line \in Entry, files' = Put(line)
  PROVE  Lines \subseteq Lines' /\ Lines' \subseteq Lines \cup {line}
BY PutKeepsTypes DEF Lines, Range

\* A header goes into an empty file.
LEMMA HeaderKeepsLog ==
  ASSUME LogIInv, NEW t \in Writers, WriteHeader(t)
  PROVE  LogIInv' /\ Lines \subseteq Lines' /\ Lines' \subseteq Lines \cup {Header}
<1> USE DEF LogIInv
<1> DEFINE h == call[t].hour
           new == [call[t] EXCEPT !.at = "writing"]
<1>1. call[t].at = "heading" /\ call[t] \in Call
  BY WhereCalls DEF WriteHeader, Goes
<1>2. /\ call' = [call EXCEPT ![t] = new]
      /\ files' = Put(Header)
      /\ UNCHANGED <<output, headless, strayed>>
  BY DEF WriteHeader, Goes
<1>3. new \in Call /\ new.at = "writing" /\ new.hour = h /\ new.line = call[t].line
  BY <1>1 DEF Call, Inside
<1> HIDE DEF new
<1>4. call'[t] = new /\ \A u \in Writers \ {t} : call'[u] = call[u]
  BY <1>2 DEF LogTypes
<1>5. Header \in Entry
  BY DEF Entry
<1>6. /\ DOMAIN files' = DOMAIN files
      /\ files' = [g \in DOMAIN files' |-> files'[g]]
      /\ \A g \in DOMAIN files : files'[g] \in Seq(Entry)
  BY <1>2, <1>5, PutKeepsTypes
<1>7. LogTypes'
  BY <1>2, <1>3, <1>6 DEF LogTypes
<1>8. \A u \in Writers \ {t} : call[u].at \notin Inside
  BY <1>1 DEF OneInside, Inside
<1>9. OneInside'
  BY <1>4, <1>8 DEF OneInside
<1>10. OpenForCaller'
  BY <1>1, <1>2, <1>3, <1>4, <1>8 DEF OpenForCaller, Inside
<1>11. HourIsKnown'
  BY <1>1, <1>2, <1>3, <1>4, <1>8 DEF HourIsKnown, Inside
<1>12. output = {h} /\ h \in DOMAIN files /\ files[h] = << >> /\ h \notin headless
  BY <1>1 DEF OpenForCaller, HeadingEmpty, LogTypes
<1>13. files'[h] = << Header >> /\ << Header >> # << >>
  <2>1. files'[h] = Append(files[h], Header)
    BY <1>2, <1>12 DEF Put
  <2>2. Append(<< >>, Header) = << Header >> /\ << Header >> # << >>
    OBVIOUS
  <2> QED BY <1>12, <2>1, <2>2
<1>14. \A g \in DOMAIN files \ {h} : files'[g] = files[g]
  BY <1>2, <1>12 DEF Put
<1>15. HeadingEmpty'
  <2>1. \A u \in Writers : call'[u].at # "heading"
    BY <1>3, <1>4, <1>8 DEF Inside
  <2>2. \A g \in DOMAIN files \ {h} : files[g] = << >> => g \in headless
    BY <1>8 DEF HeadingEmpty, Inside
  <2> QED BY <1>2, <1>6, <1>13, <1>14, <2>1, <2>2 DEF HeadingEmpty
<1>16. FilesAreLogs'
  <2>1. \A i \in DOMAIN files'[h] : i = 1 /\ files'[h][i] = Header
    BY <1>13
  <2> QED BY <1>2, <1>6, <1>12, <1>14, <2>1 DEF FilesAreLogs
<1> QED BY <1>2, <1>5, <1>7, <1>9, <1>10, <1>11, <1>15, <1>16, LinesGrow

\* A line goes into a file that has its header, or is known to have none.
LEMMA EntryKeepsLog ==
  ASSUME LogIInv, NEW t \in Writers, WriteEntry(t)
  PROVE  LogIInv' /\ Lines \subseteq Lines' /\ Lines' \subseteq Lines \cup {call[t].line}
                  /\ call[t].line \in Lines'
<1> USE DEF LogIInv
<1> DEFINE h == call[t].hour
           line == call[t].line
<1>1. call[t].at = "writing" /\ call[t] \in Call
  BY WhereCalls DEF WriteEntry
<1>2. /\ call' = [call EXCEPT ![t] = NoCall]
      /\ files' = Put(line)
      /\ UNCHANGED <<output, headless, strayed>>
  BY DEF WriteEntry
<1>3. line \in Line /\ line \in Entry /\ line # Header
  BY <1>1 DEF Call, Line, Entry, Header
<1>4. call'[t] = NoCall /\ \A u \in Writers \ {t} : call'[u] = call[u]
  BY <1>2 DEF LogTypes
<1>5. /\ DOMAIN files' = DOMAIN files
      /\ files' = [g \in DOMAIN files' |-> files'[g]]
      /\ \A g \in DOMAIN files : files'[g] \in Seq(Entry)
  BY <1>2, <1>3, PutKeepsTypes
<1>6. LogTypes'
  BY <1>2, <1>5 DEF LogTypes
<1>7. \A u \in Writers \ {t} : call[u].at \notin Inside
  BY <1>1 DEF OneInside, Inside
<1>8. call'[t].at \notin Inside /\ call'[t].at # "heading"
  BY <1>4 DEF NoCall, Inside
<1>9. OneInside' /\ OpenForCaller' /\ HourIsKnown'
  BY <1>2, <1>4, <1>7, <1>8 DEF OneInside, OpenForCaller, HourIsKnown, Inside
<1>10. output = {h} /\ h \in DOMAIN files
  BY <1>1 DEF OpenForCaller, LogTypes
<1>11. files[h] = << >> => h \in headless
  BY <1>1, <1>7, <1>10 DEF HeadingEmpty, Inside
<1>12. files'[h] = Append(files[h], line) /\ \A g \in DOMAIN files \ {h} : files'[g] = files[g]
  BY <1>2, <1>10 DEF Put
<1>13. HeadingEmpty'
  <2>1. \A u \in Writers : call'[u].at # "heading"
    BY <1>4, <1>7, <1>8 DEF Inside
  <2>2. \A g \in DOMAIN files \ {h} : files[g] = << >> => g \in headless
    BY <1>1, <1>7 DEF HeadingEmpty, Inside
  <2>3. files'[h] # << >>
    <3>1. files[h] \in Seq(Entry)
      BY <1>10 DEF LogTypes
    <3> QED BY <1>3, <1>12, <3>1
  <2> QED BY <1>2, <1>5, <1>12, <2>1, <2>2, <2>3 DEF HeadingEmpty
<1>14. FilesAreLogs'
  <2>1. HourOf(line.time) = h \/ line \in strayed
    BY <1>1 DEF HourIsKnown, Inside
  <2>2. files[h] \in Seq(Entry) /\ Len(files[h]) \in Nat
    BY <1>10 DEF LogTypes
  <2>3. \A i \in DOMAIN files'[h] :
          \/ i \in DOMAIN files[h] /\ files'[h][i] = files[h][i]
          \/ i = Len(files[h]) + 1 /\ files'[h][i] = line
    BY <1>3, <1>12, <2>2
  <2>4. Len(files[h]) + 1 = 1 => h \in headless
    BY <1>11, <2>2
  <2>5. ASSUME NEW g \in DOMAIN files', NEW i \in DOMAIN files'[g]
        PROVE  /\ (files'[g][i] = Header) = (i = 1 /\ g \notin headless')
               /\ \/ files'[g][i] = Header
                  \/ HourOf(files'[g][i].time) = g
                  \/ files'[g][i] \in strayed'
    <3>1. CASE g = h /\ i \in DOMAIN files[h]
      <4>1. files'[g][i] = files[h][i]
        BY <2>2, <2>3, <3>1
      <4>2. /\ (files[h][i] = Header) = (i = 1 /\ h \notin headless)
            /\ \/ files[h][i] = Header
               \/ HourOf(files[h][i].time) = h
               \/ files[h][i] \in strayed
        BY <1>10, <3>1 DEF FilesAreLogs
      <4> QED BY <1>2, <3>1, <4>1, <4>2
    <3>2. CASE g = h /\ i \notin DOMAIN files[h]
      BY <1>2, <1>3, <2>1, <2>2, <2>3, <2>4, <3>2
    <3>3. CASE g # h
      BY <1>2, <1>5, <1>12, <3>3 DEF FilesAreLogs
    <3> QED BY <3>1, <3>2, <3>3
  <2> QED BY <2>5 DEF FilesAreLogs
<1>15. line \in Lines'
  BY <1>2, <1>3, <1>5, <1>10, PutKeepsTypes DEF Lines, Range
<1> QED BY <1>2, <1>3, <1>6, <1>9, <1>13, <1>14, <1>15, LinesGrow

\* The process may die at any of these points.
LEMMA RestartKeepsLog ==
  ASSUME LogIInv, LogRestarts
  PROVE  LogIInv' /\ Lines' = Lines
<1> USE DEF LogIInv
<1>1. /\ output' = {}
      /\ call' = [t \in Writers |-> NoCall]
      /\ headless' = headless \cup {h \in DOMAIN files : files[h] = << >>}
      /\ files' = files /\ strayed' = strayed
  BY DEF LogRestarts
<1>2. \A t \in Writers : call'[t].at = "none"
  BY <1>1 DEF NoCall
<1>3. LogTypes' /\ OneInside' /\ OpenForCaller' /\ HourIsKnown'
  BY <1>1, <1>2 DEF LogTypes, OneInside, OpenForCaller, HourIsKnown, Inside
<1>4. HeadingEmpty'
  BY <1>1, <1>2 DEF HeadingEmpty
<1>5. FilesAreLogs'
  BY <1>1 DEF FilesAreLogs, LogTypes
<1> QED BY <1>1, <1>3, <1>4, <1>5 DEF Lines

\* A thread's line stays its own until it is in a file.
LEMMA LineGoesToFile ==
  ASSUME LogIInv, NEW t \in Writers, NEW times \in SUBSET Int, Logs(t, times)
  PROVE  /\ LogIInv'
         /\ Lines \subseteq Lines' /\ Lines' \subseteq Lines \cup {Header, call[t].line}
         /\ call[t] # NoCall /\ call[t] \in Call
         /\ \A u \in Writers \ {t} : call'[u] = call[u]
         /\ IF call'[t] = NoCall THEN call[t].line \in Lines' ELSE call'[t].line = call[t].line
<1> USE DEF LogIInv
<1>1. CASE Enter(t, times)
  <2>1. call[t].at = "waiting" /\ call[t] \in Call /\ call[t] # NoCall
    BY <1>1, WhereCalls DEF Enter
  <2>2. PICK h \in {HourOf(time) : time \in times \cup {call[t].line.time}} :
          call' = [call EXCEPT ![t] =
                    [at |-> IF IsOpen(h) THEN "writing" ELSE "opening", line |-> @.line, hour |-> h]]
    BY <1>1 DEF Enter
  <2>3. call'[t].line = call[t].line /\ \A u \in Writers \ {t} : call'[u] = call[u]
    BY <2>2 DEF LogTypes
  <2>4. call'[t].at # "none"
    BY <2>2 DEF LogTypes
  <2>5. Lines' = Lines
    BY <1>1 DEF Enter, Lines
  <2> QED BY <1>1, <2>1, <2>3, <2>4, <2>5, EnterKeepsLog DEF NoCall
<1>2. ASSUME NEW from \in Inside, NEW to \in Inside, Goes(t, from, to)
      PROVE  /\ call[t] # NoCall /\ call[t] \in Call /\ call'[t] # NoCall
             /\ call'[t].line = call[t].line /\ \A u \in Writers \ {t} : call'[u] = call[u]
  <2>1. call[t] \in Call /\ call[t] # NoCall
    BY <1>2, WhereCalls DEF Goes, Inside
  <2>2. call' = [call EXCEPT ![t] = [@ EXCEPT !.at = to]]
    BY <1>2 DEF Goes
  <2>3. [call[t] EXCEPT !.at = to].line = call[t].line /\ [call[t] EXCEPT !.at = to].at = to
    BY <2>1 DEF Call
  <2>4. call'[t] = [call[t] EXCEPT !.at = to] /\ \A u \in Writers \ {t} : call'[u] = call[u]
    BY <2>2 DEF LogTypes
  <2>5. call'[t].at # "none"
    BY <2>3, <2>4 DEF Inside
  <2> QED BY <2>1, <2>3, <2>4, <2>5 DEF NoCall
<1>3. CASE Open(t)
  <2>1. \E to \in Inside : Goes(t, "opening", to)
    BY <1>3 DEF Open, Inside
  <2> QED BY <1>2, <1>3, <2>1, OpenKeepsLog DEF Inside
<1>4. CASE WriteHeader(t)
  <2>1. Goes(t, "heading", "writing")
    BY <1>4 DEF WriteHeader
  <2> QED BY <1>2, <1>4, <2>1, HeaderKeepsLog DEF Inside
<1>5. CASE WriteEntry(t)
  <2>1. call[t] \in Call /\ call[t] # NoCall
    BY <1>5, WhereCalls DEF WriteEntry
  <2>2. call'[t] = NoCall /\ \A u \in Writers \ {t} : call'[u] = call[u]
    BY <1>5 DEF WriteEntry, LogTypes
  <2> QED BY <1>5, <2>1, <2>2, EntryKeepsLog
<1> QED BY <1>1, <1>3, <1>4, <1>5 DEF Logs

\* CsvLog's own type invariant.
LEMMA LogTypeFollows == LogIInv => LogTypeOK
<1> SUFFICES ASSUME LogIInv PROVE LogTypeOK
  OBVIOUS
<1>1. \A t \in Writers : call[t].at \in {"none", "waiting", "opening", "heading", "writing"}
  BY WhereCalls DEF LogIInv, Call, Inside
<1>2. \A line \in strayed : line.kind # "header"
  BY DEF LogIInv, LogTypes, Line
<1> QED BY <1>1, <1>2 DEF LogIInv, LogTypes, LogTypeOK

\* A worker that has read no field.
LEMMA NothingRead == << >> \in Reads
<1>1. << >> \in [{} -> Values]
  OBVIOUS
<1>2. {} \in SUBSET Fields
  OBVIOUS
<1> QED BY <1>1, <1>2 DEF Reads

\* The program begins in it.
LEMMA InitInvariant == MessageInit => MessageIInv
<1> SUFFICES ASSUME MessageInit PROVE MessageIInv
  OBVIOUS
<1> USE MessageAssumption
<1>1. /\ files = << >> /\ DOMAIN files = {} /\ output = {} /\ headless = {} /\ strayed = {}
      /\ call = [t \in Writers |-> NoCall]
  BY DEF MessageInit, LogInit
<1>2. \A t \in Writers : call[t].at = "none"
  BY <1>1 DEF NoCall
<1>3. LogTypes
  <2>1. files = [h \in DOMAIN files |-> files[h]]
    BY <1>1
  <2> QED BY <1>1, <2>1 DEF LogTypes
<1>4. OneInside /\ OpenForCaller /\ HourIsKnown /\ HeadingEmpty /\ FilesAreLogs
  BY <1>1, <1>2 DEF OneInside, OpenForCaller, HourIsKnown, HeadingEmpty, FilesAreLogs, Inside
<1>5. LogIInv
  BY <1>3, <1>4 DEF LogIInv
<1>6. MessageTypeOK
  <2>1. midiQueue \in Seq(Nat) /\ queue \in Seq(Snapshots)
    BY DEF MessageInit, MidiInit
  <2>2. values \in [Fields -> Values]
    BY DEF MessageInit, Values, Unset
  <2>3. stored \subseteq Fields /\ DOMAIN read \subseteq Fields
    BY DEF MessageInit
  <2>4. midiMessageWaiting \in BOOLEAN /\ {listening, ended} \subseteq BOOLEAN
    BY DEF MessageInit, MidiInit
  <2>5. rows = 0 /\ first = 0 /\ next = 0 /\ input = "idle" /\ worker = "idle"
        /\ detector \in {"first", "last", "none"} /\ current = NoSnapshot
    BY DEF MessageInit
  <2>6. {rows, first} \subseteq 0..MaxRows /\ next \in 0..(MaxRows + SnapshotRows)
    BY <2>5, MessageAssumption
  <2> QED BY <1>5, <2>1, <2>2, <2>3, <2>4, <2>5, <2>6, LogTypeFollows DEF MessageTypeOK
<1>7. Lines = {}
  BY <1>1 DEF Lines
<1>8. read \in Reads
  BY NothingRead DEF MessageInit
<1>9. ValuesFresh
  BY <1>1, <1>7, <1>8 DEF MessageInit, ValuesFresh, RowsFresh, Places, NoneStored,
                             ReadFresh, LinesFresh, LatestStored, LineIsFresh, Unset
<1>10. LoggedFirst
  BY <1>1, <1>7 DEF MessageInit, MidiInit, LoggedFirst, AnnouncedIsLogged
<1> QED BY <1>5, <1>6, <1>9, <1>10 DEF MessageIInv

-----------------------------------------------------------------------------
(* The steps of the whole.                                                 *)

\* What the types say of the row numbers.
LEMMA TypesAsNumbers ==
  ASSUME MessageTypeOK
  PROVE  /\ MaxRows \in Nat /\ SnapshotRows \in Nat /\ SnapshotRows > 0
         /\ rows \in Nat /\ first \in Nat /\ next \in Nat
         /\ rows <= MaxRows /\ first <= MaxRows /\ next <= MaxRows + SnapshotRows
         /\ current.start \in Nat /\ current.length \in Nat /\ current.sent \in Nat
<1>1. {SnapshotRows, MaxRows} \subseteq Nat /\ SnapshotRows > 0
  BY MessageAssumption
<1>2. rows \in 0..MaxRows /\ first \in 0..MaxRows /\ next \in 0..(MaxRows + SnapshotRows)
  BY DEF MessageTypeOK
<1>3. current.start \in Nat /\ current.length \in Nat /\ current.sent \in Nat
  BY DEF MessageTypeOK, Snapshots, NoSnapshot
<1> QED BY <1>1, <1>2, <1>3

\* What is logged has the form of a line, and times are numbers.
LEMMA LinesMade ==
  ASSUME MessageTypeOK, read \in Reads
  PROVE  /\ [kind |-> "meteor", time |-> rows, says |-> << rows - 1 >>] \in Line
         /\ [kind |-> "snapshot", time |-> TimeOf(current.start), says |-> << current, read >>] \in Line
         /\ \A t \in Writers : FormattedBesides(t) \in SUBSET Int
<1>1. /\ rows \in Int /\ rows - 1 \in Int /\ current \in Snapshots \cup {NoSnapshot}
      /\ TimeOf(current.start) \in Int /\ TimeOf(next) \in Int
  BY TypesAsNumbers DEF TimeOf, NoTime, MessageTypeOK
<1>2. << rows - 1 >> \in Saying
  BY <1>1 DEF Saying
<1>3. << current, read >> \in Saying
  BY <1>1 DEF Saying
<1> QED BY <1>1, <1>2, <1>3 DEF Line, FormattedBesides

\* Each step keeps the log a log.
LEMMA LogStep == MessageIInv /\ [MessageNext]_messageVars => LogIInv'
<1> SUFFICES ASSUME MessageIInv, [MessageNext]_messageVars PROVE LogIInv'
  OBVIOUS
<1> USE DEF MessageIInv
<1>1. MessageTypeOK /\ read \in Reads /\ {"input", "worker"} \subseteq Writers
  BY MessageAssumption DEF ValuesFresh, ReadFresh
<1>2. CASE UNCHANGED logVars
  BY <1>2 DEF logVars, LogIInv, LogTypes, OneInside, OpenForCaller, HourIsKnown, HeadingEmpty,
              FilesAreLogs
<1>3. CASE LogMeteor
  <2>1. Calls("input", [kind |-> "meteor", time |-> rows, says |-> << rows - 1 >>])
    BY <1>3 DEF LogMeteor
  <2> QED BY <1>1, <2>1, LinesMade, CallsKeepsLog
<1>4. CASE LogSnapshot
  <2>1. Calls("worker", [kind |-> "snapshot", time |-> TimeOf(current.start), says |-> << current, read >>])
    BY <1>4 DEF LogSnapshot
  <2> QED BY <1>1, <2>1, LinesMade, CallsKeepsLog
<1>5. ASSUME NEW t \in Writers, LineWritten(t) PROVE LogIInv'
  <2>1. Logs(t, FormattedBesides(t))
    BY <1>5 DEF LineWritten
  <2> QED BY <1>1, <2>1, LinesMade, LineGoesToFile
<1>6. CASE Restart
  BY <1>6, RestartKeepsLog DEF Restart
<1>7. ASSUME NEW f \in Fields, StoreField(f) \/ ReadField(f) PROVE UNCHANGED logVars
  BY <1>7 DEF StoreField, ReadField
<1>8. CASE InputRuns
  <2>1. CASE \/ BeginPeriod \/ NewRow \/ NoMeteor \/ DispatchBolid \/ Announce
             \/ UpdateSnapshots \/ NameNext \/ ReadFlag \/ EndPeriod
    BY <1>2, <2>1 DEF BeginPeriod, NewRow, NoMeteor, DispatchBolid, Announce, UpdateSnapshots,
                      NameNext, ReadFlag, EndPeriod
  <2> QED BY <1>1, <1>2, <1>3, <1>5, <1>7, <1>8, <2>1 DEF InputRuns
<1>9. CASE WorkerRuns
  <2>1. CASE TakeSnapshot \/ SnapshotLogged \/ WriteFile
    BY <1>2, <2>1 DEF TakeSnapshot, SnapshotLogged, WriteFile
  <2> QED BY <1>1, <1>2, <1>4, <1>5, <1>7, <1>9, <2>1 DEF WorkerRuns
<1>10. CASE AddListeners \/ EndStream
  BY <1>2, <1>10 DEF AddListeners, EndStream
<1>11. CASE UNCHANGED messageVars
  BY <1>2, <1>11 DEF messageVars
<1> QED BY <1>6, <1>8, <1>9, <1>10, <1>11 DEF MessageNext

\* What startWriting() sends, and how far it goes.
LEMMA SnapshotSent ==
  ASSUME MessageTypeOK, Places, ~ended, SendSnapshot
  PROVE  \E new \in Snapshots :
           /\ new.start = next /\ new.sent = rows
           /\ queue' = Append(queue, new)
           /\ next' = next + new.length
           /\ rows > next => next + new.length <= rows
           /\ Full => new.length = SnapshotRows
           /\ rows > next \/ (rows = next /\ rows = first)
<1> DEFINE length == CutLength(Available)
           new == [start |-> next, length |-> length, sent |-> rows]
<1>1. /\ SnapshotRows \in Nat /\ SnapshotRows > 0 /\ next \in Nat /\ rows \in 0..MaxRows
      /\ first \in Nat /\ rows \in Nat /\ MaxRows \in Nat
  BY TypesAsNumbers DEF MessageTypeOK
<1>2. rows > next \/ (rows = next /\ rows = first)
  BY <1>1 DEF Places
<1>3. next \in 0..MaxRows
  BY <1>1, <1>2
<1>4. /\ length \in 1..SnapshotRows
      /\ rows > next => next + length <= rows
      /\ Full => length = SnapshotRows
  BY <1>1, <1>2 DEF CutLength, Available, Full
<1>5. queue' = Append(queue, new) /\ next' = next + length
  BY DEF SendSnapshot
<1> HIDE DEF length
<1>6. new \in Snapshots /\ new.start = next /\ new.sent = rows /\ new.length = length
  BY <1>1, <1>3, <1>4 DEF Snapshots
<1> QED BY <1>2, <1>4, <1>5, <1>6

\* Each step keeps the types.
LEMMA TypeStep == MessageIInv /\ [MessageNext]_messageVars => MessageTypeOK'
<1> SUFFICES ASSUME MessageIInv, [MessageNext]_messageVars PROVE MessageTypeOK'
  OBVIOUS
<1>1. LogTypeOK'
  BY LogStep, LogTypeFollows, PTL
<1>2. /\ MessageTypeOK /\ MaxRows \in Nat /\ SnapshotRows \in Nat /\ SnapshotRows > 0
      /\ Places /\ rows \in Nat /\ first \in Nat
  BY TypesAsNumbers DEF MessageIInv, ValuesFresh, RowsFresh
<1> USE DEF midiVars, inputVars, workerVars, boundVars
<1>3. CASE BeginPeriod
  BY <1>1, <1>2, <1>3 DEF MessageTypeOK, BeginPeriod, InputAt
<1>4. CASE NewRow
  BY <1>1, <1>2, <1>4 DEF MessageTypeOK, NewRow, InputAt
<1>5. CASE NoMeteor
  BY <1>1, <1>2, <1>5 DEF MessageTypeOK, NoMeteor, InputAt, AfterBolid
<1>6. CASE LogMeteor
  BY <1>1, <1>2, <1>6 DEF MessageTypeOK, LogMeteor, InputAt
<1>7. CASE DispatchBolid
  BY <1>1, <1>2, <1>7 DEF MessageTypeOK, DispatchBolid, MeteorLogged, AfterBolid
<1>8. CASE Announce
  <2>1. midiQueue \in Seq(Nat) /\ rows - 1 \in Nat
    BY <1>2, <1>8 DEF MessageTypeOK, Places, Announce, InputAt
  <2>2. midiQueue' \in Seq(Nat) /\ midiMessageWaiting' \in BOOLEAN
    BY <1>8, <2>1 DEF Announce, PushMidi
  <2> QED BY <1>1, <1>2, <1>8, <2>2 DEF MessageTypeOK, Announce, InputAt, AfterBolid
<1>9. ASSUME ~ended, SendSnapshot
      PROVE  queue' \in Seq(Snapshots) /\ next' \in 0..(MaxRows + SnapshotRows)
  <2>1. PICK new \in Snapshots :
          /\ new.start = next /\ queue' = Append(queue, new) /\ next' = next + new.length
    BY <1>2, <1>9, SnapshotSent
  <2>2. queue \in Seq(Snapshots)
    BY <1>2 DEF MessageTypeOK
  <2>3. new.start \in 0..MaxRows /\ new.length \in 1..SnapshotRows
    BY DEF Snapshots
  <2> QED BY <1>2, <2>1, <2>2, <2>3
<1>10. CASE UpdateSnapshots
  <2>1. ~ended
    BY <1>2, <1>10 DEF UpdateSnapshots, InputAt, Places
  <2>2. queue' \in Seq(Snapshots) /\ next' \in 0..(MaxRows + SnapshotRows)
    BY <1>2, <1>9, <1>10, <2>1 DEF UpdateSnapshots, MessageTypeOK
  <2> QED BY <1>1, <1>2, <1>10, <2>2 DEF MessageTypeOK, UpdateSnapshots, InputAt, AfterSnapshots
<1>11. CASE EndStream
  <2>1. queue' \in Seq(Snapshots) /\ next' \in 0..(MaxRows + SnapshotRows)
    BY <1>9, <1>11 DEF EndStream
  <2> QED BY <1>1, <1>2, <1>11, <2>1 DEF MessageTypeOK, EndStream, InputAt
<1>12. CASE NameNext
  BY <1>1, <1>2, <1>12 DEF MessageTypeOK, NameNext, InputAt, AfterSnapshots
<1>13. CASE ReadFlag
  BY <1>1, <1>2, <1>13 DEF MessageTypeOK, ReadFlag, InputAt
<1>14. CASE EndPeriod
  <2>1. midiQueue \in Seq(Nat) /\ midiMessageWaiting \in BOOLEAN
    BY <1>2 DEF MessageTypeOK
  <2>2. midiQueue' \in Seq(Nat)
    BY <1>14, <2>1 DEF EndPeriod, SendMidi
  <2>3. midiMessageWaiting' \in BOOLEAN
    BY <1>14, <2>1 DEF EndPeriod, SendMidi, StillWaiting
  <2>4. UNCHANGED <<detector, listening, ended, rows, first, next, stored, queue, values,
                    worker, current, read>>
    BY <1>14 DEF EndPeriod
  <2> QED BY <1>1, <1>2, <1>14, <2>2, <2>3, <2>4 DEF MessageTypeOK, EndPeriod, InputAt
<1>15. CASE TakeSnapshot
  <2>1. queue \in Seq(Snapshots) /\ queue # << >>
    BY <1>2, <1>15 DEF MessageTypeOK, TakeSnapshot
  <2>2. Head(queue) \in Snapshots /\ Tail(queue) \in Seq(Snapshots)
    BY <2>1
  <2>3. /\ current' = Head(queue) /\ queue' = Tail(queue) /\ worker' = "reading" /\ read' = << >>
        /\ UNCHANGED <<midiVars, inputVars, values>>
    BY <1>15 DEF TakeSnapshot
  <2>4. DOMAIN read' \subseteq Fields
    BY <2>3
  <2> QED BY <1>1, <1>2, <2>2, <2>3, <2>4 DEF MessageTypeOK
<1>16. CASE LogSnapshot
  BY <1>1, <1>2, <1>16 DEF MessageTypeOK, LogSnapshot
<1>17. CASE SnapshotLogged
  BY <1>1, <1>2, <1>17 DEF MessageTypeOK, SnapshotLogged
<1>18. CASE WriteFile
  BY <1>1, <1>2, <1>18 DEF MessageTypeOK, WriteFile
<1>19. CASE AddListeners
  BY <1>1, <1>2, <1>19 DEF MessageTypeOK, AddListeners
<1>20. CASE Restart
  <2>1. midiQueue' \in Seq(Nat) /\ queue' \in Seq(Snapshots)
    BY <1>20 DEF Restart, ProgramBegins
  <2>2. values' \in [Fields -> Values]
    BY <1>2, <1>20 DEF Restart, ProgramBegins, Values, Unset
  <2>3. DOMAIN read' \subseteq Fields
    BY <1>20 DEF Restart, ProgramBegins
  <2>4. /\ midiMessageWaiting' \in BOOLEAN /\ {listening, ended}' \subseteq BOOLEAN
        /\ detector' = detector /\ stored' = {} /\ current' = NoSnapshot
        /\ input' = "idle" /\ worker' = "idle"
    BY <1>20 DEF Restart, ProgramBegins
  <2>5. {rows, first}' \subseteq 0..MaxRows /\ next' \in 0..(MaxRows + SnapshotRows)
    BY <1>2, <1>20 DEF MessageTypeOK, Restart, ProgramBegins
  <2> QED BY <1>1, <1>2, <2>1, <2>2, <2>3, <2>4, <2>5 DEF MessageTypeOK
<1>21. CASE UNCHANGED messageVars
  BY <1>1, <1>2, <1>21 DEF MessageTypeOK, messageVars
<1>22. ASSUME NEW f \in Fields, StoreField(f) PROVE MessageTypeOK'
  <2>1. values' \in [Fields -> Values]
    BY <1>2, <1>22 DEF MessageTypeOK, StoreField, Values
  <2> QED BY <1>1, <1>2, <1>22, <2>1 DEF MessageTypeOK, StoreField
<1>23. ASSUME NEW f \in Fields, ReadField(f) PROVE MessageTypeOK'
  BY <1>1, <1>2, <1>23 DEF MessageTypeOK, ReadField
<1>24. ASSUME NEW t \in Writers, LineWritten(t) PROVE MessageTypeOK'
  BY <1>1, <1>2, <1>24 DEF MessageTypeOK, LineWritten
<1>25. {"input", "worker"} \subseteq Writers
  BY MessageAssumption
<1> QED BY <1>3, <1>4, <1>5, <1>6, <1>7, <1>8, <1>10, <1>11, <1>12, <1>13, <1>14, <1>15, <1>16, <1>17, <1>18, <1>19, <1>20, <1>21, <1>22, <1>23, <1>24, <1>25
     DEF MessageNext, InputRuns, WorkerRuns

\* A snapshot that may be written may be written for good.
LEMMA KeptStays ==
  ASSUME NEW snapshot,
         UNCHANGED <<detector, rows, first, values>>, ended => ended', Kept(snapshot)
  PROVE  Kept(snapshot)'
BY DEF Kept, Heard, Told

\* One that startWriting() sends may be written: the values are of a row
\* behind its last one, or there are none.
LEMMA SentIsKept ==
  ASSUME MessageTypeOK, RowsFresh, NEW new \in Snapshots,
         new.start = next, new.sent = rows,
         rows > next => next + new.length <= rows,
         rows > next \/ (rows = next /\ rows = first /\ ended'),
         \/ input = "idle"
         \/ input = "snapshots" /\ next + new.length <= rows - 2,
         UNCHANGED <<detector, rows, first, values>>
  PROVE  Kept(new)'
<1>1. /\ rows \in Nat /\ first \in Nat /\ next \in Nat /\ first <= next
      /\ new.start \in Nat /\ new.length \in Nat /\ new.length > 0
      /\ \A f \in Fields : values[f] \in Int
  <2>1. \A f \in Fields : values[f] \in Values
    BY DEF MessageTypeOK
  <2>2. \A n \in Values : n \in Int
    BY TypesAsNumbers DEF Values
  <2>3. new.start \in 0..MaxRows /\ new.length \in 1..SnapshotRows
    BY DEF Snapshots
  <2> QED BY <2>1, <2>2, <2>3, TypesAsNumbers DEF RowsFresh, Places
<1>2. CASE detector = "none" \/ rows = next
  <2>1. detector = "none" \/ (rows = first /\ ended')
    BY <1>1, <1>2
  <2>2. \A f \in Fields : values[f] = Unset
    BY <2>1 DEF RowsFresh, NoneStored
  <2>3. ~Heard(new)'
    BY <1>1, <1>2 DEF Heard
  <2> QED BY <2>1, <2>2, <2>3 DEF Kept, Told
<1>3. CASE detector # "none" /\ rows > next
  <2>1. new.start + new.length - 1 <= rows - 1 /\ rows > first
    BY <1>1, <1>3
  <2>2. \A f \in Fields : values[f] >= new.start + new.length - 1
    <3>1. CASE input = "idle"
      <4>1. Fresh(rows - 1)
        BY <1>3, <2>1, <3>1 DEF RowsFresh, LatestStored
      <4> QED BY <1>1, <2>1, <4>1 DEF Fresh
    <3>2. CASE input = "snapshots" /\ next + new.length <= rows - 2
      <4>1. rows > first + 1
        BY <1>1, <3>2
      <4>2. Fresh(rows - 1) \/ Fresh(rows - 2)
        BY <1>3, <2>1, <3>2, <4>1 DEF RowsFresh, LatestStored
      <4>3. new.start + new.length - 1 <= rows - 2
        BY <1>1, <3>2
      <4> QED BY <1>1, <4>2, <4>3 DEF Fresh
    <3> QED BY <3>1, <3>2
  <2>3. Heard(new)'
    BY <1>1, <1>3 DEF Heard
  <2> QED BY <2>2, <2>3 DEF Kept, Told
<1> QED BY <1>1, <1>2, <1>3

\* Each step keeps what is known of how old the stored values are.
LEMMA RowsStep == MessageIInv /\ [MessageNext]_messageVars => RowsFresh'
<1> SUFFICES ASSUME MessageIInv, [MessageNext]_messageVars PROVE RowsFresh'
  OBVIOUS
<1>1. /\ RowsFresh /\ Places /\ MessageTypeOK
      /\ {rows, first, next, SnapshotRows} \subseteq Nat /\ SnapshotRows > 0
      /\ queue \in Seq(Snapshots) /\ values \in [Fields -> Int]
  BY TypesAsNumbers DEF MessageIInv, ValuesFresh, MessageTypeOK, Values, RowsFresh
<1> USE DEF inputVars, workerVars, boundVars
<1>2. ASSUME UNCHANGED <<detector, rows, first, values, queue, current, worker>>,
             ended => ended', Places', LatestStored'
      PROVE  RowsFresh'
  BY <1>1, <1>2, KeptStays DEF RowsFresh, NoneStored
<1>3. CASE UNCHANGED <<detector, rows, first, next, values, queue, stored, ended, input>>
           /\ current' = current /\ (worker = "idle" => worker' = "idle")
  BY <1>1, <1>3 DEF RowsFresh, Places, NoneStored, Kept, Told, Heard, LatestStored, Fresh
<1>4. CASE BeginPeriod \/ NoMeteor \/ LogMeteor \/ DispatchBolid \/ Announce \/ ReadFlag \/ EndPeriod
  <2>1. /\ UNCHANGED <<detector, rows, first, next, values, queue, stored, current, worker, ended>>
        /\ input \notin {"noise", "snapshots", "naming"} /\ input' \notin {"noise", "naming"}
        /\ input' = "snapshots" => detector = "first"
        /\ input' \in {"detecting", "logging", "announcing"} => input \in {"detecting", "logging"}
        /\ ended => input' \in {"idle", "naming"}
    BY <1>1, <1>4 DEF BeginPeriod, NoMeteor, LogMeteor, DispatchBolid, MeteorLogged, Announce,
                      ReadFlag, EndPeriod, InputAt, AfterBolid, Places
  <2>2. Places'
    BY <1>1, <2>1 DEF Places
  <2>3. LatestStored'
    BY <1>1, <2>1 DEF RowsFresh, LatestStored, Fresh
  <2> QED BY <1>2, <2>1, <2>2, <2>3
<1>5. CASE NewRow
  <2>1. /\ rows' = rows + 1 /\ stored' = {} /\ input = "rows"
        /\ input' = IF detector = "first" THEN "noise" ELSE "snapshots"
        /\ UNCHANGED <<detector, first, next, values, queue, current, worker, ended>>
    BY <1>5 DEF NewRow, InputAt
  <2>2. detector # "none" /\ rows > first => Fresh(rows - 1)
    BY <1>1, <2>1 DEF RowsFresh, LatestStored
  <2>3. ~ended /\ Places'
    BY <1>1, <2>1 DEF Places
  <2>4. LatestStored'
    <3>1. rows' > first' /\ rows' - 2 = rows - 1 /\ (rows' > first' + 1 => rows > first)
      BY <1>1, <2>1 DEF Places
    <3>2. detector # "none" /\ rows' > first' + 1 => Fresh(rows - 2)'
      BY <2>1, <2>2, <3>1 DEF Fresh
    <3>3. \A f \in stored' : values'[f] = rows' - 1
      BY <2>1
    <3>4. CASE detector = "none"
      BY <2>1, <3>4 DEF LatestStored
    <3>5. CASE detector # "none"
      <4>1. input' = "noise" \/ (input' = "snapshots" /\ detector' = "last" /\ ~ended')
        BY <2>1, <2>3, <3>5 DEF MessageIInv, MessageTypeOK
      <4> QED BY <3>1, <3>2, <3>3, <3>5, <4>1 DEF LatestStored
    <3> QED BY <3>4, <3>5
  <2>5. NoneStored'
    BY <1>1, <2>1 DEF RowsFresh, Places, NoneStored
  <2>6. ASSUME NEW snapshot, Kept(snapshot) PROVE Kept(snapshot)'
    BY <2>1, <2>3, <2>6 DEF Kept, Heard, Told
  <2> QED BY <1>1, <2>1, <2>3, <2>4, <2>5, <2>6 DEF RowsFresh
<1>6. ASSUME NEW f \in Fields, StoreField(f) PROVE RowsFresh'
  <2>1. /\ input = "noise" /\ stored' = stored \cup {f}
        /\ values' = [values EXCEPT ![f] = rows - 1]
        /\ input' = IF stored' = Fields THEN "detecting" ELSE input
        /\ UNCHANGED <<detector, rows, first, next, queue, current, worker, ended>>
    BY <1>6 DEF StoreField
  <2>2. \A g \in Fields : values'[g] >= values[g] /\ values'[g] <= rows - 1 /\ values'[g] \in Int
    BY <1>1, <2>1 DEF RowsFresh
  <2>3. \A g \in stored' : g \in Fields => values'[g] = rows - 1
    BY <1>1, <2>1 DEF RowsFresh, LatestStored
  <2>4. stored \subseteq Fields /\ detector # "none" /\ rows > first
    BY <1>1, <2>1 DEF MessageTypeOK, Places
  <2>5. LatestStored'
    BY <1>1, <2>1, <2>2, <2>3, <2>4 DEF RowsFresh, LatestStored, Fresh
  <2>6. ASSUME NEW snapshot \in Snapshots \cup {NoSnapshot}, Kept(snapshot) PROVE Kept(snapshot)'
    <3> DEFINE last == snapshot.start + snapshot.length - 1
    <3>1. last \in Int
      BY DEF Snapshots, NoSnapshot
    <3>2. Heard(snapshot) /\ Heard(snapshot)'
      BY <1>1, <2>1, <2>4, <2>6 DEF Kept, Heard
    <3>3. \A g \in Fields : values[g] >= last
      BY <2>6, <3>2 DEF Kept, Told
    <3> HIDE DEF last
    <3>4. \A g \in Fields : values'[g] >= last
      BY <1>1, <2>2, <3>1, <3>3
    <3> QED BY <3>2, <3>4 DEF Kept, Told, last
  <2>7. \A i \in DOMAIN queue' : Kept(queue[i])'
    BY <1>1, <2>1, <2>6 DEF RowsFresh
  <2>8. (\A i \in DOMAIN queue : Kept(queue[i]))'
    BY <2>1, <2>7 DEF Kept, Told, Heard
  <2>9. (worker # "idle" => Kept(current))'
    <3>1. current \in Snapshots \cup {NoSnapshot} /\ (worker # "idle" => Kept(current))
      BY <1>1 DEF MessageTypeOK, RowsFresh
    <3>2. worker # "idle" => Kept(current)'
      BY <2>1, <2>6, <3>1
    <3> QED BY <2>1, <3>2
  <2>10. Places' /\ NoneStored'
    BY <1>1, <2>1, <2>4 DEF Places, NoneStored
  <2> QED BY <1>1, <2>1, <2>2, <2>5, <2>8, <2>9, <2>10 DEF RowsFresh
<1>7. ASSUME NEW new \in Snapshots, queue' = Append(queue, new), Kept(new)',
             UNCHANGED <<detector, rows, first, values, current, worker>>,
             ended => ended', Places', LatestStored'
      PROVE  RowsFresh'
  <2>1. \A i \in DOMAIN queue' : queue'[i] = new \/ (i \in DOMAIN queue /\ queue'[i] = queue[i])
    BY <1>1, <1>7
  <2>2. \A i \in DOMAIN queue : Kept(queue[i])
    BY <1>1 DEF RowsFresh
  <2>3. ASSUME NEW snapshot, Kept(snapshot) PROVE Kept(snapshot)'
    BY <1>7, <2>3, KeptStays
  <2>4. (\A i \in DOMAIN queue : Kept(queue[i]))'
    <3>1. ASSUME NEW i \in DOMAIN queue' PROVE Kept(queue[i])'
      <4>1. CASE queue'[i] = new
        BY <1>7, <4>1 DEF Kept, Told, Heard
      <4>2. CASE i \in DOMAIN queue /\ queue'[i] = queue[i]
        <5>1. Kept(queue[i])
          BY <2>2, <4>2
        <5> QED BY <1>7, <4>2, <5>1 DEF Kept, Told, Heard
      <4> QED BY <2>1, <4>1, <4>2
    <3> QED BY <3>1
  <2>5. (worker # "idle" => Kept(current))'
    BY <1>1, <1>7 DEF RowsFresh, Kept, Told, Heard
  <2>6. NoneStored' /\ (\A f \in Fields : values[f] <= rows - 1)'
    BY <1>1, <1>7 DEF RowsFresh, NoneStored
  <2> QED BY <1>7, <2>4, <2>5, <2>6 DEF RowsFresh
<1>8. CASE UpdateSnapshots
  <2>1. /\ input = "snapshots" /\ input' = IF Full THEN "naming" ELSE AfterSnapshots
        /\ UNCHANGED <<detector, rows, first, ended, values, stored, current, worker>>
    BY <1>8 DEF UpdateSnapshots, InputAt
  <2>2. ~ended
    BY <1>1, <2>1 DEF Places
  <2>3. LatestStored'
    BY <1>1, <2>1, <2>2 DEF RowsFresh, LatestStored, Fresh, AfterSnapshots
  <2>4. AfterSnapshots = "noise" => detector # "none" /\ rows > first
    BY <1>1, <2>1, <2>2 DEF AfterSnapshots, RowsFresh, LatestStored
  <2>5. CASE Full
    <3>1. SendSnapshot
      BY <1>8, <2>5 DEF UpdateSnapshots
    <3>2. PICK new \in Snapshots :
            /\ new.start = next /\ new.sent = rows
            /\ queue' = Append(queue, new) /\ next' = next + new.length
            /\ new.length = SnapshotRows
      BY <1>1, <2>2, <2>5, <3>1, SnapshotSent
    <3>3. rows > next /\ next + new.length <= rows - 2
      BY <1>1, <2>5, <3>2 DEF Full
    <3>4. Kept(new)'
      BY <1>1, <2>1, <3>2, <3>3, SentIsKept
    <3>5. Places'
      BY <1>1, <2>1, <2>2, <2>5, <3>2, <3>3 DEF Places
    <3> QED BY <1>7, <2>1, <2>3, <3>2, <3>4, <3>5
  <2>6. CASE ~Full
    <3>1. UNCHANGED <<queue, next>>
      BY <1>8, <2>6 DEF UpdateSnapshots
    <3>2. Places'
      BY <1>1, <2>1, <2>2, <2>4, <2>6, <3>1 DEF Places, AfterSnapshots
    <3> QED BY <1>2, <2>1, <2>3, <3>1, <3>2
  <2> QED BY <2>5, <2>6
<1>9. CASE EndStream
  <2>1. /\ input = "idle" /\ input' = "naming" /\ ~ended /\ ended' = TRUE /\ SendSnapshot
        /\ UNCHANGED <<detector, rows, first, values, stored, current, worker>>
    BY <1>9 DEF EndStream, InputAt
  <2>2. PICK new \in Snapshots :
          /\ new.start = next /\ new.sent = rows
          /\ queue' = Append(queue, new) /\ next' = next + new.length
          /\ rows > next => next + new.length <= rows
          /\ rows > next \/ (rows = next /\ rows = first)
    BY <1>1, <2>1, SnapshotSent
  <2>3. Kept(new)'
    BY <1>1, <2>1, <2>2, SentIsKept
  <2>4. new.length \in Nat
    BY DEF Snapshots
  <2>5. Places'
    BY <1>1, <2>1, <2>2, <2>4 DEF Places
  <2>6. LatestStored'
    BY <1>1, <2>1 DEF RowsFresh, LatestStored, Fresh
  <2> QED BY <1>7, <2>1, <2>2, <2>3, <2>5, <2>6
<1>10. CASE NameNext
  <2>1. /\ input = "naming" /\ input' = IF ended THEN "idle" ELSE AfterSnapshots
        /\ UNCHANGED <<detector, rows, first, next, ended, values, stored, queue, current, worker>>
    BY <1>10 DEF NameNext, InputAt
  <2>2. LatestStored'
    BY <1>1, <2>1 DEF RowsFresh, LatestStored, Fresh, AfterSnapshots
  <2>3. ~ended /\ AfterSnapshots = "noise" => detector # "none" /\ rows > first
    BY <1>1, <2>1 DEF AfterSnapshots, RowsFresh, LatestStored
  <2>4. Places'
    BY <1>1, <2>1, <2>3 DEF Places, AfterSnapshots
  <2> QED BY <1>2, <2>1, <2>2, <2>4
<1>11. CASE TakeSnapshot
  <2>1. /\ queue # << >> /\ current' = Head(queue) /\ queue' = Tail(queue)
        /\ UNCHANGED <<detector, rows, first, next, values, stored, input, ended>>
    BY <1>11 DEF TakeSnapshot
  <2>2. 1 \in DOMAIN queue /\ current' = queue[1]
    BY <1>1, <2>1
  <2>3. \A i \in DOMAIN queue' : i + 1 \in DOMAIN queue /\ queue'[i] = queue[i + 1]
    BY <1>1, <2>1
  <2>4. Kept(current)' /\ (\A i \in DOMAIN queue : Kept(queue[i]))'
    BY <1>1, <2>1, <2>2, <2>3 DEF RowsFresh, Kept, Told, Heard
  <2>5. Places' /\ LatestStored' /\ NoneStored'
    BY <1>1, <2>1 DEF RowsFresh, Places, LatestStored, Fresh, NoneStored
  <2> QED BY <1>1, <2>1, <2>4, <2>5 DEF RowsFresh
<1>12. CASE LogSnapshot \/ SnapshotLogged \/ WriteFile \/ AddListeners
  BY <1>3, <1>12 DEF LogSnapshot, SnapshotLogged, WriteFile, AddListeners
<1>13. ASSUME NEW f \in Fields, ReadField(f) PROVE RowsFresh'
  BY <1>3, <1>13 DEF ReadField
<1>14. ASSUME NEW t \in Writers, LineWritten(t) PROVE RowsFresh'
  BY <1>3, <1>14 DEF LineWritten
<1>15. CASE Restart
  <2>1. /\ first' = rows /\ next' = rows /\ rows' = rows /\ input' = "idle" /\ worker' = "idle"
        /\ values' = [f \in Fields |-> Unset] /\ queue' = << >> /\ ended' = FALSE
    BY <1>15 DEF Restart, ProgramBegins
  <2> QED BY <1>1, <2>1 DEF RowsFresh, Places, LatestStored, NoneStored, Unset
<1>16. CASE UNCHANGED messageVars
  BY <1>3, <1>16 DEF messageVars
<1>17. {"input", "worker"} \subseteq Writers
  BY MessageAssumption
<1> QED BY <1>4, <1>5, <1>6, <1>8, <1>9, <1>10, <1>11, <1>12, <1>13, <1>14, <1>15, <1>16, <1>17
        DEF MessageNext, InputRuns, WorkerRuns

\* Each step keeps what is known of the values read for a line.
LEMMA ReadStep == MessageIInv /\ [MessageNext]_messageVars => ReadFresh'
<1> SUFFICES ASSUME MessageIInv, [MessageNext]_messageVars PROVE ReadFresh'
  OBVIOUS
<1>1. RowsFresh /\ ReadFresh /\ values \in [Fields -> Values]
  BY DEF MessageIInv, ValuesFresh, MessageTypeOK
<1> USE DEF inputVars, workerVars, boundVars
<1>2. CASE UNCHANGED <<detector, current, read>>
  BY <1>1, <1>2 DEF ReadFresh, Told, Heard
<1>3. CASE TakeSnapshot \/ Restart
  <2>1. read' = << >> /\ << >> \in Reads
    BY <1>3, NothingRead DEF TakeSnapshot, Restart, ProgramBegins
  <2>2. DOMAIN read' = {}
    BY <2>1
  <2> QED BY <2>1, <2>2 DEF ReadFresh
<1>4. ASSUME NEW f \in Fields, ReadField(f) PROVE ReadFresh'
  <2>1. /\ worker = "reading" /\ current' = current /\ detector' = detector
        /\ read' = [g \in DOMAIN read \cup {f} |-> IF g = f THEN values[g] ELSE read[g]]
    BY <1>4 DEF ReadField
  <2>2. PICK S \in SUBSET Fields : read \in [S -> Values]
    BY <1>1 DEF ReadFresh, Reads
  <2>3. S \cup {f} \in SUBSET Fields /\ read' \in [S \cup {f} -> Values]
    BY <1>1, <2>1, <2>2
  <2>4. Told(current, values[f])
    BY <1>1, <2>1 DEF RowsFresh, Kept
  <2>5. \A g \in DOMAIN read' : Told(current, read'[g])
    BY <1>1, <2>1, <2>4 DEF ReadFresh
  <2> QED BY <2>1, <2>3, <2>5 DEF ReadFresh, Reads, Told, Heard
<1>5. ASSUME NEW f \in Fields, StoreField(f) PROVE UNCHANGED <<detector, current, read>>
  BY <1>5 DEF StoreField
<1>6. ASSUME NEW t \in Writers, LineWritten(t) PROVE UNCHANGED <<detector, current, read>>
  BY <1>6 DEF LineWritten
<1>7. CASE \/ BeginPeriod \/ NewRow \/ NoMeteor \/ LogMeteor \/ DispatchBolid \/ Announce
           \/ UpdateSnapshots \/ NameNext \/ ReadFlag \/ EndPeriod
  BY <1>2, <1>7 DEF BeginPeriod, NewRow, NoMeteor, LogMeteor, DispatchBolid, Announce,
                    UpdateSnapshots, NameNext, ReadFlag, EndPeriod
<1>8. CASE LogSnapshot \/ SnapshotLogged \/ WriteFile \/ AddListeners \/ EndStream
           \/ UNCHANGED messageVars
  BY <1>2, <1>8 DEF LogSnapshot, SnapshotLogged, WriteFile, AddListeners, EndStream, messageVars
<1>9. {"input", "worker"} \subseteq Writers
  BY MessageAssumption
<1> QED BY <1>2, <1>3, <1>4, <1>5, <1>6, <1>7, <1>8, <1>9 DEF MessageNext, InputRuns, WorkerRuns

\* The steps that touch neither the files nor a call.
LEMMA OtherSteps ==
  ASSUME [MessageNext]_messageVars
  PROVE  \/ UNCHANGED <<files, call>> /\ detector' = detector
         \/ LogMeteor \/ LogSnapshot \/ Restart
         \/ \E t \in Writers : LineWritten(t)
<1> USE DEF logVars, inputVars
<1>1. ASSUME NEW f \in Fields, StoreField(f) \/ ReadField(f)
      PROVE  UNCHANGED <<files, call>> /\ detector' = detector
  BY <1>1 DEF StoreField, ReadField
<1>2. CASE \/ BeginPeriod \/ NewRow \/ NoMeteor \/ DispatchBolid \/ Announce \/ UpdateSnapshots
           \/ NameNext \/ ReadFlag \/ EndPeriod
  BY <1>2 DEF BeginPeriod, NewRow, NoMeteor, DispatchBolid, Announce, UpdateSnapshots, NameNext,
              ReadFlag, EndPeriod
<1>3. CASE TakeSnapshot \/ SnapshotLogged \/ WriteFile \/ AddListeners \/ EndStream
           \/ UNCHANGED messageVars
  BY <1>3 DEF TakeSnapshot, SnapshotLogged, WriteFile, AddListeners, EndStream, messageVars
<1>4. {"input", "worker"} \subseteq Writers
  BY MessageAssumption
<1> QED BY <1>1, <1>2, <1>3, <1>4 DEF MessageNext, InputRuns, WorkerRuns

\* Each step keeps the lines fresh.
LEMMA LinesStep == MessageIInv /\ [MessageNext]_messageVars => LinesFresh'
<1> SUFFICES ASSUME MessageIInv, [MessageNext]_messageVars PROVE LinesFresh'
  OBVIOUS
<1>1. /\ LogIInv /\ LogTypes /\ ReadFresh /\ LinesFresh /\ MessageTypeOK
      /\ Writers = {"input", "worker"}
  BY MessageAssumption DEF MessageIInv, ValuesFresh, LogIInv
<1>2. LineIsFresh = \A line \in Lines : FreshLine(line)
  BY DEF LineIsFresh, FreshLine, Told
<1>3. ASSUME detector' = detector, NEW line, FreshLine(line) PROVE FreshLine(line)'
  BY <1>3 DEF FreshLine, Told, Heard
<1>4. (\A line \in Lines : FreshLine(line))' => LineIsFresh'
  BY DEF LineIsFresh, FreshLine, Told
<1>5. CASE UNCHANGED <<files, call>> /\ detector' = detector
  <2>1. Lines' = Lines
    BY <1>5 DEF Lines
  <2>2. LineIsFresh'
    BY <1>1, <1>2, <1>3, <1>4, <1>5, <2>1 DEF LinesFresh
  <2> QED BY <1>1, <1>3, <1>5, <2>2 DEF LinesFresh
<1>6. CASE LogMeteor
  <2>1. /\ call'["input"].line.kind = "meteor" /\ call'["worker"] = call["worker"]
        /\ files' = files /\ detector' = detector
    BY <1>1, <1>6 DEF LogMeteor, Calls, LogTypes
  <2>2. LineIsFresh'
    BY <1>1, <1>2, <1>3, <1>4, <2>1 DEF LinesFresh, Lines
  <2>3. (call["worker"] # NoCall => FreshLine(call["worker"].line))'
    BY <1>1, <1>3, <2>1 DEF LinesFresh
  <2> QED BY <2>1, <2>2, <2>3 DEF LinesFresh
<1>7. CASE LogSnapshot
  <2> DEFINE line == [kind |-> "snapshot", time |-> TimeOf(current.start), says |-> << current, read >>]
  <2>1. /\ call'["worker"].line = line /\ call'["input"] = call["input"] /\ files' = files
        /\ DOMAIN read = Fields /\ detector' = detector
    BY <1>1, <1>7 DEF LogSnapshot, Calls, LogTypes, inputVars
  <2>2. FreshLine(line)
    BY <1>1, <2>1 DEF ReadFresh, FreshLine
  <2> HIDE DEF line
  <2>3. PICK new : new = line /\ FreshLine(new)
    BY <2>2
  <2>4. FreshLine(new)'
    BY <1>3, <2>1, <2>3
  <2>5. FreshLine(call["worker"].line)'
    BY <2>1, <2>3, <2>4
  <2>6. LineIsFresh'
    BY <1>1, <1>2, <1>3, <1>4, <2>1 DEF LinesFresh, Lines
  <2> QED BY <1>1, <2>1, <2>5, <2>6 DEF LinesFresh
<1>8. ASSUME NEW t \in Writers, LineWritten(t) PROVE LinesFresh'
  <2>1. /\ Logs(t, FormattedBesides(t)) /\ FormattedBesides(t) \in SUBSET Int
        /\ detector' = detector
    BY <1>1, <1>8, LinesMade DEF LineWritten, ReadFresh, inputVars
  <2>2. /\ Lines' \subseteq Lines \cup {Header, call[t].line}
        /\ call[t] # NoCall
        /\ \A u \in Writers \ {t} : call'[u] = call[u]
        /\ call'[t] # NoCall => call'[t].line = call[t].line
    BY <1>1, <2>1, LineGoesToFile
  <2>3. FreshLine(Header) /\ FreshLine(call[t].line)
    BY <1>1, <2>2 DEF LinesFresh, FreshLine, Header
  <2>4. \A line \in Lines' : FreshLine(line)
    BY <1>1, <1>2, <2>2, <2>3 DEF LinesFresh
  <2>5. LineIsFresh'
    BY <1>3, <1>4, <2>1, <2>4
  <2>6. \A u \in Writers : call'[u] # NoCall => call[u] # NoCall /\ call'[u].line = call[u].line
    BY <2>2
  <2>7. (call["worker"] # NoCall => FreshLine(call["worker"].line))'
    BY <1>1, <1>3, <2>1, <2>6 DEF LinesFresh
  <2>8. (call["input"] # NoCall => call["input"].line.kind = "meteor")'
    BY <1>1, <2>6 DEF LinesFresh
  <2> QED BY <2>5, <2>7, <2>8 DEF LinesFresh
<1>9. CASE Restart
  <2>1. Lines' = Lines /\ (\A t \in Writers : call'[t] = NoCall) /\ detector' = detector
    BY <1>1, <1>9, RestartKeepsLog DEF Restart, LogRestarts
  <2>2. LineIsFresh'
    BY <1>1, <1>2, <1>3, <1>4, <2>1 DEF LinesFresh
  <2> QED BY <1>1, <2>1, <2>2 DEF LinesFresh
<1> QED BY <1>5, <1>6, <1>7, <1>8, <1>9, OtherSteps

\* Each step keeps the announcements behind their lines.
LEMMA LoggedStep == MessageIInv /\ [MessageNext]_messageVars => LoggedFirst'
<1> SUFFICES ASSUME MessageIInv, [MessageNext]_messageVars PROVE LoggedFirst'
  OBVIOUS
<1>1. /\ LogIInv /\ LogTypes /\ LoggedFirst /\ MessageTypeOK /\ ReadFresh
      /\ Writers = {"input", "worker"} /\ midiQueue \in Seq(Nat) /\ rows \in Nat
  BY MessageAssumption, TypesAsNumbers DEF MessageIInv, ValuesFresh, LogIInv, MessageTypeOK
<1> USE DEF inputVars, workerVars, boundVars, logVars, midiVars
<1>2. CASE /\ UNCHANGED <<files, call, midiQueue, worker>>
           /\ UNCHANGED <<input, rows>>
              \/ ({input, input'} \cap {"logging", "announcing"} = {})
  BY <1>1, <1>2 DEF LoggedFirst, InLog, Lines, AnnouncedIsLogged, MeteorLine
<1>3. CASE \/ BeginPeriod \/ NewRow \/ NoMeteor \/ UpdateSnapshots \/ NameNext \/ ReadFlag
           \/ EndStream
  BY <1>2, <1>3 DEF BeginPeriod, NewRow, NoMeteor, UpdateSnapshots, NameNext, ReadFlag, EndStream,
                    InputAt, AfterBolid, AfterSnapshots
<1>4. ASSUME NEW f \in Fields, StoreField(f) \/ ReadField(f) PROVE LoggedFirst'
  <2>1. CASE StoreField(f)
    BY <1>2, <2>1 DEF StoreField
  <2>2. CASE ReadField(f)
    BY <1>2, <2>2 DEF ReadField
  <2> QED BY <1>4, <2>1, <2>2
<1>5. CASE AddListeners \/ UNCHANGED messageVars
  BY <1>2, <1>5 DEF AddListeners, messageVars
<1>6. CASE TakeSnapshot \/ SnapshotLogged \/ WriteFile
  BY <1>1, <1>6 DEF TakeSnapshot, SnapshotLogged, WriteFile, LoggedFirst, InLog, Lines,
                    AnnouncedIsLogged, MeteorLine
<1>7. CASE LogMeteor
  <2>1. /\ input = "detecting" /\ input' = "logging"
        /\ call'["input"] # NoCall /\ MeteorLine(call'["input"].line, rows - 1)
        /\ call'["worker"] = call["worker"]
        /\ UNCHANGED <<files, rows, midiQueue, worker>>
    BY <1>1, <1>7 DEF LogMeteor, Calls, LogTypes, InputAt, MeteorLine, NoCall
  <2> QED BY <1>1, <2>1 DEF LoggedFirst, InLog, Lines, AnnouncedIsLogged, MeteorLine
<1>8. CASE LogSnapshot
  <2>1. /\ call'["input"] = call["input"] /\ worker' = "logging"
        /\ UNCHANGED <<files, input, rows, midiQueue>>
    BY <1>1, <1>8 DEF LogSnapshot, Calls, LogTypes
  <2> QED BY <1>1, <2>1 DEF LoggedFirst, InLog, Lines, AnnouncedIsLogged, MeteorLine
<1>9. CASE DispatchBolid
  BY <1>1, <1>9 DEF DispatchBolid, MeteorLogged, InputAt, AfterBolid, LoggedFirst, InLog, Lines,
                    AnnouncedIsLogged, MeteorLine
<1>10. CASE Announce
  <2>1. /\ midiQueue' = Append(midiQueue, rows - 1) /\ input = "announcing"
        /\ input' = AfterBolid
        /\ UNCHANGED <<files, call, worker>>
    BY <1>10 DEF Announce, PushMidi, InputAt
  <2>2. AnnouncedIsLogged'
    <3>1. \A i \in DOMAIN midiQueue' :
            midiQueue'[i] = rows - 1 \/ (i \in DOMAIN midiQueue /\ midiQueue'[i] = midiQueue[i])
      BY <1>1, <2>1
    <3>2. Lines' = Lines
      BY <2>1 DEF Lines
    <3>3. InLog(rows - 1) /\ \A i \in DOMAIN midiQueue : InLog(midiQueue[i])
      BY <1>1, <2>1 DEF LoggedFirst, AnnouncedIsLogged, InLog, MeteorLine
    <3>4. \A i \in DOMAIN midiQueue' : InLog(midiQueue'[i])
      BY <3>1, <3>3
    <3> QED BY <3>2, <3>4 DEF AnnouncedIsLogged, InLog, MeteorLine
  <2> QED BY <1>1, <2>1, <2>2 DEF LoggedFirst, AfterBolid
<1>11. CASE EndPeriod
  <2>1. /\ input = "midi" /\ input' = "idle"
        /\ midiQueue' = midiQueue \/ (midiQueue # << >> /\ midiQueue' = Tail(midiQueue))
        /\ UNCHANGED <<files, call, worker>>
    BY <1>11 DEF EndPeriod, SendMidi, InputAt
  <2>2. AnnouncedIsLogged'
    <3>1. CASE midiQueue' = midiQueue
      BY <1>1, <2>1, <3>1 DEF LoggedFirst, AnnouncedIsLogged, Lines
    <3>2. CASE midiQueue # << >> /\ midiQueue' = Tail(midiQueue)
      <4>1. \A i \in DOMAIN midiQueue' :
              i + 1 \in DOMAIN midiQueue /\ midiQueue'[i] = midiQueue[i + 1]
        BY <1>1, <3>2
      <4> QED BY <1>1, <2>1, <4>1 DEF LoggedFirst, AnnouncedIsLogged, Lines
    <3> QED BY <2>1, <3>1, <3>2
  <2> QED BY <1>1, <2>1, <2>2 DEF LoggedFirst
<1>12. ASSUME NEW t \in Writers, LineWritten(t) PROVE LoggedFirst'
  <2>1. /\ Logs(t, FormattedBesides(t)) /\ FormattedBesides(t) \in SUBSET Int
        /\ UNCHANGED <<input, rows, worker, midiQueue>>
    BY <1>1, <1>12, LinesMade DEF LineWritten, ReadFresh
  <2>2. /\ Lines \subseteq Lines' /\ call[t] # NoCall
        /\ \A u \in Writers \ {t} : call'[u] = call[u]
        /\ IF call'[t] = NoCall THEN call[t].line \in Lines' ELSE call'[t].line = call[t].line
    BY <1>1, <2>1, LineGoesToFile
  <2>3. \A n \in Int : InLog(n) => InLog(n)'
    BY <2>2 DEF InLog, MeteorLine
  <2>4. AnnouncedIsLogged'
    BY <1>1, <2>1, <2>2 DEF LoggedFirst, AnnouncedIsLogged
  <2>5. t = "input" /\ call'[t] = NoCall => InLog(rows - 1)'
    BY <1>1, <2>1, <2>2 DEF LoggedFirst, InLog, MeteorLine
  <2> QED BY <1>1, <2>1, <2>2, <2>3, <2>4, <2>5 DEF LoggedFirst, MeteorLine
<1>13. CASE Restart
  <2>1. /\ midiQueue' = << >> /\ input' = "idle"
        /\ \A t \in Writers : call'[t] = NoCall
    BY <1>13 DEF Restart, ProgramBegins, LogRestarts
  <2> QED BY <1>1, <2>1 DEF LoggedFirst, AnnouncedIsLogged
<1> QED BY <1>1, <1>3, <1>4, <1>5, <1>6, <1>7, <1>8, <1>9, <1>10, <1>11, <1>12, <1>13
        DEF MessageNext, InputRuns, WorkerRuns

-----------------------------------------------------------------------------
(* The theorems.                                                           *)

\* The inductive invariant: what the log, the values and the announcements
\* have to do with the threads' places in the code.
THEOREM MessageInvariant == MessageSpec => []MessageIInv
<1>1. MessageInit => MessageIInv
  BY InitInvariant
<1>2. MessageIInv /\ [MessageNext]_messageVars => MessageIInv'
  BY LogStep, TypeStep, RowsStep, ReadStep, LinesStep, LoggedStep DEF MessageIInv, ValuesFresh
<1> QED BY <1>1, <1>2, PTL DEF MessageSpec

\* The variables of the input, the worker, the log and the MIDI queue keep
\* their types; every snapshot sent, stop()'s too, has from one row to
\* snapshotRows_.
THEOREM MessageTypeCorrect == MessageSpec => []MessageTypeOK
<1>1. MessageIInv => MessageTypeOK
  BY DEF MessageIInv
<1> QED BY <1>1, MessageInvariant, PTL

\* CsvLog's files are logs: one header, in front, also after any number of
\* restarts, unless the process died on the file before its header.
THEOREM LogFilesAreLogs == MessageSpec => []FilesAreLogs
<1>1. MessageIInv => FilesAreLogs
  BY DEF MessageIInv, LogIInv
<1> QED BY <1>1, MessageInvariant, PTL

\* The noise in a snapshot's line was worked out from its last row or later,
\* in whichever order the recorders come, stop()'s snapshot included; and it
\* is memory nobody has written exactly if the pipeline has no detector, or
\* the stream ended before its first row.
THEOREM LinesAreFresh == MessageSpec => []LineIsFresh
<1>1. MessageIInv => LineIsFresh
  BY DEF MessageIInv, ValuesFresh, LinesFresh
<1> QED BY <1>1, MessageInvariant, PTL

\* BolidRecorder::update() announces no meteor that is not in the log.
THEOREM AnnouncedAreLogged == MessageSpec => []AnnouncedIsLogged
<1>1. MessageIInv => AnnouncedIsLogged
  BY DEF MessageIInv, LoggedFirst
<1> QED BY <1>1, MessageInvariant, PTL
=============================================================================
