---------------------------- MODULE LoggerProofs ----------------------------
(***************************************************************************)
(* Proofs about Logger for every capacity, batch, file size and number of   *)
(* entries: a log that can be read, the one way a line leaves the disk, and *)
(* the logger as an implementation of LogStream.                            *)
(***************************************************************************)
EXTENDS Logger, SequenceTheorems, TLAPS

-----------------------------------------------------------------------------
(* The inductive invariant                                                  *)

\* Ids are given out in the order of the queue, so the queue is ascending.
QueueInv ==
    /\ \A i \in 1 .. Len(queue) : queue[i].id \in 1 .. accepted
    /\ Ascending(queue)

\* What has been written was accepted before what is still queued.
WrittenInv ==
    \A j \in 1 .. Len(written) :
        /\ written[j].id \in 1 .. accepted
        /\ \A i \in 1 .. Len(queue) : written[j].id < queue[i].id

\* So was what is on the disk, in the file and in the archives.
Precedes(S) == \A n \in S : n \in 1 .. accepted
                            /\ \A i \in 1 .. Len(queue) : n < queue[i].id

DiskInv ==
    /\ Precedes(Stored(live))
    /\ \A s \in 1 .. MaxSecond : Precedes(Stored(archives[s]))

\* No file is named after a second to come, and currentFileSize_ counts no line
\* that the file does not hold.
NameInv == \A s \in 1 .. MaxSecond : s > clock => archives[s] = <<>>
SizeInv == size <= Len(live)

\* The cached text shows the second it was made for.
CacheInv == times.lastSecond = times.shows

IInv == LoggerInv /\ QueueInv /\ WrittenInv /\ DiskInv /\ NameInv /\ SizeInv /\ CacheInv

-----------------------------------------------------------------------------
(* Sequences of entries and lines                                           *)

\* A line more at the end: its id joins the others.
LEMMA StoredAppend ==
    ASSUME NEW S, NEW s \in Seq(S), NEW e \in S
    PROVE  Stored(Append(s, e)) = Stored(s) \cup {e.id}
<1>1. /\ Len(Append(s, e)) = Len(s) + 1 /\ Len(s) \in Nat
      /\ \A i \in 1 .. Len(s) : Append(s, e)[i] = s[i]
      /\ Append(s, e)[Len(s) + 1] = e
  BY AppendProperties, LenProperties
<1>2. \A i \in 1 .. Len(s) + 1 : i \in 1 .. Len(s) \/ i = Len(s) + 1
  BY <1>1
<1>3. \A i \in 1 .. Len(s) : i \in 1 .. Len(s) + 1
  BY <1>1
<1>4. Len(s) + 1 \in 1 .. Len(s) + 1
  BY <1>1
<1>5. ASSUME NEW n \in Stored(Append(s, e)) PROVE n \in Stored(s) \cup {e.id}
  BY <1>1, <1>2 DEF Stored
<1>6. ASSUME NEW n \in Stored(s) PROVE n \in Stored(Append(s, e))
  BY <1>1, <1>3 DEF Stored
<1>7. e.id \in Stored(Append(s, e))
  BY <1>1, <1>4 DEF Stored
<1>. QED  BY <1>5, <1>6, <1>7

\* Nothing is stored in a file without lines.
LEMMA StoredEmpty == Stored(<<>>) = {}
BY DEF Stored

\* A file in order stays in order when a later line is appended.
LEMMA AscendingAppend ==
    ASSUME NEW S, NEW s \in Seq(S), NEW e \in S, Ascending(s),
           \A n \in Stored(s) : n < e.id
    PROVE  Ascending(Append(s, e))
<1>1. /\ Len(Append(s, e)) = Len(s) + 1 /\ Len(s) \in Nat
      /\ \A i \in 1 .. Len(s) : Append(s, e)[i] = s[i]
      /\ Append(s, e)[Len(s) + 1] = e
  BY AppendProperties, LenProperties
<1>2. \A i \in 1 .. Len(s) : s[i].id < e.id
  BY DEF Stored
<1>. SUFFICES ASSUME NEW i \in 1 .. Len(s) + 1, NEW j \in 1 .. Len(s) + 1, i < j
              PROVE  Append(s, e)[i].id < Append(s, e)[j].id
  BY <1>1 DEF Ascending
<1>3. i \in 1 .. Len(s)
  BY <1>1
<1>4. CASE j \in 1 .. Len(s)
  BY <1>1, <1>3, <1>4 DEF Ascending
<1>5. CASE j = Len(s) + 1
  BY <1>1, <1>2, <1>3, <1>5
<1>. QED  BY <1>1, <1>4, <1>5

-----------------------------------------------------------------------------
(* One line written                                                         *)

\* What one call of writeEntry and rotateIfNeeded leaves on the disk: nothing if
\* the file is not open; else the line is in the file, or in the archive that
\* the full file has become.
Kept(line)    == live' = Append(live, line) /\ archives' = archives
                 /\ (size' = size + 1 \/ size' = 0)
Rotated(line) == /\ live' = <<>> /\ size' = 0 /\ size + 1 >= MaxFileSize
                 /\ archives' = [archives EXCEPT ![clock] = Append(live, line)]

LEMMA WriteFacts ==
    ASSUME LoggerTypeOK, NEW e \in Entry, e.id \in 1 .. MaxEntries, WriteEntry(e)
    PROVE  /\ open' \in BOOLEAN
           /\ times' \in [lastSecond : 0 .. MaxSecond, shows : 0 .. MaxSecond]
           /\ CacheInv => CacheInv' /\ times'.shows = e.second
           /\ \E line \in Line :
                 /\ line = [id |-> e.id, second |-> e.second, shown |-> times'.shows]
                 /\ written' = Append(written, line)
                 /\ UNCHANGED diskVars \/ Kept(line) \/ Rotated(line)
<1>. DEFINE line == [id |-> e.id, second |-> e.second, shown |-> times'.shows]
<1>1. /\ times' \in [lastSecond : 0 .. MaxSecond, shows : 0 .. MaxSecond]
      /\ CacheInv => CacheInv' /\ times'.shows = e.second
  BY DEF WriteEntry, Refreshed, LoggerTypeOK, Entry, CacheInv
<1>2. line \in Line
  BY <1>1 DEF Line, Entry
<1>3. written' = Append(written, line)
  BY DEF WriteEntry
<1>4. IF open THEN RotateIfNeeded(Append(live, line)) ELSE UNCHANGED diskVars
  BY DEF WriteEntry
<1>5. open' \in BOOLEAN /\ (UNCHANGED diskVars \/ Kept(line) \/ Rotated(line))
  <2>1. size + 1 \in Nat /\ MaxFileSize \in Nat
    BY LogSizesAssumption DEF LoggerTypeOK
  <2>. HIDE DEF line
  <2>2. CASE ~open
    BY <1>4, <2>2 DEF LoggerTypeOK, diskVars
  <2>3. CASE open /\ size + 1 < MaxFileSize
    BY <1>4, <2>3 DEF LoggerTypeOK, RotateIfNeeded, Kept
  <2>4. CASE open /\ ~(size + 1 < MaxFileSize)
    <3>1. size' = 0 /\ open' \in BOOLEAN
      BY <1>4, <2>4 DEF RotateIfNeeded
    <3>2. size + 1 >= MaxFileSize
      BY <2>1, <2>4
    <3>. QED  BY <1>4, <2>4, <3>1, <3>2 DEF RotateIfNeeded, Kept, Rotated
  <2>. QED  BY <2>2, <2>3, <2>4 DEF LoggerTypeOK
<1>. QED  BY <1>1, <1>2, <1>3, <1>5

-----------------------------------------------------------------------------
(* Every step keeps the invariant                                           *)

\* The oldest entry of the queue has an id, and it precedes the others.
LEMMA HeadFacts ==
    ASSUME IInv, queue # <<>>
    PROVE  /\ Head(queue) \in Entry /\ Head(queue).id \in 1 .. accepted
           /\ Head(queue).id \in 1 .. MaxEntries
           /\ Tail(queue) \in Seq(Entry) /\ Len(Tail(queue)) = Len(queue) - 1
           /\ Len(queue) \in Nat \ {0}
           /\ \A i \in 1 .. Len(Tail(queue)) :
                 Tail(queue)[i] = queue[i + 1] /\ Head(queue).id < Tail(queue)[i].id
<1>1. queue \in Seq(Entry) /\ accepted \in 0 .. MaxEntries
  BY DEF IInv, LoggerInv, LoggerTypeOK
<1>2. /\ Head(queue) = queue[1] /\ Head(queue) \in Entry /\ Tail(queue) \in Seq(Entry)
      /\ Len(Tail(queue)) = Len(queue) - 1 /\ Len(queue) \in Nat \ {0}
      /\ \A i \in 1 .. Len(Tail(queue)) : Tail(queue)[i] = queue[i + 1]
  BY <1>1, HeadTailProperties, EmptySeq
<1>3. 1 \in 1 .. Len(queue) /\ \A i \in 1 .. Len(Tail(queue)) : i + 1 \in 1 .. Len(queue) /\ 1 < i + 1
  BY <1>2
<1>4. Head(queue).id \in 1 .. accepted
  BY <1>2, <1>3 DEF IInv, QueueInv
<1>5. Head(queue).id \in 1 .. MaxEntries
  BY <1>1, <1>4, LogSizesAssumption
<1>6. \A i \in 1 .. Len(Tail(queue)) : Head(queue).id < Tail(queue)[i].id
  BY <1>2, <1>3 DEF IInv, QueueInv, Ascending
<1>. QED  BY <1>2, <1>4, <1>5, <1>6

LEMMA TypeInit == LoggerInit => LoggerTypeOK
<1>. SUFFICES ASSUME LoggerInit PROVE LoggerTypeOK
  OBVIOUS
<1>. USE LogSizesAssumption DEF LoggerInit, LoggerTypeOK
<1>1. /\ main \in {"down", "up", "joining", "stopped"} /\ inits \in 0 .. MaxInits
      /\ running \in BOOLEAN /\ accepted \in 0 .. MaxEntries /\ count \in 0 .. MaxBatch
      /\ bg \in {"none", "pass", "sleep", "last", "exited"}
      /\ open \in BOOLEAN /\ size \in Nat /\ clock \in 1 .. MaxSecond
  <2>1. \A n \in Nat : 0 \in 0 .. n
    OBVIOUS
  <2>2. \A n \in Nat \ {0} : 1 \in 1 .. n /\ 0 \in 0 .. n
    OBVIOUS
  <2>. QED  BY <2>1, <2>2
<1>2. queue \in Seq(Entry) /\ Len(queue) <= QueueSize
  OBVIOUS
<1>3. live \in Seq(Line) /\ written \in Seq(Line) /\ archives \in [1 .. MaxSecond -> Seq(Line)]
  OBVIOUS
<1>4. NoEntry \in Entry
  BY DEF NoEntry, Entry
<1>5. /\ entry \in [Threads -> Entry] /\ step \in [Threads -> {"idle", "stamped", "claimed"}]
      /\ times \in [lastSecond : 0 .. MaxSecond, shows : 0 .. MaxSecond]
  BY <1>4
<1>. QED  BY <1>1, <1>2, <1>3, <1>5

LEMMA TypeStep == IInv /\ [LoggerNext]_loggerVars => LoggerTypeOK'
<1>. SUFFICES ASSUME IInv, [LoggerNext]_loggerVars PROVE LoggerTypeOK'
  OBVIOUS
<1>0. LoggerTypeOK
  BY DEF IInv, LoggerInv
<1>. USE <1>0, LogSizesAssumption
<1>1. CASE InitLogger
  <2>1. size' \in Nat
    BY <1>1, LenProperties DEF LoggerTypeOK, InitLogger
  <2>2. inits' \in 0 .. MaxInits
    BY <1>1 DEF LoggerTypeOK, InitLogger
  <2>. QED  BY <1>1, <2>1, <2>2 DEF LoggerTypeOK, InitLogger
<1>2. CASE Shutdown
  BY <1>2 DEF LoggerTypeOK, Shutdown, callerVars, bgVars, diskVars
<1>3. CASE Destroy
  <2>1. queue' \in Seq(Entry) /\ Len(queue') <= QueueSize
    BY <1>3 DEF Destroy
  <2>. QED  BY <1>3, <2>1 DEF LoggerTypeOK, Destroy, callerVars
<1>4. ASSUME NEW t \in Threads, Log(t) PROVE LoggerTypeOK'
  <2>. USE DEF LoggerTypeOK, mainVars, bgVars, diskVars
  <2>1. CASE Stamp(t)
    <3>1. [id |-> 0, second |-> clock] \in Entry
      BY DEF Entry
    <3>. QED  BY <2>1, <3>1 DEF Stamp
  <2>2. CASE Claim(t)
    <3>0. \A m \in Nat : \A n \in 0 .. m : n < m => n + 1 \in 0 .. m
      OBVIOUS
    <3>1. accepted + 1 \in 0 .. MaxEntries
      BY <2>2, <3>0 DEF Claim
    <3>2. [entry[t] EXCEPT !.id = accepted + 1] \in Entry
      BY ZenonT(60), <3>1 DEF Entry
    <3>3. entry' \in [Threads -> Entry] /\ entry'[t] \in Entry
      BY <2>2, <3>2 DEF Claim
    <3>4. queue' \in Seq(Entry) /\ Len(queue') <= QueueSize
      BY <2>2, <3>3, AppendProperties, LenProperties DEF Claim
    <3>5. step' \in [Threads -> {"idle", "stamped", "claimed"}]
      BY <2>2 DEF Claim
    <3>6. /\ UNCHANGED <<main, inits, running, bg, count, open, live, size, archives>>
          /\ UNCHANGED <<times, clock, written>> /\ accepted' = accepted + 1
      BY <2>2 DEF Claim
    <3>. QED  BY <3>1, <3>3, <3>4, <3>5, <3>6
  <2>3. CASE Publish(t)
    <3>1. NoEntry \in Entry
      BY DEF Entry, NoEntry
    <3>. QED  BY <2>3, <3>1 DEF Publish
  <2>4. CASE QueueFull(t)
    <3>1. NoEntry \in Entry
      BY DEF Entry, NoEntry
    <3>. QED  BY <2>4, <3>1 DEF QueueFull
  <2>. QED  BY <1>4, <2>1, <2>2, <2>3, <2>4 DEF Log
<1>5. CASE ProcessOne
  <2>1. queue # <<>> /\ WriteEntry(Head(queue)) /\ queue' = Tail(queue)
    BY <1>5 DEF ProcessOne, CanDequeue
  <2>2. /\ Head(queue) \in Entry /\ Head(queue).id \in 1 .. MaxEntries
        /\ queue' \in Seq(Entry) /\ Len(queue') = Len(queue) - 1 /\ Len(queue) \in Nat
    BY <2>1, HeadFacts
  <2>3. PICK line \in Line : /\ written' = Append(written, line)
                             /\ UNCHANGED diskVars \/ Kept(line) \/ Rotated(line)
    BY <2>1, <2>2, WriteFacts
  <2>4. /\ open' \in BOOLEAN
        /\ times' \in [lastSecond : 0 .. MaxSecond, shows : 0 .. MaxSecond]
    BY <2>1, <2>2, WriteFacts
  <2>5. Append(live, line) \in Seq(Line) /\ <<>> \in Seq(Line) /\ written' \in Seq(Line)
    BY <2>3, AppendProperties, EmptySeq DEF LoggerTypeOK
  <2>6. /\ live' \in Seq(Line) /\ size' \in Nat
        /\ archives' \in [1 .. MaxSecond -> Seq(Line)]
    <3>1. CASE UNCHANGED diskVars
      BY <3>1 DEF LoggerTypeOK, diskVars
    <3>2. CASE Kept(line)
      BY <2>5, <3>2 DEF LoggerTypeOK, Kept
    <3>3. CASE Rotated(line)
      BY <2>5, <3>3 DEF LoggerTypeOK, Rotated
    <3>. QED  BY <2>3, <3>1, <3>2, <3>3
  <2>7. count' \in 0 .. MaxBatch
    BY <1>5 DEF LoggerTypeOK, ProcessOne
  <2>8. Len(queue') <= QueueSize
    BY <2>2 DEF LoggerTypeOK
  <2>. QED
    BY <1>5, <2>2, <2>4, <2>5, <2>6, <2>7, <2>8 DEF LoggerTypeOK, ProcessOne, mainVars, callerVars
<1>6. CASE EndPass
  BY <1>6 DEF LoggerTypeOK, EndPass, mainVars, callerVars, diskVars
<1>7. CASE Wake
  BY <1>7 DEF LoggerTypeOK, Wake, mainVars, callerVars, diskVars
<1>8. CASE Tick
  BY <1>8 DEF LoggerTypeOK, Tick, mainVars, callerVars, bgVars, diskVars
<1>9. CASE UNCHANGED loggerVars
  BY <1>9 DEF LoggerTypeOK, loggerVars, mainVars, callerVars, bgVars, diskVars
<1>. QED
  BY <1>1, <1>2, <1>3, <1>4, <1>5, <1>6, <1>7, <1>8, <1>9 DEF LoggerNext, BackgroundThread

\* Readable files stay readable while nobody writes.
LEMMA FilesSame ==
    ASSUME FilesAreReadable, UNCHANGED <<written, live, archives>>
    PROVE  FilesAreReadable'
<1>1. written' = written /\ live' = live /\ archives' = archives
  OBVIOUS
<1>. QED  BY <1>1 DEF FilesAreReadable, Ascending, Before

\* Steps that leave the queue, the lines and the files alone keep the rest.
LEMMA QuietStep ==
    ASSUME IInv, LoggerTypeOK', UNCHANGED <<queue, accepted, written, live, archives, size, times>>,
           clock' >= clock
    PROVE  IInv'
<1>1. clock \in Nat /\ clock' \in Nat
  BY DEF IInv, LoggerInv, LoggerTypeOK
<1>2. NameInv'
  BY <1>1 DEF IInv, NameInv
<1>3. FilesAreReadable'
  BY FilesSame DEF IInv, LoggerInv
<1>4. QueueInv' /\ WrittenInv' /\ DiskInv' /\ SizeInv' /\ CacheInv'
  BY DEF IInv, QueueInv, Ascending, WrittenInv, DiskInv, Precedes, Stored, SizeInv, CacheInv
<1>. QED  BY <1>2, <1>3, <1>4 DEF IInv, LoggerInv

LEMMA InitLoggerStep == IInv /\ InitLogger /\ LoggerTypeOK' => IInv'
<1>. SUFFICES ASSUME IInv, InitLogger, LoggerTypeOK' PROVE IInv'
  OBVIOUS
<1>1. UNCHANGED <<queue, accepted, written, live, archives, clock>>
  BY DEF InitLogger
<1>2. SizeInv' /\ CacheInv'
  <2>1. Len(live) \in Nat
    BY LenProperties DEF IInv, LoggerInv, LoggerTypeOK
  <2>. QED  BY <1>1, <2>1 DEF InitLogger, SizeInv, CacheInv
<1>3. FilesAreReadable'
  BY <1>1, FilesSame DEF IInv, LoggerInv
<1>4. QueueInv' /\ WrittenInv' /\ DiskInv' /\ NameInv'
  BY ZenonT(60), <1>1 DEF IInv, QueueInv, Ascending, WrittenInv, DiskInv, Precedes, Stored, NameInv
<1>. QED  BY <1>2, <1>3, <1>4 DEF IInv, LoggerInv

LEMMA DestroyStep == IInv /\ Destroy /\ LoggerTypeOK' => IInv'
<1>. SUFFICES ASSUME IInv, Destroy, LoggerTypeOK' PROVE IInv'
  OBVIOUS
<1>1. UNCHANGED <<accepted, written, live, archives, clock, size, times>> /\ queue' = <<>>
  BY DEF Destroy
<1>2. FilesAreReadable'
  BY <1>1, FilesSame DEF IInv, LoggerInv
<1>3. \A i \in 1 .. Len(queue') : FALSE
  BY <1>1
<1>4. QueueInv' /\ WrittenInv' /\ DiskInv'
  BY <1>1, <1>3 DEF IInv, QueueInv, Ascending, WrittenInv, DiskInv, Precedes, Stored
<1>5. NameInv' /\ SizeInv' /\ CacheInv'
  BY <1>1 DEF IInv, NameInv, SizeInv, CacheInv
<1>. QED  BY <1>2, <1>4, <1>5 DEF IInv, LoggerInv

\* The entry a thread enqueues gets the next id.
LEMMA ClaimFacts ==
    ASSUME LoggerTypeOK, NEW t \in Threads, Claim(t)
    PROVE  entry'[t] \in Entry /\ entry'[t].id = accepted + 1
<1>1. entry \in [Threads -> Entry] /\ accepted \in 0 .. MaxEntries /\ MaxEntries \in Nat
  BY LogSizesAssumption DEF LoggerTypeOK
<1>2. accepted < MaxEntries /\ entry' = [entry EXCEPT ![t].id = accepted + 1]
  BY DEF Claim
<1>3. accepted + 1 \in 0 .. MaxEntries
  BY <1>1, <1>2
<1>4. entry'[t] = [entry[t] EXCEPT !.id = accepted + 1]
  BY <1>1, <1>2
<1>5. entry[t] \in Entry
  BY <1>1
<1>. QED  BY <1>3, <1>4, <1>5 DEF Entry

\* A slot is claimed: the new id is above every id so far.
LEMMA ClaimStep == ASSUME IInv, NEW t \in Threads, Claim(t), LoggerTypeOK' PROVE IInv'
<1>. DEFINE e == entry'[t]
<1>1. /\ UNCHANGED <<written, live, archives, clock, size, times>>
      /\ queue' = Append(queue, e) /\ accepted' = accepted + 1
  BY DEF Claim, bgVars, diskVars
<1>2. e \in Entry /\ e.id = accepted + 1
  BY ClaimFacts DEF IInv, LoggerInv
<1>. HIDE DEF e
<1>3. queue \in Seq(Entry) /\ accepted \in Nat
  BY DEF IInv, LoggerInv, LoggerTypeOK
<1>4. /\ Len(queue') = Len(queue) + 1 /\ Len(queue) \in Nat
      /\ \A i \in 1 .. Len(queue) : queue'[i] = queue[i]
      /\ queue'[Len(queue) + 1] = e
  BY <1>1, <1>2, <1>3, AppendProperties, LenProperties
<1>5. \A i \in 1 .. Len(queue') : \/ i \in 1 .. Len(queue) /\ queue'[i] = queue[i]
                                \/ queue'[i].id = accepted + 1
  BY <1>2, <1>4
<1>6. \A n \in 1 .. accepted : n \in 1 .. accepted' /\ n < accepted + 1
  BY <1>1, <1>3
<1>7. QueueInv'
  <2>1. \A i \in 1 .. Len(queue') : queue'[i].id \in 1 .. accepted'
    BY <1>1, <1>3, <1>5, <1>6 DEF IInv, QueueInv
  <2>2. \A n \in Stored(queue) : n < e.id
    BY <1>2, <1>6 DEF IInv, QueueInv, Stored
  <2>3. Ascending(queue')
    BY <1>1, <1>2, <1>3, <2>2, AscendingAppend DEF IInv, QueueInv
  <2>. QED  BY <2>1, <2>3 DEF QueueInv
<1>8. WrittenInv'
  BY <1>1, <1>5, <1>6 DEF IInv, WrittenInv
<1>9. ASSUME NEW n, n \in 1 .. accepted, \A i \in 1 .. Len(queue) : n < queue[i].id
      PROVE  n \in 1 .. accepted' /\ \A i \in 1 .. Len(queue') : n < queue'[i].id
  BY <1>5, <1>6, <1>9
<1>10. DiskInv'
  <2>1. \A n \in Stored(live) :
            n \in 1 .. accepted' /\ \A i \in 1 .. Len(queue') : n < queue'[i].id
    BY <1>9 DEF IInv, DiskInv, Precedes
  <2>2. \A s \in 1 .. MaxSecond : \A n \in Stored(archives[s]) :
            n \in 1 .. accepted' /\ \A i \in 1 .. Len(queue') : n < queue'[i].id
    BY <1>9 DEF IInv, DiskInv, Precedes
  <2>. QED  BY <1>1, <2>1, <2>2 DEF DiskInv, Precedes
<1>11. FilesAreReadable'
  BY <1>1, FilesSame DEF IInv, LoggerInv
<1>12. NameInv' /\ SizeInv' /\ CacheInv'
  BY <1>1 DEF IInv, NameInv, SizeInv, CacheInv
<1>. QED  BY <1>7, <1>8, <1>10, <1>11, <1>12 DEF IInv, LoggerInv

\* Where the files stand once `line` is written: it is later than every line
\* on the disk.
LEMMA FilesStep ==
    ASSUME IInv, NEW line \in Line,
           \A n \in Stored(live) : n < line.id,
           \A s \in 1 .. MaxSecond : \A n \in Stored(archives[s]) : n < line.id,
           line.shown = line.second, written' = Append(written, line),
           clock' = clock, UNCHANGED diskVars \/ Kept(line) \/ Rotated(line)
    PROVE  FilesAreReadable' /\ NameInv' /\ SizeInv'
<1>0. /\ LoggerTypeOK /\ live \in Seq(Line) /\ Len(live) \in Nat /\ size \in Nat /\ size <= Len(live)
      /\ clock \in 1 .. MaxSecond /\ written \in Seq(Line)
      /\ archives \in [1 .. MaxSecond -> Seq(Line)]
      /\ MaxFileSize \in Nat /\ MaxSecond \in Nat
  BY LenProperties, LogSizesAssumption DEF IInv, LoggerInv, LoggerTypeOK, SizeInv
<1>. DEFINE lines == Append(live, line)
<1>1. /\ lines \in Seq(Line) /\ Len(lines) = Len(live) + 1
      /\ Stored(lines) = Stored(live) \cup {line.id} /\ Ascending(lines)
  BY <1>0, AppendProperties, StoredAppend, AscendingAppend
     DEF IInv, LoggerInv, FilesAreReadable
<1>. HIDE DEF lines
<1>2. \A s \in 1 .. MaxSecond : Before(archives[s], lines)
  BY <1>1 DEF IInv, LoggerInv, FilesAreReadable, Before
<1>3. \A i \in 1 .. Len(written') : written'[i].shown = written'[i].second
  <2>1. /\ Len(written') = Len(written) + 1 /\ Len(written) \in Nat
        /\ \A i \in 1 .. Len(written) : written'[i] = written[i]
        /\ written'[Len(written) + 1] = line
    BY <1>0, AppendProperties, LenProperties
  <2>2. \A i \in 1 .. Len(written') : i \in 1 .. Len(written) \/ i = Len(written) + 1
    BY <2>1
  <2>3. \A i \in 1 .. Len(written) : written[i].shown = written[i].second
    BY DEF IInv, LoggerInv, FilesAreReadable
  <2>. QED  BY <2>1, <2>2, <2>3
<1>. DEFINE Readable(f, a) ==
              /\ \A s \in 1 .. MaxSecond : Ascending(a[s])
              /\ Ascending(f)
              /\ \A s \in 1 .. MaxSecond :
                    /\ Before(a[s], f)
                    /\ \A r \in 1 .. s - 1 : Before(a[r], a[s])
                    /\ a[s] = <<>> \/ Len(a[s]) >= MaxFileSize
<1>4. Readable(live, archives)
  BY DEF IInv, LoggerInv, FilesAreReadable
<1>5. CASE UNCHANGED diskVars
  <2>1. UNCHANGED <<live, archives, size>>
    BY <1>5 DEF diskVars
  <2>2. FilesAreReadable'
    BY <1>3, <1>4, <2>1 DEF FilesAreReadable
  <2>. QED  BY <2>1, <2>2 DEF IInv, NameInv, SizeInv
<1>6. CASE Kept(line)
  <2>1. live' = lines /\ archives' = archives /\ (size' = size + 1 \/ size' = 0)
    BY <1>6 DEF Kept, lines
  <2>2. Readable(lines, archives)
    BY <1>1, <1>2, <1>4
  <2>3. FilesAreReadable'
    BY <1>3, <2>1, <2>2 DEF FilesAreReadable
  <2>4. size' <= Len(lines)
    BY <1>0, <1>1, <2>1
  <2>. QED  BY <2>1, <2>3, <2>4 DEF IInv, NameInv, SizeInv
<1>7. CASE Rotated(line)
  <2>. DEFINE after == [archives EXCEPT ![clock] = lines]
  <2>1. /\ live' = <<>> /\ size' = 0 /\ size + 1 >= MaxFileSize /\ archives' = after
    BY <1>7 DEF Rotated, lines
  <2>2. \A s \in 1 .. MaxSecond : after[s] = IF s = clock THEN lines ELSE archives[s]
    BY <1>0
  <2>. HIDE DEF after
  <2>3. Len(lines) >= MaxFileSize
    BY <1>0, <1>1, <2>1
  <2>4. Stored(<<>>) = {} /\ Ascending(<<>>)
    BY StoredEmpty DEF Ascending
  <2>5. \A s \in 1 .. MaxSecond : s > clock => archives[s] = <<>>
    BY DEF IInv, NameInv
  <2>6. ASSUME NEW s \in 1 .. MaxSecond
        PROVE  /\ Ascending(after[s]) /\ Before(after[s], <<>>)
               /\ after[s] = <<>> \/ Len(after[s]) >= MaxFileSize
    BY <1>1, <1>4, <2>2, <2>3, <2>4 DEF Before
  <2>7. ASSUME NEW s \in 1 .. MaxSecond, NEW r \in 1 .. s - 1
        PROVE  Before(after[r], after[s])
    <3>1. r \in 1 .. MaxSecond /\ r < s
      BY <1>0
    <3>2. CASE s = clock
      BY <1>2, <2>2, <3>1, <3>2
    <3>3. CASE r = clock
      BY <2>2, <2>4, <2>5, <3>1, <3>3 DEF Before
    <3>4. CASE s # clock /\ r # clock
      BY <1>4, <2>2, <3>1, <3>4
    <3>. QED  BY <3>2, <3>3, <3>4
  <2>8. Readable(<<>>, after)
    BY <2>4, <2>6, <2>7
  <2>9. FilesAreReadable'
    BY <1>3, <2>1, <2>8 DEF FilesAreReadable
  <2>10. NameInv'
    <3>. SUFFICES ASSUME NEW s \in 1 .. MaxSecond, s > clock PROVE after[s] = <<>>
      BY <2>1 DEF NameInv
    <3>. QED  BY <1>0, <2>2, <2>5
  <2>11. SizeInv'
    BY <2>1 DEF SizeInv
  <2>. QED  BY <2>9, <2>10, <2>11
<1>. QED  BY <1>5, <1>6, <1>7

\* The oldest entry becomes a line.
LEMMA ProcessOneStep == IInv /\ ProcessOne /\ LoggerTypeOK' => IInv'
<1>. SUFFICES ASSUME IInv, ProcessOne, LoggerTypeOK' PROVE IInv'
  OBVIOUS
<1>. DEFINE e == Head(queue)
<1>1. /\ queue # <<>> /\ WriteEntry(e) /\ queue' = Tail(queue) /\ accepted' = accepted
      /\ clock' = clock
  BY DEF ProcessOne, CanDequeue
<1>2. /\ e \in Entry /\ e.id \in 1 .. accepted /\ e.id \in 1 .. MaxEntries
      /\ Len(queue') = Len(queue) - 1 /\ Len(queue) \in Nat \ {0}
      /\ \A i \in 1 .. Len(queue') : queue'[i] = queue[i + 1] /\ e.id < queue'[i].id
      /\ 1 \in 1 .. Len(queue) /\ e = queue[1]
  BY <1>1, HeadFacts
<1>. HIDE DEF e
<1>3. LoggerTypeOK /\ CacheInv
  BY DEF IInv, LoggerInv
<1>4. CacheInv' /\ times'.shows = e.second
  BY <1>1, <1>2, <1>3, WriteFacts
<1>5. PICK line \in Line :
          /\ line = [id |-> e.id, second |-> e.second, shown |-> times'.shows]
          /\ written' = Append(written, line)
          /\ UNCHANGED diskVars \/ Kept(line) \/ Rotated(line)
  BY <1>1, <1>2, <1>3, WriteFacts
<1>6. line.id = e.id /\ line.shown = line.second
  BY <1>4, <1>5
<1>7. /\ \A n \in Stored(live) : n < line.id
      /\ \A s \in 1 .. MaxSecond : \A n \in Stored(archives[s]) : n < line.id
  BY <1>2, <1>6 DEF IInv, DiskInv, Precedes
<1>8. FilesAreReadable' /\ NameInv' /\ SizeInv'
  BY <1>1, <1>5, <1>6, <1>7, FilesStep
<1>9. \A i \in 1 .. Len(queue') : i + 1 \in 1 .. Len(queue)
  BY <1>2
<1>10. QueueInv'
  <2>1. \A i \in 1 .. Len(queue') : queue'[i].id \in 1 .. accepted'
    BY <1>1, <1>2, <1>9 DEF IInv, QueueInv
  <2>2. Ascending(queue')
    <3>1. \A i, j \in 1 .. Len(queue) : i < j => queue[i].id < queue[j].id
      BY DEF IInv, QueueInv, Ascending
    <3>. SUFFICES ASSUME NEW i \in 1 .. Len(queue'), NEW j \in 1 .. Len(queue'), i < j
                  PROVE  queue'[i].id < queue'[j].id
      BY DEF Ascending
    <3>2. i + 1 \in 1 .. Len(queue) /\ j + 1 \in 1 .. Len(queue) /\ i + 1 < j + 1
      BY <1>9
    <3>3. queue[i + 1].id < queue[j + 1].id
      BY <3>1, <3>2
    <3>. QED  BY <1>2, <3>3
  <2>. QED  BY <2>1, <2>2 DEF QueueInv
<1>11. WrittenInv'
  <2>1. written \in Seq(Line)
    BY <1>3 DEF LoggerTypeOK
  <2>2. /\ Len(written') = Len(written) + 1 /\ Len(written) \in Nat
        /\ \A j \in 1 .. Len(written) : written'[j] = written[j]
        /\ written'[Len(written) + 1] = line
    BY <1>5, <2>1, AppendProperties, LenProperties
  <2>3. \A j \in 1 .. Len(written') : j \in 1 .. Len(written) \/ j = Len(written) + 1
    BY <2>2
  <2>4. ASSUME NEW j \in 1 .. Len(written)
        PROVE  /\ written[j].id \in 1 .. accepted
               /\ \A i \in 1 .. Len(queue') : written[j].id < queue'[i].id
    BY <1>2, <1>9 DEF IInv, WrittenInv
  <2>. QED  BY <1>1, <1>2, <1>6, <2>2, <2>3, <2>4 DEF WrittenInv
<1>12. DiskInv'
  <2>. DEFINE Early(n) == n \in 1 .. accepted /\ \A i \in 1 .. Len(queue') : n < queue'[i].id
  <2>1. ASSUME NEW n, n \in 1 .. accepted, \A i \in 1 .. Len(queue) : n < queue[i].id
        PROVE  Early(n)
    BY <1>2, <1>9, <2>1
  <2>2. Early(line.id)
    BY <1>2, <1>6
  <2>3. /\ \A n \in Stored(live) : Early(n)
        /\ \A s \in 1 .. MaxSecond : \A n \in Stored(archives[s]) : Early(n)
    BY <2>1 DEF IInv, DiskInv, Precedes
  <2>4. \A n \in Stored(Append(live, line)) : Early(n)
    <3>1. Stored(Append(live, line)) = Stored(live) \cup {line.id}
      <4>1. live \in Seq(Line)
        BY <1>3 DEF LoggerTypeOK
      <4>. QED  BY <4>1, StoredAppend
    <3>. QED  BY <2>2, <2>3, <3>1
  <2>5. /\ \A n \in Stored(live') : Early(n)
        /\ \A s \in 1 .. MaxSecond : \A n \in Stored(archives'[s]) : Early(n)
    <3>. HIDE DEF Early
    <3>1. CASE UNCHANGED diskVars
      BY <2>3, <3>1 DEF diskVars
    <3>2. CASE Kept(line)
      BY <2>3, <2>4, <3>2 DEF Kept
    <3>3. CASE Rotated(line)
      <4>1. \A s \in 1 .. MaxSecond :
                archives'[s] = IF s = clock THEN Append(live, line) ELSE archives[s]
        BY <1>3, <3>3 DEF LoggerTypeOK, Rotated
      <4>2. live' = <<>>
        BY <3>3 DEF Rotated
      <4>. QED  BY <2>3, <2>4, <4>1, <4>2, StoredEmpty
    <3>. QED  BY <1>5, <3>1, <3>2, <3>3
  <2>. QED  BY <1>1, <2>5 DEF DiskInv, Precedes
<1>. QED  BY <1>4, <1>8, <1>10, <1>11, <1>12 DEF IInv, LoggerInv

LEMMA InvStep == IInv /\ [LoggerNext]_loggerVars => IInv'
<1>. SUFFICES ASSUME IInv, [LoggerNext]_loggerVars PROVE IInv'
  OBVIOUS
<1>1. LoggerTypeOK'
  BY TypeStep
<1>2. clock \in Nat
  BY DEF IInv, LoggerInv, LoggerTypeOK
<1>3. CASE InitLogger
  BY <1>1, <1>3, InitLoggerStep
<1>4. CASE Shutdown
  BY <1>1, <1>2, <1>4, QuietStep DEF Shutdown, diskVars
<1>5. CASE Destroy
  BY <1>1, <1>5, DestroyStep
<1>6. ASSUME NEW t \in Threads, Log(t) PROVE IInv'
  <2>1. CASE Stamp(t)
    BY <1>1, <1>2, <2>1, QuietStep DEF Stamp, diskVars
  <2>2. CASE Claim(t)
    BY <1>1, <2>2, ClaimStep
  <2>3. CASE Publish(t)
    BY <1>1, <1>2, <2>3, QuietStep DEF Publish, diskVars
  <2>4. CASE QueueFull(t)
    BY <1>1, <1>2, <2>4, QuietStep DEF QueueFull, diskVars
  <2>. QED  BY <1>6, <2>1, <2>2, <2>3, <2>4 DEF Log
<1>7. CASE ProcessOne
  BY <1>1, <1>7, ProcessOneStep
<1>8. CASE EndPass
  BY <1>1, <1>2, <1>8, QuietStep DEF EndPass, diskVars
<1>9. CASE Wake
  BY <1>1, <1>2, <1>9, QuietStep DEF Wake, diskVars
<1>10. CASE Tick
  BY <1>1, <1>2, <1>10, QuietStep DEF Tick, diskVars
<1>11. CASE UNCHANGED loggerVars
  BY <1>1, <1>2, <1>11, QuietStep DEF loggerVars, diskVars
<1>. QED
  BY <1>3, <1>4, <1>5, <1>6, <1>7, <1>8, <1>9, <1>10, <1>11 DEF LoggerNext, BackgroundThread

LEMMA InvInit == LoggerInit => IInv
<1>. SUFFICES ASSUME LoggerInit PROVE IInv
  OBVIOUS
<1>1. LoggerTypeOK
  BY TypeInit
<1>2. /\ queue = <<>> /\ written = <<>> /\ live = <<>> /\ size = 0
      /\ times = [lastSecond |-> 0, shows |-> 0]
      /\ \A s \in 1 .. MaxSecond : archives[s] = <<>>
  BY DEF LoggerInit
<1>3. Len(<<>>) = 0 /\ \A i \in 1 .. 0 : FALSE
  OBVIOUS
<1>4. \A s \in 1 .. MaxSecond : \A r \in 1 .. s - 1 : r \in 1 .. MaxSecond
  BY LogSizesAssumption
<1>5. FilesAreReadable
  BY <1>2, <1>3, <1>4, StoredEmpty DEF FilesAreReadable, Ascending, Before
<1>6. QueueInv /\ WrittenInv /\ DiskInv
  BY <1>2, <1>3, StoredEmpty DEF QueueInv, Ascending, WrittenInv, DiskInv, Precedes
<1>7. NameInv /\ SizeInv /\ CacheInv
  BY <1>2, <1>3 DEF NameInv, SizeInv, CacheInv
<1>. QED  BY <1>1, <1>5, <1>6, <1>7 DEF IInv, LoggerInv

LEMMA InvariantHolds == LoggerSpec => []IInv
BY InvInit, InvStep, PTL DEF LoggerSpec

-----------------------------------------------------------------------------
(* What the logger promises                                                 *)

\* Whoever logs, however the passes are cut, whenever files are rotated and
\* however often the logger is started again: every file is in order, files are
\* named in order, full when rotated, and every line shows its own second
\* (writeEntry, rotateIfNeeded, formatTimestamp).
THEOREM LogIsReadable == LoggerSpec => []LoggerInv
<1>1. IInv => LoggerInv
  BY DEF IInv
<1>. QED  BY <1>1, InvariantHolds, PTL

OnDisk == Stored(live) \cup UNION {Stored(archives[s]) : s \in 1 .. MaxSecond}

ReplacesArchive == archives[clock] # <<>> /\ archives' # archives

\* A line leaves the disk in one way only, for any sizes and any number of callers
\* and restarts: a second rotation within one second takes the name of the archive
\* that the first has made (rotateIfNeeded). Not all history files are kept, as
\* Logger.cpp:232 says, but no line is lost in another way.
THEOREM LinesLeaveWithAnArchive ==
    LoggerSpec => [][OnDisk \subseteq OnDisk' \/ ReplacesArchive]_loggerVars
<1>. DEFINE Stays == OnDisk \subseteq OnDisk' \/ ReplacesArchive
<1>1. ASSUME IInv, LoggerNext PROVE Stays
  <2>1. LoggerTypeOK /\ live \in Seq(Line) /\ archives \in [1 .. MaxSecond -> Seq(Line)]
        /\ clock \in 1 .. MaxSecond
    BY <1>1 DEF IInv, LoggerInv, LoggerTypeOK
  <2>2. CASE UNCHANGED <<live, archives>>
    BY <2>2 DEF OnDisk
  <2>3. CASE ProcessOne
    <3>1. queue # <<>> /\ WriteEntry(Head(queue))
      BY <2>3 DEF ProcessOne, CanDequeue
    <3>2. Head(queue) \in Entry /\ Head(queue).id \in 1 .. MaxEntries
      BY <1>1, <3>1, HeadFacts
    <3>3. PICK line \in Line : UNCHANGED diskVars \/ Kept(line) \/ Rotated(line)
      BY <2>1, <3>1, <3>2, WriteFacts
    <3>4. Stored(Append(live, line)) = Stored(live) \cup {line.id}
      BY <2>1, StoredAppend
    <3>5. CASE UNCHANGED diskVars
      BY <2>2, <3>5 DEF diskVars
    <3>6. CASE Kept(line)
      BY <3>4, <3>6 DEF Kept, OnDisk
    <3>7. CASE Rotated(line)
      <4>1. \A s \in 1 .. MaxSecond :
                archives'[s] = IF s = clock THEN Append(live, line) ELSE archives[s]
        BY <2>1, <3>7 DEF Rotated
      <4>2. CASE archives[clock] = <<>>
        <5>1. Stored(live) \subseteq Stored(archives'[clock])
          BY <2>1, <3>4, <4>1
        <5>2. ASSUME NEW s \in 1 .. MaxSecond
              PROVE  Stored(archives[s]) \subseteq Stored(archives'[s])
          BY <4>1, <4>2, StoredEmpty
        <5>. QED  BY <2>1, <5>1, <5>2 DEF OnDisk
      <4>3. CASE archives[clock] # <<>> /\ archives' = archives
        <5>1. Stored(live) \subseteq Stored(archives[clock])
          BY <2>1, <3>4, <4>1, <4>3
        <5>. QED  BY <2>1, <4>3, <5>1 DEF OnDisk
      <4>. QED  BY <4>1, <4>2, <4>3 DEF ReplacesArchive
    <3>. QED  BY <3>3, <3>5, <3>6, <3>7
  <2>4. ASSUME NEW t \in Threads, Log(t) PROVE UNCHANGED <<live, archives>>
    BY <2>4 DEF Log, Stamp, Claim, Publish, QueueFull, diskVars
  <2>5. CASE InitLogger \/ Shutdown \/ Destroy \/ EndPass \/ Wake \/ Tick
    BY <2>2, <2>5 DEF InitLogger, Shutdown, Destroy, EndPass, Wake, Tick, diskVars
  <2>. QED  BY <1>1, <2>2, <2>3, <2>4, <2>5 DEF LoggerNext, BackgroundThread
<1>2. IInv /\ [LoggerNext]_loggerVars => [Stays]_loggerVars
  BY <1>1
<1>. QED  BY <1>2, InvariantHolds, PTL DEF LoggerSpec

\* The ids of a longer sequence and of its tail.
LEMMA IdsFacts ==
    ASSUME NEW S, NEW s \in Seq(S), NEW e \in S
    PROVE  /\ Ids(Append(s, e)) = Append(Ids(s), e.id)
           /\ s # <<>> => /\ Ids(s) # <<>> /\ Ids(Tail(s)) = Tail(Ids(s))
                          /\ Head(Ids(s)) = Head(s).id
           /\ Ids(<<>>) = <<>>
           /\ Len(Ids(s)) = Len(s)
BY LenProperties, AppendProperties, HeadTailProperties DEF Ids

\* The logger implements the log stream: an accepted entry waits in line and is
\* written once, in the order of acceptance (log, processLogs, shutdown).
THEOREM LoggerImplementsLogStream == LoggerSpec => ImplementsLogStream
<1>. DEFINE Step == \/ \E e \in 1 .. MaxEntries : Stream!Accept(e)
                    \/ Stream!WriteNext
                    \/ Stream!GiveUp
            Same == Ids(queue)' = Ids(queue) /\ Ids(written)' = Ids(written)
<1>1. LoggerInit => Stream!LogInit
  BY DEF LoggerInit, Stream!LogInit, Ids
<1>2. ASSUME IInv, [LoggerNext]_loggerVars PROVE Step \/ Same
  <2>1. /\ queue \in Seq(Entry) /\ written \in Seq(Line) /\ accepted \in 0 .. MaxEntries
    BY <1>2 DEF IInv, LoggerInv, LoggerTypeOK
  <2>2. CASE UNCHANGED <<queue, written>>
    BY <2>2
  <2>3. CASE Destroy
    <3>1. queue' = <<>> /\ written' = written
      BY <2>3 DEF Destroy
    <3>2. Ids(queue') = <<>> /\ Ids(written') = Ids(written)
      BY <3>1 DEF Ids
    <3>. QED  BY <3>2 DEF Stream!GiveUp
  <2>4. ASSUME NEW t \in Threads, Claim(t) PROVE Step
    <3>. DEFINE e == entry'[t]
    <3>1. /\ queue' = Append(queue, e) /\ written' = written
          /\ accepted < MaxEntries
      BY <2>4 DEF Claim
    <3>2. e \in Entry /\ e.id = accepted + 1
      BY <1>2, <2>4, ClaimFacts DEF IInv, LoggerInv
    <3>. HIDE DEF e
    <3>3. Ids(queue') = Append(Ids(queue), accepted + 1) /\ Ids(written') = Ids(written)
      BY <2>1, <3>1, <3>2, IdsFacts
    <3>4. \A n \in 1 .. accepted : n # accepted + 1
      BY <2>1
    <3>5. \A i \in 1 .. Len(Ids(queue)) : Ids(queue)[i] # accepted + 1
      BY <1>2, <3>4 DEF IInv, QueueInv, Ids
    <3>6. \A i \in 1 .. Len(Ids(written)) : Ids(written)[i] # accepted + 1
      BY <1>2, <3>4 DEF IInv, WrittenInv, Ids
    <3>7. Stream!Accept(accepted + 1)
      BY <3>3, <3>5, <3>6 DEF Stream!Accept
    <3>8. accepted + 1 \in 1 .. MaxEntries
      BY <2>1, <3>1, LogSizesAssumption
    <3>. QED  BY <3>7, <3>8
  <2>5. CASE ProcessOne
    <3>1. queue # <<>> /\ WriteEntry(Head(queue)) /\ queue' = Tail(queue)
      BY <2>5 DEF ProcessOne, CanDequeue
    <3>2. Head(queue) \in Entry /\ Head(queue).id \in 1 .. MaxEntries
      BY <1>2, <3>1, HeadFacts
    <3>3. PICK line \in Line : line.id = Head(queue).id /\ written' = Append(written, line)
      BY <1>2, <3>1, <3>2, WriteFacts DEF IInv, LoggerInv
    <3>4. /\ Ids(queue) # <<>> /\ Ids(queue') = Tail(Ids(queue))
          /\ Head(Ids(queue)) = line.id
      BY <2>1, <3>1, <3>3, IdsFacts, HeadTailProperties
    <3>5. Ids(written') = Append(Ids(written), line.id)
      BY <2>1, <3>3, IdsFacts
    <3>. QED  BY <3>4, <3>5 DEF Stream!WriteNext
  <2>6. ASSUME NEW t \in Threads, Stamp(t) \/ Publish(t) \/ QueueFull(t)
        PROVE  UNCHANGED <<queue, written>>
    BY <2>6 DEF Stamp, Publish, QueueFull, diskVars
  <2>7. CASE InitLogger \/ Shutdown \/ EndPass \/ Wake \/ Tick \/ UNCHANGED loggerVars
    BY <2>2, <2>7 DEF InitLogger, Shutdown, EndPass, Wake, Tick, loggerVars, diskVars
  <2>. QED
    BY <1>2, <2>2, <2>3, <2>4, <2>5, <2>6, <2>7 DEF LoggerNext, BackgroundThread, Log
<1>3. IInv /\ [LoggerNext]_loggerVars => [Step]_(Stream!lsVars)
  BY <1>2 DEF Stream!lsVars
<1>. QED
  BY <1>1, <1>3, InvariantHolds, PTL DEF LoggerSpec, ImplementsLogStream, Stream!LogSpec
=============================================================================
