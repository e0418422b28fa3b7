---------------------------- MODULE RecordWriter ----------------------------
(***************************************************************************)
(* cyber/record, the writing side: RecordWriter splits a recording into    *)
(* files, RecordFileWriter collects messages in chunk_active_ and swaps it *)
(* with chunk_flush_, which its flush thread writes.  flush_mutex_ is held *)
(* across steps only between the thread's test of its condition and its    *)
(* wait.  A message counts 1 to the raw sizes.                             *)
(***************************************************************************)
EXTENDS Integers, Sequences, FiniteSets

CONSTANTS
  RecordChannels, Times,  \* what messages carry
  ChunkInterval, ChunkRawSize,
  SegmentIntervals, SegmentRawSizes,  \* values given to the setters
  MaxRecorded,            \* bound: messages written
  MaxWriteFailures        \* bound: failed write() and open() calls

VARIABLES
  recorder,   \* RecordWriter: header_, is_opened_, the channel map's keys,
              \* the segment's size and begin, and pc, its place in Close()
  writer,     \* RecordFileWriter: is_writing_, both chunks, header_, the
              \* per-channel numbers, and pc, its flush thread
  files,      \* the files: header and sections
  taken,      \* history: the messages written to each file
  lapse       \* history: unflushed chunk swapped back, notify_all lost,
              \* number of failed writes

recordVars == <<recorder, writer, files, taken, lapse>>

EmptyChunk == [messages |-> <<>>, begin |-> 0, end |-> 0]
Empty(chunk) == chunk.messages = <<>>

Add(chunk, m) ==
  [messages |-> Append(chunk.messages, m),
   begin |-> IF chunk.begin = 0 \/ chunk.begin > m.time THEN m.time ELSE chunk.begin,
   end |-> IF chunk.end < m.time THEN m.time ELSE chunk.end]

\* HeaderBuilder::GetHeader().
GetHeader ==
  [begin |-> 0, end |-> 0, messageNumber |-> 0, chunkNumber |-> 0,
   channelNumber |-> 0, indexPosition |-> 0, isComplete |-> FALSE]

NewFileWriter ==
  [is_writing_ |-> FALSE, active |-> EmptyChunk, flush |-> EmptyChunk,
   header |-> GetHeader, channels |-> {}, pc |-> "none",
   numbers |-> [c \in RecordChannels |-> 0]]

RecordInit ==
  /\ recorder = [interval |-> 0, rawSize |-> 0, is_opened_ |-> FALSE, known |-> {},
                 segmentSize |-> 0, segmentBegin |-> 0, pc |-> "idle", split |-> FALSE]
  /\ writer = NewFileWriter
  /\ files = <<>> /\ taken = <<>>
  /\ lapse = [swappedBack |-> FALSE, lostNotify |-> FALSE, failures |-> 0]

-----------------------------------------------------------------------------
(* The file on disk.                                                       *)
Current == Len(files)
Extended(sections) == [files EXCEPT ![Current].sections = @ \o sections]

\* Open() and WriteHeader() of a new file; its channels are those known.
OpenFile(known) ==
  /\ files' = Append(files, [header |-> GetHeader,
                             sections |-> [i \in 1 .. Cardinality(known) |->
                                             [type |-> "channel"]]])
  /\ taken' = Append(taken, <<>>)
  /\ writer' = [NewFileWriter EXCEPT !.is_writing_ = TRUE, !.pc = "loop", !.channels = known,
                                     !.header.channelNumber = Cardinality(known)]

ChunkSections(chunk) ==
  <<[type |-> "chunkHeader", begin |-> chunk.begin, end |-> chunk.end],
    [type |-> "chunkBody", messages |-> chunk.messages]>>

\* WriteChunk(): the header counts the chunk once its body is written.
ChunkWritten(header, chunk) ==
  [header EXCEPT !.chunkNumber = @ + 1,
                 !.begin = IF @ = 0 THEN chunk.begin ELSE @,
                 !.end = chunk.end,
                 !.messageNumber = @ + Len(chunk.messages)]

-----------------------------------------------------------------------------
(* The flush thread.                                                       *)
FlushLoop ==
  /\ writer.pc = "loop"
  /\ writer' = [writer EXCEPT !.pc = IF writer.is_writing_ THEN "test" ELSE "exit"]
  /\ UNCHANGED <<recorder, files, taken, lapse>>

\* Nothing to flush: the thread goes to wait, still with flush_mutex_.
FlushTest ==
  /\ writer.pc = "test"
  /\ Empty(writer.flush) \/ ~writer.is_writing_
  /\ writer' = [writer EXCEPT !.pc = IF writer.is_writing_ THEN "toWait" ELSE "exit"]
  /\ UNCHANGED <<recorder, files, taken, lapse>>

FlushWait ==
  /\ writer.pc = "toWait"
  /\ writer' = [writer EXCEPT !.pc = "wait"]
  /\ UNCHANGED <<recorder, files, taken, lapse>>

\* WriteChunk() and clear(): a failed chunk is dropped, its header may stay.
FlushChunk ==
  /\ writer.pc = "test" /\ ~Empty(writer.flush) /\ writer.is_writing_
  /\ \/ /\ files' = Extended(ChunkSections(writer.flush))
        /\ writer' = [writer EXCEPT !.flush = EmptyChunk, !.pc = "loop",
                                    !.header = ChunkWritten(@, writer.flush)]
        /\ UNCHANGED lapse
     \/ /\ lapse.failures < MaxWriteFailures
        /\ \/ files' = Extended(SubSeq(ChunkSections(writer.flush), 1, 1))
           \/ UNCHANGED files
        /\ writer' = [writer EXCEPT !.flush = EmptyChunk, !.pc = "loop"]
        /\ lapse' = [lapse EXCEPT !.failures = @ + 1]
  /\ UNCHANGED <<recorder, taken>>

FlushThread == FlushLoop \/ FlushTest \/ FlushWait \/ FlushChunk

-----------------------------------------------------------------------------
(* The recording thread, with RecordWriter::mutex_ in the Write calls.     *)
\* The setters are refused once the file is open.
SetSegmentation(size, interval) ==
  /\ ~recorder.is_opened_ /\ Current = 0
  /\ recorder' = [recorder EXCEPT !.rawSize = size, !.interval = interval]
  /\ UNCHANGED <<writer, files, taken, lapse>>

Open ==
  /\ ~recorder.is_opened_ /\ Current = 0
  /\ OpenFile({})
  /\ recorder' = [recorder EXCEPT !.is_opened_ = TRUE]
  /\ UNCHANGED lapse

\* WriteChannel(): a known channel is intercepted.
WriteChannel(c) ==
  /\ recorder.is_opened_ /\ recorder.pc = "idle" /\ c \notin recorder.known
  /\ recorder' = [recorder EXCEPT !.known = @ \union {c}]
  /\ files' = Extended(<<[type |-> "channel"]>>)
  /\ writer' = [writer EXCEPT !.channels = @ \union {c}, !.header.channelNumber = @ + 1]
  /\ UNCHANGED <<taken, lapse>>

NeedFlush(chunk, m) ==
  \/ ChunkInterval > 0 /\ m.time - chunk.begin > ChunkInterval
  \/ ChunkRawSize > 0 /\ Len(chunk.messages) > ChunkRawSize

NeedSplit(size, begin, m) ==
  \/ recorder.interval > 0 /\ m.time - begin > recorder.interval
  \/ recorder.rawSize > 0 /\ size > recorder.rawSize

\* chunk_flush_.swap(chunk_active_) and notify_one(), with flush_mutex_.
Swapped(w) ==
  [w EXCEPT !.active = w.flush, !.flush = w.active,
            !.pc = IF w.pc = "wait" THEN "test" ELSE w.pc]

\* The SingleMessage: its number in the file, and whether its channel was
\* declared, are history.
MessageOf(c, t) ==
  [id |-> Len(taken[Current]) + 1, channel |-> c, time |-> t,
   declared |-> c \in recorder.known]

\* RecordFileWriter::WriteMessage() and the split test of RecordWriter's.
WriteMessage(c, t) ==
  LET m == MessageOf(c, t)
      added == [writer EXCEPT !.active = Add(@, m), !.numbers[c] = @ + 1]
      begin == IF recorder.segmentBegin = 0 \/ recorder.segmentBegin > t
                 THEN t ELSE recorder.segmentBegin
      flush == NeedFlush(added.active, m)
      split == NeedSplit(recorder.segmentSize + 1, begin, m)
  IN
  /\ recorder.is_opened_ /\ recorder.pc = "idle"
  /\ flush => writer.pc # "toWait"
  /\ writer' = IF flush THEN Swapped(added) ELSE added
  /\ recorder' = [recorder EXCEPT !.segmentSize = @ + 1, !.segmentBegin = begin,
                                  !.pc = IF split THEN "drain" ELSE "idle", !.split = split]
  /\ taken' = [taken EXCEPT ![Current] = Append(@, m)]
  /\ lapse' = [lapse EXCEPT !.swappedBack = @ \/ (flush /\ ~Empty(writer.flush))]
  /\ UNCHANGED files

Close ==
  /\ recorder.is_opened_ /\ recorder.pc = "idle"
  /\ recorder' = [recorder EXCEPT !.pc = "drain"]
  /\ UNCHANGED <<writer, files, taken, lapse>>

\* Fault: the last swap does not wait for the chunk that is being flushed.
FaultyCloseSwap ==
  /\ recorder.pc = "drain" /\ writer.pc # "toWait"
  /\ writer' = Swapped(writer)
  /\ recorder' = [recorder EXCEPT !.pc = "last"]
  /\ UNCHANGED <<files, taken, lapse>>

\* RecordFileWriter::Close(): once chunk_flush_ is seen empty, the last swap.
CloseSwap ==
  /\ recorder.pc = "drain" /\ Empty(writer.flush) /\ writer.pc # "toWait"
  /\ writer' = Swapped(writer)
  /\ recorder' = [recorder EXCEPT !.pc = "last"]
  /\ UNCHANGED <<files, taken, lapse>>

\* is_writing_ is cleared without flush_mutex_.
CloseStop ==
  /\ recorder.pc = "last" /\ Empty(writer.flush)
  /\ writer' = [writer EXCEPT !.is_writing_ = FALSE]
  /\ recorder' = [recorder EXCEPT !.pc = "notify"]
  /\ UNCHANGED <<files, taken, lapse>>

\* Fault: the thread is not notified that it is to stop.
FaultyCloseNotify ==
  /\ recorder.pc = "notify"
  /\ recorder' = [recorder EXCEPT !.pc = "join"]
  /\ UNCHANGED <<writer, files, taken, lapse>>

\* flush_cv_.notify_all(), lost if the thread has tested but does not wait yet.
CloseNotify ==
  /\ recorder.pc = "notify"
  /\ writer' = [writer EXCEPT !.pc = IF @ = "wait" THEN "test" ELSE @]
  /\ lapse' = [lapse EXCEPT !.lostNotify = @ \/ writer.pc = "toWait"]
  /\ recorder' = [recorder EXCEPT !.pc = "join"]
  /\ UNCHANGED <<files, taken>>

\* join, WriteIndex() and the header over the old one.
CloseFile ==
  LET index == [type |-> "index",
                channels |-> [c \in writer.channels |-> writer.numbers[c]]]
      sections == Append(files[Current].sections, index)
  IN
  /\ recorder.pc = "join" /\ writer.pc = "exit"
  /\ files' = [files EXCEPT ![Current] =
       [header |-> [writer.header EXCEPT !.indexPosition = Len(sections),
                                         !.isComplete = TRUE],
        sections |-> sections]]
  /\ recorder' = [recorder EXCEPT !.pc = IF recorder.split THEN "split" ELSE "closed",
                                  !.is_opened_ = recorder.split]
  /\ writer' = NewFileWriter
  /\ UNCHANGED <<taken, lapse>>

\* SplitOutfile(): the known channels are written to the new file.  If it
\* cannot be opened the writer is broken: WriteMessage() would dereference
\* the chunks that Open() did not make.
SplitOutfile ==
  /\ recorder.pc = "split"
  /\ \/ /\ OpenFile(recorder.known)
        /\ recorder' = [recorder EXCEPT !.pc = "idle", !.split = FALSE,
                                        !.segmentSize = 0, !.segmentBegin = 0]
        /\ UNCHANGED lapse
     \/ /\ lapse.failures < MaxWriteFailures
        /\ lapse' = [lapse EXCEPT !.failures = @ + 1]
        /\ recorder' = [recorder EXCEPT !.pc = "broken"]
        /\ UNCHANGED <<writer, files, taken>>

MayRecord ==
  Cardinality({<<f, i>> \in (1 .. Current) \X (1 .. MaxRecorded) : i \in DOMAIN taken[f]})
    < MaxRecorded

RecordingThread ==
  CloseSwap \/ CloseStop \/ CloseNotify \/ CloseFile \/ SplitOutfile

RecordNext ==
  \/ FlushThread \/ RecordingThread \/ Open \/ Close
  \/ \E s \in SegmentRawSizes, i \in SegmentIntervals : SetSegmentation(s, i)
  \/ \E c \in RecordChannels : WriteChannel(c)
  \/ \E c \in RecordChannels, t \in Times : MayRecord /\ WriteMessage(c, t)

RecordSpec == RecordInit /\ [][RecordNext]_recordVars
RecordFairness == WF_recordVars(FlushThread) /\ WF_recordVars(RecordingThread)

-----------------------------------------------------------------------------
(***************************************************************************)
(* Between the threads no message is lost or doubled: what is in the       *)
(* chunks of the file and in the two buffers is what was taken for it,     *)
(* apart from chunks whose write failed.  A complete file says so in its   *)
(* header and, per declared channel, in its index, and a channel stays     *)
(* declared after a split.                                                 *)
(***************************************************************************)
Bodies(f) == SelectSeq(files[f].sections, LAMBDA s : s.type = "chunkBody")
InFile(f) == UNION {{Bodies(f)[i].messages[j] : j \in DOMAIN Bodies(f)[i].messages} :
                      i \in DOMAIN Bodies(f)}
Buffered(chunk) == {chunk.messages[i] : i \in DOMAIN chunk.messages}
Given(f) == {taken[f][i] : i \in DOMAIN taken[f]}
IndexOf(f) == files[f].sections[files[f].header.indexPosition].channels
RecordIsWhole ==
  lapse.failures = 0 => \A f \in 1 .. Current :
    /\ Given(f) = InFile(f) \union
         (IF f = Current THEN Buffered(writer.active) \union Buffered(writer.flush) ELSE {})
    /\ files[f].header.isComplete =>
         /\ files[f].header.messageNumber = Cardinality(Given(f))
         /\ \A m \in Given(f) : m.declared => m.channel \in DOMAIN IndexOf(f)
         /\ \A c \in DOMAIN IndexOf(f) :
              IndexOf(f)[c] = Cardinality({m \in Given(f) : m.channel = c})
    /\ f < Current => files[f].header.isComplete

(***************************************************************************)
(* Close(), also the one of a split, comes to an end, unless notify_all()  *)
(* falls between the flush thread's test of is_writing_ and its wait.      *)
(***************************************************************************)
CloseReturns ==
  recorder.pc = "drain" ~> (recorder.pc \in {"idle", "closed", "broken"} \/ lapse.lostNotify)
=============================================================================
