---------------------------- MODULE RecordReader ----------------------------
(***************************************************************************)
(* cyber/record, the reading side: RecordReader walks the sections of one  *)
(* file, RecordViewer merges several readers window by window.  Readers    *)
(* and viewer are records, their methods functions from state to result.   *)
(* A file is a header and a sequence of sections; a position is a section  *)
(* number; a message has a time and a channel.  For TLC only.              *)
(***************************************************************************)
EXTENDS Integers, Sequences, FiniteSets, SequencesExt

CONSTANTS
  kStepTimeNanoSec,  \* width of a window of the viewer
  kBufferMinSize     \* messages the viewer wants in its buffer

\* ReadIndex(): only a complete file has an index.
ReadIndex(file) ==
  IF file.header.isComplete THEN file.sections[file.header.indexPosition].channels
                            ELSE <<>>

\* RecordFileReader::Reset(): the position behind the header.
FirstSection == 1
\* RecordFileReader::Open() and ReadHeader(); the writer puts the header first.
ReadHeader(file) == [header |-> file.header, sections |-> file.sections, pos |-> FirstSection]

\* The constructor.
OpenReader(file) ==
  ReadHeader(file)
    @@ [chunk |-> <<>>, messageIndex |-> 0, reachEnd |-> FALSE, channels |-> ReadIndex(file)]

\* ReadSection() at the end of the file.
EndOfFile(r) == r.pos > Len(r.sections)

ResetReader(r) ==
  [r EXCEPT !.pos = FirstSection, !.chunk = <<>>, !.messageIndex = 0, !.reachEnd = FALSE]

\* Fault: a chunk that starts before the window is passed over.
RECURSIVE FaultyNextChunk(_, _, _, _)
FaultyNextChunk(r, begin, end, skip) ==
  IF r.reachEnd \/ EndOfFile(r) THEN [found |-> FALSE, reader |-> r]
  ELSE LET s == r.sections[r.pos]
           next == [r EXCEPT !.pos = @ + 1]
       IN CASE s.type = "index" -> [found |-> FALSE, reader |-> [next EXCEPT !.reachEnd = TRUE]]
            [] s.type = "channel" -> FaultyNextChunk(next, begin, end, skip)
            [] s.type = "chunkHeader" ->
                 IF s.begin > end THEN [found |-> FALSE, reader |-> next]
                 ELSE FaultyNextChunk(next, begin, end, skip \/ s.begin < begin)
            [] s.type = "chunkBody" ->
                 IF skip THEN FaultyNextChunk(next, begin, end, FALSE)
                 ELSE [found |-> TRUE, reader |-> [next EXCEPT !.chunk = s.messages]]

\* The next chunk body whose header does not end before the window.
RECURSIVE ReadNextChunk(_, _, _, _)
ReadNextChunk(r, begin, end, skip) ==
  IF r.reachEnd \/ EndOfFile(r) THEN [found |-> FALSE, reader |-> r]
  ELSE LET s == r.sections[r.pos]
           next == [r EXCEPT !.pos = @ + 1]
       IN CASE s.type = "index" -> [found |-> FALSE, reader |-> [next EXCEPT !.reachEnd = TRUE]]
            [] s.type = "channel" -> ReadNextChunk(next, begin, end, skip)
            [] s.type = "chunkHeader" ->
                 IF s.begin > end THEN [found |-> FALSE, reader |-> next]
                 ELSE ReadNextChunk(next, begin, end, skip \/ s.end < begin)
            [] s.type = "chunkBody" ->
                 IF skip THEN ReadNextChunk(next, begin, end, FALSE)
                 ELSE [found |-> TRUE, reader |-> [next EXCEPT !.chunk = s.messages]]

\* The next message of [begin, end]; earlier ones are passed over for good,
\* a later one stays.
RECURSIVE ReadMessage(_, _, _)
ReadMessage(r, begin, end) ==
  LET rest == {i \in r.messageIndex + 1 .. Len(r.chunk) :
                 r.chunk[i].time >= begin \/ r.chunk[i].time > end}
      next == ReadNextChunk(r, begin, end, FALSE)
      i == CHOOSE j \in rest : \A k \in rest : j <= k
  IN CASE begin > r.header.end \/ end < r.header.begin -> [found |-> FALSE, reader |-> r]
       [] rest # {} /\ r.chunk[i].time > end ->
            [found |-> FALSE, reader |-> [r EXCEPT !.messageIndex = i - 1]]
       [] rest # {} -> [found |-> TRUE, reader |-> [r EXCEPT !.messageIndex = i],
                        message |-> r.chunk[i]]
       [] next.found -> ReadMessage([next.reader EXCEPT !.messageIndex = 0], begin, end)
       [] OTHER -> [found |-> FALSE,
                    reader |-> [next.reader EXCEPT !.messageIndex = Len(r.chunk)]]

-----------------------------------------------------------------------------
(* RecordViewer.                                                           *)
Before(r, s) ==
  r.header.begin < s.header.begin
    \/ (r.header.begin = s.header.begin /\ r.header.end < s.header.end)

\* UpdateTime(): the range asked for, cut down to that of the files.
Lowest(files) == CHOOSE t \in {f.header.begin : f \in Range(files)} :
                   \A f \in Range(files) : t <= f.header.begin
Highest(files) == CHOOSE t \in {f.header.end : f \in Range(files)} :
                    \A f \in Range(files) : t >= f.header.end

\* Constructor, Init() and UpdateTime(), and the Reset() of begin().
Viewer(files, begin, end, channels) ==
  LET from == IF begin < Lowest(files) THEN Lowest(files) ELSE begin IN
  [readers |-> SortSeq([i \in DOMAIN files |-> OpenReader(files[i])], Before),
   finished |-> [i \in DOMAIN files |-> FALSE], begin |-> from, curr |-> from,
   end |-> IF end > Highest(files) THEN Highest(files) ELSE end,
   channels |-> channels, buffer |-> <<>>]

\* emplace into a multimap: behind the messages of the same time.
Emplace(buffer, m) ==
  SelectSeq(buffer, LAMBDA e : e.time <= m.time) \o <<m>>
    \o SelectSeq(buffer, LAMBDA e : e.time > m.time)

\* One reader gives all it has of the window.
RECURSIVE Drain(_, _, _, _)
Drain(v, i, begin, end) ==
  LET got == ReadMessage(v.readers[i], begin, end)
      read == [v EXCEPT !.readers[i] = got.reader]
  IN  IF got.found
        THEN Drain([read EXCEPT !.buffer = Emplace(@, got.message)], i, begin, end)
        ELSE read

RECURSIVE DrainFrom(_, _, _, _)
DrainFrom(v, i, begin, end) ==
  IF i > Len(v.readers) THEN v
  ELSE DrainFrom(IF v.finished[i] THEN v ELSE Drain(v, i, begin, end), i + 1, begin, end)

\* Windows are read until the buffer is long enough or the range is over.
RECURSIVE FillBuffer(_)
FillBuffer(v) ==
  LET end == IF v.curr + kStepTimeNanoSec > v.end THEN v.end
             ELSE v.curr + kStepTimeNanoSec
      over == [i \in DOMAIN v.readers |->
                 ~v.finished[i] /\ v.readers[i].header.end < v.curr]
      ready == [v EXCEPT
        !.readers = [i \in DOMAIN @ |-> IF over[i] THEN ResetReader(@[i]) ELSE @[i]],
        !.finished = [i \in DOMAIN @ |-> @[i] \/ over[i]]]
  IN  IF v.curr > v.end \/ Len(v.buffer) >= kBufferMinSize THEN v
      ELSE FillBuffer([DrainFrom(ready, 1, v.curr, end) EXCEPT !.curr = end + 1])

\* Update(), called by the iterator until it finds nothing: what it yields.
RECURSIVE Iterate(_)
Iterate(v) ==
  LET full == IF v.buffer = <<>> THEN FillBuffer(v) ELSE v
      m == Head(full.buffer)
      wanted == v.channels = {} \/ m.channel \in v.channels
  IN  IF full.buffer = <<>> THEN <<>>
      ELSE (IF wanted THEN <<m>> ELSE <<>>)
             \o Iterate([full EXCEPT !.buffer = Tail(@)])

View(files, begin, end, channels) ==
  LET v == Viewer(files, begin, end, channels) IN
  IF v.begin > v.end THEN <<>> ELSE Iterate(v)
=============================================================================
