------------------------------- MODULE Logger --------------------------------
(***************************************************************************)
(* cyber/logger: the buffers between the application threads and the logger*)
(* thread, and the file objects behind them.                               *)
(***************************************************************************)
EXTENDS Integers, Sequences, FiniteSets

(***************************************************************************)
(* cyber/logger/async_logger: application threads append to active_buf_    *)
(* under mutex_, the logger thread swaps the buffers, writes to one file   *)
(* object per module and flushes them.  What happens while mutex_ is held  *)
(* is one step; a message is written outside it.  A message is its number, *)
(* its module and whether its level asks for a flush of its file; sizes    *)
(* count messages.                                                         *)
(***************************************************************************)
CONSTANTS
  Threads,       \* application threads
  Modules,       \* module names: one LogFileObject each
  MaxBuffered,   \* max_buffer_bytes_ / 2
  MaxMessages    \* bound: messages offered

VARIABLES
  logger,        \* state_, both buffers, flush_count_, the thread's pc and
                 \* how many messages of flushing_buf_ it has written
  logFile,       \* per module: the messages written, how many are on disk
  flushCall,     \* each thread's Flush(): pc, left (completions up to
                 \* orig_flush_count + 2), and history: the number of
                 \* messages accepted before it
  accepted,      \* history: the messages taken by Write, in order
  offered        \* number of Write() calls, accepted or dropped

loggerVars == <<logger, logFile, flushCall, accepted, offered>>

EmptyBuffer == [messages |-> <<>>, flush |-> FALSE]
NeedsFlushOrWrite(buf) == buf.flush \/ buf.messages # <<>>
BufferFull(buf) == Len(buf.messages) > MaxBuffered

Idle == [pc |-> "idle", left |-> 0, before |-> 0]

AsyncLoggerInit ==
  /\ logger = [state_ |-> "INITTED", active |-> EmptyBuffer, pc |-> "none",
               flushing |-> EmptyBuffer, written |-> 0]
  /\ logFile = [m \in Modules |-> [content |-> <<>>, durable |-> 0]]
  /\ flushCall = [t \in Threads |-> Idle]
  /\ accepted = <<>>
  /\ offered = 0

-----------------------------------------------------------------------------
(* The logger thread, as functions of the state it holds mutex_ in.        *)
\* while (!needs_flush_or_write() && RUNNING) wait, then swap and unlock.
WaitOrSwap(l) ==
  IF ~NeedsFlushOrWrite(l.active) /\ l.state_ = "RUNNING"
    THEN [l EXCEPT !.pc = "wait"]
    ELSE [l EXCEPT !.active = l.flushing, !.flushing = l.active,
                   !.written = 0, !.pc = "write"]

LoopTop(l) ==
  IF l.state_ = "RUNNING" \/ NeedsFlushOrWrite(l.active)
    THEN WaitOrSwap(l) ELSE [l EXCEPT !.pc = "exit"]

\* wake_flusher_cv_.notify_one(): the thread will test its condition again.
Notified(l) == IF l.pc = "wait" THEN [l EXCEPT !.pc = "woken"] ELSE l

Start ==
  /\ logger.state_ = "INITTED"
  /\ logger' = [logger EXCEPT !.state_ = "RUNNING", !.pc = "start"]
  /\ UNCHANGED <<logFile, flushCall, accepted, offered>>

Begin ==
  /\ logger.pc = "start"
  /\ logger' = LoopTop(logger)
  /\ UNCHANGED <<logFile, flushCall, accepted, offered>>

Woken ==
  /\ logger.pc = "woken"
  /\ logger' = WaitOrSwap(logger)
  /\ UNCHANGED <<logFile, flushCall, accepted, offered>>

\* wait_for() times out: the buffer is flushed even if it is empty.
WaitTimesOut ==
  /\ logger.pc = "wait"
  /\ logger' = WaitOrSwap([logger EXCEPT !.active.flush = TRUE])
  /\ UNCHANGED <<logFile, flushCall, accepted, offered>>

\* One message of flushing_buf_ goes to the file of its module; levels above
\* INFO flush that file.
WriteOne ==
  LET msg == logger.flushing.messages[logger.written + 1]
      content == Append(logFile[msg.module].content, msg)
  IN
  /\ logger.pc = "write" /\ logger.written < Len(logger.flushing.messages)
  /\ logFile' = [logFile EXCEPT ![msg.module] =
       [content |-> content,
        durable |-> IF msg.urgent THEN Len(content) ELSE @.durable]]
  /\ logger' = [logger EXCEPT !.written = @ + 1]
  /\ UNCHANGED <<flushCall, accepted, offered>>

\* Fault: only the files written to from this buffer are flushed.
FaultyFlushFiles ==
  LET touched == {logger.flushing.messages[i].module :
                    i \in DOMAIN logger.flushing.messages} IN
  /\ logger.pc = "write" /\ logger.written = Len(logger.flushing.messages)
  /\ logFile' = [m \in Modules |-> IF logger.flushing.flush /\ m \in touched
       THEN [logFile[m] EXCEPT !.durable = Len(logFile[m].content)]
       ELSE logFile[m]]
  /\ logger' = [logger EXCEPT !.flushing = EmptyBuffer, !.written = 0, !.pc = "done"]
  /\ UNCHANGED <<flushCall, accepted, offered>>

\* The flush the buffer asks for is one of every file; then it is cleared.
FlushFiles ==
  /\ logger.pc = "write" /\ logger.written = Len(logger.flushing.messages)
  /\ logFile' = [m \in Modules |-> IF logger.flushing.flush
       THEN [logFile[m] EXCEPT !.durable = Len(logFile[m].content)]
       ELSE logFile[m]]
  /\ logger' = [logger EXCEPT !.flushing = EmptyBuffer, !.written = 0, !.pc = "done"]
  /\ UNCHANGED <<flushCall, accepted, offered>>

\* Fault: the threads in Flush() are not notified.
FaultyComplete ==
  /\ logger.pc = "done"
  /\ logger' = LoopTop(logger)
  /\ UNCHANGED <<logFile, flushCall, accepted, offered>>

\* With mutex_ again: ++flush_count_, flush_complete_cv_.notify_all() and the
\* loop condition.
Complete ==
  /\ logger.pc = "done"
  /\ logger' = LoopTop(logger)
  /\ flushCall' = [t \in Threads |-> IF flushCall[t].pc = "idle" THEN Idle
       ELSE [flushCall[t] EXCEPT !.left = IF @ = 0 THEN 0 ELSE @ - 1,
                                 !.pc = IF @ = "wait" THEN "woken" ELSE @]]
  /\ UNCHANGED <<logFile, accepted, offered>>

-----------------------------------------------------------------------------
(* The application threads.                                                *)
\* Fault: a message is taken although the logger is stopped.
FaultyWrite(t, msg, force) ==
  /\ flushCall[t].pc = "idle" /\ offered < MaxMessages
  /\ offered' = offered + 1
  /\ logger' = Notified([logger EXCEPT !.active.messages = Append(@, msg),
                                       !.active.flush = @ \/ force])
  /\ accepted' = Append(accepted, msg)
  /\ UNCHANGED <<logFile, flushCall>>

\* Write(): dropped if the buffer is full or the logger does not run.
Write(t, msg, force) ==
  /\ flushCall[t].pc = "idle" /\ offered < MaxMessages
  /\ offered' = offered + 1
  /\ \/ /\ ~BufferFull(logger.active) /\ logger.state_ = "RUNNING"
        /\ logger' = Notified([logger EXCEPT !.active.messages = Append(@, msg),
                                             !.active.flush = @ \/ force])
        /\ accepted' = Append(accepted, msg)
     \/ /\ BufferFull(logger.active) \/ logger.state_ # "RUNNING"
        /\ UNCHANGED <<logger, accepted>>
  /\ UNCHANGED <<logFile, flushCall>>

\* The loop of Flush(): ask for a flush and wait, until two were completed
\* or the logger is stopped.
FlushLoop(t, call) ==
  IF call.left > 0 /\ logger.state_ = "RUNNING"
    THEN /\ logger' = Notified([logger EXCEPT !.active.flush = TRUE])
         /\ flushCall' = [flushCall EXCEPT ![t] = [call EXCEPT !.pc = "wait"]]
    ELSE /\ flushCall' = [flushCall EXCEPT ![t] =
              IF logger.state_ = "RUNNING" THEN [call EXCEPT !.pc = "flushed"] ELSE Idle]
         /\ UNCHANGED logger

Flush(t) ==
  /\ flushCall[t].pc = "idle" /\ logger.state_ = "RUNNING"
  /\ FlushLoop(t, [pc |-> "wait", left |-> 2, before |-> Len(accepted)])
  /\ UNCHANGED <<logFile, accepted, offered>>

FlushWoken(t) ==
  /\ flushCall[t].pc = "woken"
  /\ FlushLoop(t, flushCall[t])
  /\ UNCHANGED <<logFile, accepted, offered>>

FlushReturned(t) ==
  /\ flushCall[t].pc = "flushed"
  /\ flushCall' = [flushCall EXCEPT ![t] = Idle]
  /\ UNCHANGED <<logger, logFile, accepted, offered>>

\* Stop(): the thread is told and joined.
Stop ==
  /\ logger.state_ = "RUNNING"
  /\ logger' = Notified([logger EXCEPT !.state_ = "STOPPED"])
  /\ UNCHANGED <<logFile, flushCall, accepted, offered>>

Joined == logger.pc = "exit"

LoggerThread ==
  Begin \/ Woken \/ WaitTimesOut \/ WriteOne \/ FlushFiles \/ Complete
FlushStep(t) == FlushWoken(t) \/ FlushReturned(t)
Messages == [module : Modules, urgent : BOOLEAN]

AsyncLoggerNext ==
  \/ LoggerThread \/ Start \/ Stop
  \/ \E t \in Threads : FlushStep(t) \/ Flush(t)
  \/ \E t \in Threads, msg \in Messages, force \in BOOLEAN : Write(t, msg, force)

AsyncLoggerSpec == AsyncLoggerInit /\ [][AsyncLoggerNext]_loggerVars
AsyncLoggerFairness ==
  WF_loggerVars(LoggerThread) /\ \A t \in Threads : WF_loggerVars(FlushStep(t))

-----------------------------------------------------------------------------
(***************************************************************************)
(* Double buffering neither loses, repeats nor reorders what Write() took: *)
(* the file of each module, what the thread has still to write and the     *)
(* active buffer are together the messages accepted for it.  After Stop()  *)
(* has joined the thread both buffers are empty (the CHECKs at its end).   *)
(***************************************************************************)
Of(m, s) == SelectSeq(s, LAMBDA e : e.module = m)
NoMessageLost ==
  /\ \A m \in Modules :
       Of(m, accepted) = logFile[m].content
         \o Of(m, SubSeq(logger.flushing.messages, logger.written + 1,
                         Len(logger.flushing.messages)))
         \o Of(m, logger.active.messages)
  /\ Joined => logger.active.messages = <<>> /\ logger.flushing.messages = <<>>

(***************************************************************************)
(* A Flush() that returns from a running logger has everything accepted    *)
(* before the call on disk: waiting for two completions covers the buffer  *)
(* being written at the call and the one being filled.                     *)
(***************************************************************************)
FlushIsDurable ==
  \A t \in Threads : flushCall[t].pc = "flushed" =>
    \A m \in Modules :
      Len(Of(m, SubSeq(accepted, 1, flushCall[t].before))) <= logFile[m].durable

(***************************************************************************)
(* Flush() returns, also when Stop() comes in between, and Stop() joins.   *)
(***************************************************************************)
FlushAndStopReturn ==
  /\ \A t \in Threads : flushCall[t].pc = "wait" ~> flushCall[t].pc = "idle"
  /\ logger.state_ = "STOPPED" ~> Joined

-----------------------------------------------------------------------------
(***************************************************************************)
(* cyber/logger: Logger hands a message to the LogFileObject of its        *)
(* module, which names, rotates and flushes a file.  Everything happens    *)
(* under lock_.  Messages and file headers have length 1; a file name is   *)
(* the base name (with the extension) and the second it was created in.    *)
(***************************************************************************)
CONSTANTS
  LogModules,                 \* module names: base_filename_ of an object
  Names,                      \* values of SetBasename() and SetExtension()
  MaxLogSize,                 \* file_length_ at which a file is rotated
  kRolloverAttemptFrequency,
  FlushBytes,                 \* bytes_since_flush_ at which a file is flushed
  FlushTime,                  \* distance of next_flush_time_
  MaxClock                    \* bound: seconds that pass

VARIABLES
  logObject,    \* the LogFileObject of each module, absent at first; history:
                \* failed, the last creation failed; dropped, messages since
  logDisk,      \* the length of each file, and whether the disk is full
  stopWriting,  \* the static stop_writing all objects share
  logClock

logFileVars == <<logObject, logDisk, stopWriting, logClock>>

None == <<>>
NewObject(m) ==
  [base |-> m, file |-> None, bytesSinceFlush |-> 0, length |-> 0,
   attempt |-> kRolloverAttemptFrequency - 1, nextFlush |-> 0,
   failed |-> FALSE, dropped |-> 0]

LogFileInit ==
  /\ logObject = [m \in LogModules |-> None]
  /\ logDisk = [len |-> <<>>, full |-> FALSE]
  /\ stopWriting = FALSE
  /\ logClock = 0

-----------------------------------------------------------------------------
Closed(o) == [o EXCEPT !.file = None, !.attempt = kRolloverAttemptFrequency - 1,
                       !.failed = FALSE, !.dropped = 0]

\* SetBasename() and SetExtension(): the old file is closed, not the lengths.
Rename(m, base) ==
  LET o == logObject[m] IN
  /\ o # None /\ base # o.base
  /\ logObject' = [logObject EXCEPT ![m] =
       [(IF o.file = None THEN o ELSE Closed(o)) EXCEPT !.base = base]]
  /\ UNCHANGED <<logDisk, stopWriting, logClock>>

\* FlushUnlocked().
FlushedObject(o) ==
  [o EXCEPT !.bytesSinceFlush = IF o.file = None THEN @ ELSE 0,
            !.nextFlush = logClock + FlushTime]

FlushLog(m) ==
  /\ logObject[m] # None
  /\ logObject' = [logObject EXCEPT ![m] = FlushedObject(@)]
  /\ UNCHANGED <<logDisk, stopWriting, logClock>>

\* Fault: the size is compared after the message is written to the old file.
FaultyRotated(o) ==
  IF o.length <= MaxLogSize THEN o
  ELSE [Closed(o) EXCEPT !.length = 0, !.bytesSinceFlush = 0]

\* file_length_ is at its limit: close the file and start again.
Rotated(o) ==
  IF o.length < MaxLogSize THEN o
  ELSE [Closed(o) EXCEPT !.length = 0, !.bytesSinceFlush = 0]

\* A file of this name and second is there already (O_EXCL).
Taken(o) == <<o.base, logClock>> \in DOMAIN logDisk.len

\* bytes_since_flush_ as far as it is compared.
Counted(bytes) == IF bytes < FlushBytes THEN bytes + 1 ELSE FlushBytes

\* CreateLogfile() and the header message: r is the object and the disk.
Created(o) ==
  LET name == <<o.base, logClock>> IN
  [object |-> [o EXCEPT !.file = name, !.attempt = 0, !.length = @ + 1,
                        !.bytesSinceFlush = Counted(@), !.failed = FALSE, !.dropped = 0],
   disk |-> [logDisk EXCEPT
     !.len = [n \in DOMAIN @ \union {name} |-> IF n = name THEN 1 ELSE @[n]]]]

\* The object and the disk with a file to write to, if one can be had now.
Opened(o) ==
  IF o.file # None THEN [object |-> o, disk |-> logDisk]
  ELSE IF o.attempt + 1 # kRolloverAttemptFrequency
    THEN [object |-> [o EXCEPT !.attempt = @ + 1, !.dropped = @ + 1], disk |-> logDisk]
  ELSE IF Taken(o)
    THEN [object |-> [o EXCEPT !.attempt = 0, !.failed = TRUE, !.dropped = 1],
          disk |-> logDisk]
  ELSE Created(o)

\* fwrite() of the message, and a flush if it is due.
Written(r, force) ==
  LET o == [r.object EXCEPT !.length = @ + 1, !.bytesSinceFlush = Counted(@)]
      d == [r.disk EXCEPT !.len[o.file] = @ + 1]
  IN  IF force \/ o.bytesSinceFlush >= FlushBytes \/ logClock >= o.nextFlush
        THEN [object |-> FlushedObject(o), disk |-> d]
        ELSE [object |-> o, disk |-> d]

\* Logger::Write() and LogFileObject::Write().
WriteLog(m, force) ==
  LET o == IF logObject[m] = None THEN NewObject(m) ELSE logObject[m]
      r == Opened(Rotated(o))
      w == Written(r, force)
      Set(x) == logObject' = [logObject EXCEPT ![m] = x.object] /\ logDisk' = x.disk
  IN
  /\ \/ /\ o.base = "" /\ Set([object |-> o, disk |-> logDisk])
        /\ UNCHANGED stopWriting
     \/ /\ o.base # "" /\ r.object.file = None /\ Set(r)
        /\ UNCHANGED stopWriting
     \/ /\ o.base # "" /\ r.object.file # None /\ stopWriting /\ Set(r)
        /\ stopWriting' = (logClock < r.object.nextFlush)
     \/ /\ o.base # "" /\ r.object.file # None /\ ~stopWriting /\ logDisk.full
        /\ Set(r) /\ stopWriting' = TRUE
     \/ /\ o.base # "" /\ r.object.file # None /\ ~stopWriting /\ ~logDisk.full
        /\ Set(w)
        /\ UNCHANGED stopWriting
  /\ UNCHANGED logClock

DiskSpace ==
  /\ logDisk' = [logDisk EXCEPT !.full = ~@]
  /\ UNCHANGED <<logObject, stopWriting, logClock>>

LogSecond ==
  /\ logClock < MaxClock /\ logClock' = logClock + 1
  /\ UNCHANGED <<logObject, logDisk, stopWriting>>

LogFileNext ==
  \/ DiskSpace \/ LogSecond
  \/ \E m \in LogModules : FlushLog(m)
  \/ \E m \in LogModules, force \in BOOLEAN : WriteLog(m, force)
  \/ \E m \in LogModules, base \in Names : Rename(m, base)

-----------------------------------------------------------------------------
(***************************************************************************)
(* Rotation, renaming, disk-full periods and failed creations together     *)
(* keep the limits: no file grows past MaxLogSize, file_length_ never      *)
(* falls behind the file (it is not reset by a rename, so it may be        *)
(* ahead), and without a file messages are dropped only after a creation   *)
(* failed, at most kRolloverAttemptFrequency of them until the next try.   *)
(***************************************************************************)
LogKeepsLimits ==
  /\ \A n \in DOMAIN logDisk.len : logDisk.len[n] <= MaxLogSize
  /\ \A m \in LogModules : logObject[m] # None =>
       LET o == logObject[m] IN
       /\ o.file # None => o.length >= logDisk.len[o.file]
       /\ o.dropped <= kRolloverAttemptFrequency
       /\ o.dropped > 0 => o.failed
=============================================================================
