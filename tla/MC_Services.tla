---------------------------- MODULE MC_Services ----------------------------
(***************************************************************************)
(* The services around the core, in one run: timers and Rate, the          *)
(* asynchronous logger and its files, recording and playing back, the      *)
(* poller, performance events, the life of the process and Transport.      *)
(* Each behaviour exercises one of them and leaves the rest as it was      *)
(* initialised.                                                            *)
(***************************************************************************)
EXTENDS Integers, Sequences

CONSTANTS
  Threads,     \* threads that log, add events, initialise and clear up
  Modules      \* modules that log

VARIABLES
  subject,
  wheel, timer, task,                             \* of Timing: the wheel
  now, rate, slept,                               \* and Rate
  logger, logFile, flushCall, accepted, offered,  \* of Logger: the buffers
  logObject, logDisk, stopWriting, logClock,      \* and the files
  recorder, writer, files, taken, lapse,          \* of RecordWriter
  poll, request, ctrl, epoll, session,            \* of Poller
  cache, adder, io, stamps,                       \* of PerfEvents
  state, caller, handler, globals, lapses,        \* of ProcessState
  transport, participant, domain, dispatcher_, user   \* of Transport

timingVars == <<wheel, timer, task>>
rateVars == <<now, rate, slept>>
loggerVars == <<logger, logFile, flushCall, accepted, offered>>
logFileVars == <<logObject, logDisk, stopWriting, logClock>>
recordVars == <<recorder, writer, files, taken, lapse>>
pollerVars == <<poll, request, ctrl, epoll, session>>
perfVars == <<cache, adder, io, stamps>>
processVars == <<state, caller, handler, globals, lapses>>
transportVars == <<transport, participant, domain, dispatcher_, user>>
allVars == <<timingVars, rateVars, loggerVars, logFileVars, recordVars,
             pollerVars, perfVars, processVars, transportVars, subject>>

\* Two wheels of two buckets; in `Short' the Timer is restarted, in `Long'
\* its period is more than a turn, in `Ending' the wheel is shut down.  Rate has
\* a clock of four bits.
Bits == 4
Cycles == {1, 2}
Instants == 1 .. 7
Short == INSTANCE Timing WITH
  WORK_WHEEL_SIZE <- 2, ASSISTANT_WHEEL_SIZE <- 2, Periods <- {1}, MaxTasks <- 2,
  MaxError <- 0, MaxExec <- 1, Shutdowns <- FALSE
Ending == INSTANCE Timing WITH
  WORK_WHEEL_SIZE <- 2, ASSISTANT_WHEEL_SIZE <- 2, Periods <- {1, 4}, MaxTasks <- 1,
  MaxError <- 1, MaxExec <- 0, Shutdowns <- TRUE
Long == INSTANCE Timing WITH
  WORK_WHEEL_SIZE <- 2, ASSISTANT_WHEEL_SIZE <- 4, Periods <- {2, 3}, MaxTasks <- 1,
  MaxError <- 0, MaxExec <- 1, Shutdowns <- FALSE
Logging == INSTANCE Logger WITH
  MaxBuffered <- 0, MaxMessages <- 2,
  LogModules <- {"m1"}, Names <- {"", "x", "m1"}, MaxLogSize <- 3,
  kRolloverAttemptFrequency <- 3, FlushBytes <- 2, FlushTime <- 1, MaxClock <- 1
Recording == INSTANCE RecordWriter WITH
  RecordChannels <- {"c1"}, Times <- {1, 2, 4}, ChunkInterval <- 2, ChunkRawSize <- 1,
  SegmentIntervals <- {2}, SegmentRawSizes <- {2}, MaxRecorded <- 3,
  MaxWriteFailures <- 1
Playing == INSTANCE RecordReader WITH kStepTimeNanoSec <- 1, kBufferMinSize <- 2
\* One session that is closed and opened again; two that share the poller.
Session == INSTANCE Poller WITH
  Fds <- {1}, Timeouts <- {2}, kPollTimeoutMs <- 3, MaxBlocks <- 2, MaxReopen <- 1,
  Shutdowns <- TRUE
Sessions == INSTANCE Poller WITH
  Fds <- {1, 2}, Timeouts <- {}, kPollTimeoutMs <- 1, MaxBlocks <- 1, MaxReopen <- 0,
  Shutdowns <- FALSE
Perf == INSTANCE PerfEvents WITH
  Adders <- Threads, QueueSize <- 1, FlushSize <- 2, MaxEvents <- 4
Process == INSTANCE ProcessState WITH Callers <- Threads, MaxSignals <- 2
\* A hybrid end may be enabled at any time, at once as an RTPS end too.
Ends == INSTANCE Transport WITH
  Creators <- Threads, Main <- "main", Nobody <- "nobody",
  Modes <- {"SHM", "HYBRID"}, ValidEnv <- {TRUE, FALSE}

-----------------------------------------------------------------------------
Subjects == {"short", "ending", "long", "rate", "logger", "log_file", "record", "session",
             "sessions", "perf", "process", "transport"}

ServicesInit ==
  /\ subject \in Subjects
  /\ CASE subject = "long" -> Long!TimingInit
       [] subject = "ending" -> Ending!TimingInit
       [] OTHER -> Short!TimingInit
  /\ Short!RateInit
  /\ Logging!AsyncLoggerInit /\ Logging!LogFileInit /\ Recording!RecordInit
  /\ IF subject = "sessions" THEN Sessions!PollerInit ELSE Session!PollerInit
  /\ Perf!PerfInit /\ Process!ProcessInit /\ Ends!TransportInit
  /\ subject # "transport" => participant.env
  /\ subject # "rate" => now = 1 /\ rate.expected = 1
  /\ subject \notin {"short", "ending", "long"} => ~timer.oneshot

Timers ==
  \/ subject = "short" /\ Short!TimingNext
  \/ subject = "ending" /\ Ending!TimingNext
  \/ subject = "long" /\ Long!TimingNext
Polling ==
  \/ subject = "session" /\ Session!PollerNext
  \/ subject = "sessions" /\ Sessions!PollerNext

ServicesNext ==
  /\ \/ Timers /\ UNCHANGED <<rateVars, loggerVars, logFileVars, recordVars, pollerVars,
                              perfVars, processVars, transportVars>>
     \/ /\ subject = "rate" /\ Short!RateNext
        /\ UNCHANGED <<timingVars, loggerVars, logFileVars, recordVars, pollerVars,
                       perfVars, processVars, transportVars>>
     \/ /\ subject = "logger" /\ Logging!AsyncLoggerNext
        /\ UNCHANGED <<timingVars, rateVars, logFileVars, recordVars, pollerVars,
                       perfVars, processVars, transportVars>>
     \/ /\ subject = "log_file" /\ Logging!LogFileNext
        /\ UNCHANGED <<timingVars, rateVars, loggerVars, recordVars, pollerVars,
                       perfVars, processVars, transportVars>>
     \/ /\ subject = "record" /\ Recording!RecordNext
        /\ UNCHANGED <<timingVars, rateVars, loggerVars, logFileVars, pollerVars,
                       perfVars, processVars, transportVars>>
     \/ Polling /\ UNCHANGED <<timingVars, rateVars, loggerVars, logFileVars, recordVars,
                               perfVars, processVars, transportVars>>
     \/ /\ subject = "perf" /\ Perf!PerfNext
        /\ UNCHANGED <<timingVars, rateVars, loggerVars, logFileVars, recordVars,
                       pollerVars, processVars, transportVars>>
     \/ /\ subject = "process" /\ Process!ProcessNext
        /\ UNCHANGED <<timingVars, rateVars, loggerVars, logFileVars, recordVars,
                       pollerVars, perfVars, transportVars>>
     \/ /\ subject = "transport" /\ Ends!TransportNext
        /\ UNCHANGED <<timingVars, rateVars, loggerVars, logFileVars, recordVars,
                       pollerVars, perfVars, processVars>>
  /\ UNCHANGED subject

\* The threads of the subject keep running: Timing's, Logger's,
\* RecordFileWriter's and Poller's, and the calls that are under way.
ServicesFairness ==
  /\ WF_timingVars(subject = "short" /\ Short!TickThread)
  /\ WF_timingVars(subject = "ending" /\ Ending!TickThread)
  /\ WF_timingVars(subject = "long" /\ Long!TickThread)
  /\ \A k \in 1 .. 2 : WF_timingVars(subject = "short" /\ Short!TaskStep(k))
  /\ WF_timingVars(subject = "ending" /\ Ending!TaskStep(1))
  /\ WF_timingVars(subject = "long" /\ Long!TaskStep(1))
  /\ WF_loggerVars(subject = "logger" /\ Logging!LoggerThread)
  /\ \A t \in Threads : WF_loggerVars(subject = "logger" /\ Logging!FlushStep(t))
  /\ WF_recordVars(subject = "record" /\ Recording!FlushThread)
  /\ WF_recordVars(subject = "record" /\ Recording!RecordingThread)
  /\ WF_pollerVars(subject = "session" /\ Session!PollThread)
  /\ WF_pollerVars(subject = "session" /\ Session!RoutineStep(1))
  /\ WF_pollerVars(subject = "sessions" /\ Sessions!PollThread)
  /\ \A f \in 1 .. 2 : WF_pollerVars(subject = "sessions" /\ Sessions!RoutineStep(f))

ServicesSpec == ServicesInit /\ [][ServicesNext]_allVars /\ ServicesFairness

-----------------------------------------------------------------------------
(***************************************************************************)
(* What waits for a time: a timer's task is in one place and due when the  *)
(* tick thread takes it, its corrected duration in range, Rate::Sleep()    *)
(* never waits for more than a cycle, whatever the clock does, and no poll *)
(* request times out early (TaskInOnePlace, FiresWhenDue,                  *)
(* CorrectionInRange, RateIsBounded, NoEarlyTimeout).                      *)
(***************************************************************************)
TimersAreExact ==
  /\ CASE subject = "short" -> /\ Short!TaskInOnePlace /\ Short!FiresWhenDue
                               /\ Short!CorrectionInRange
       [] subject = "ending" -> /\ Ending!TaskInOnePlace /\ Ending!FiresWhenDue
                                /\ Ending!CorrectionInRange
       [] subject = "long" -> /\ Long!TaskInOnePlace /\ Long!FiresWhenDue
                              /\ Long!CorrectionInRange
       [] OTHER -> TRUE
  /\ Short!RateIsBounded
  /\ IF subject = "sessions" THEN Sessions!NoEarlyTimeout ELSE Session!NoEarlyTimeout

(***************************************************************************)
(* What is logged: no accepted message is lost between the buffers, Flush()*)
(* is durable, files keep their limits, and the performance events on file *)
(* are those the queue took (NoMessageLost, FlushIsDurable,                *)
(* LogKeepsLimits, PerfFileIsExact).                                       *)
(***************************************************************************)
LogsAreExact ==
  /\ Logging!NoMessageLost /\ Logging!FlushIsDurable
  /\ Logging!LogKeepsLimits /\ Perf!PerfFileIsExact

(***************************************************************************)
(* What is recorded can be read: the files hold every message written      *)
(* (RecordIsWhole), and RecordViewer shows those of any range, each once   *)
(* and in order, if they were written in order, no write failed and no     *)
(* unflushed chunk was swapped back.                                       *)
(***************************************************************************)
Written == Playing!FlattenSeq(taken)
InOrder(s) == \A i \in 1 .. Len(s) - 1 : s[i].time <= s[i + 1].time
ViewerSeesAll ==
  /\ recorder.pc = "closed" /\ lapse.failures = 0 /\ ~lapse.swappedBack /\ InOrder(Written)
  /\ Written # <<>>
  => \A b \in 1 .. 4, e \in 1 .. 4 :
       Playing!View(files, b, e, {}) =
         SelectSeq(Written, LAMBDA m : m.time \in b .. e)
RecordingIsReadable == Recording!RecordIsWhole /\ ViewerSeesAll

\* After SIGINT or Clear() the process is shut down for good, apart from the
\* races of OnShutdown() with Init() and Clear(); and Transport::Shutdown
\* leaves no RTPS participant and no endpoint of one (ShutdownLeavesNothing).
ShutdownIsHeard == Process!ShutdownIsHeard /\ Ends!ShutdownLeavesNothing

(***************************************************************************)
(* What was begun comes to an end: Flush() and Stop() of the logger and    *)
(* Close() of a recording return, a periodic timer keeps firing, and a     *)
(* routine blocked on I/O is woken (FlushAndStopReturn, CloseReturns,      *)
(* TimerKeepsFiring, BlockedIsWoken).                                      *)
(***************************************************************************)
ServicesProgress ==
  /\ Logging!FlushAndStopReturn
  /\ Recording!CloseReturns
  /\ Short!TimerKeepsFiring
  /\ Session!BlockedIsWoken
  /\ (subject = "sessions" /\ Sessions!Waits(2)) ~> (subject = "sessions" => Sessions!Freed(2))
=============================================================================
