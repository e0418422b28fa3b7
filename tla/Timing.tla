------------------------------- MODULE Timing --------------------------------
(***************************************************************************)
(* What waits for a time: the timing wheel behind Timer (cyber/timer) and  *)
(* Rate (cyber/time).                                                      *)
(***************************************************************************)
EXTENDS Integers, Sequences, SequencesExt

(***************************************************************************)
(* cyber/timer: the two wheels of TimingWheel with their tick thread, and  *)
(* one Timer whose successive TimerTask objects are 1, 2, ... MaxTasks.    *)
(* The tick thread, the thread that owns the Timer and the routines of     *)
(* cyber::Async interleave; the wheel indexes are read without a lock.     *)
(* Time is the number of ticks, one millisecond each.                      *)
(***************************************************************************)
CONSTANTS
  WORK_WHEEL_SIZE, ASSISTANT_WHEEL_SIZE,
  Periods,       \* periods the Timer is given
  MaxTasks,      \* bound: Start() calls that make a task
  MaxError,      \* bound: accumulated error up to which callbacks are late
  MaxExec,       \* bound: ticks a callback runs
  Shutdowns      \* whether TimingWheel::Shutdown() is called

VARIABLES
  wheel,         \* running_, the tick thread's pc, joining (Shutdown() holds
                 \* running_mutex_), both wheels and their current indexes
  timer,         \* timer_opt_, started_ and task_ (0 is nullptr)
  task           \* each TimerTask, its AddTask() or callback under way (pc,
                 \* index, dest) and the callbacks handed to Async (asyncs);
                 \* history: due, ticks to go, and raced, indexes moved

timingVars == <<wheel, timer, task>>

Tasks == 1 .. MaxTasks
TIMER_MAX_INTERVAL_MS == WORK_WHEEL_SIZE * ASSISTANT_WHEEL_SIZE
Never == -1      \* last_execute_time_ns_ == 0

\* A weak reference can be locked while the Timer, or a callback or AddTask()
\* under way, owns the task.
Alive(k) == timer.task_ = k \/ task[k].pc # "idle"
Adding(k) == task[k].pc \in {"start", "place", "push"}
Occurrences(list, k) == Len(SelectSeq(list, LAMBDA e : e = k))

TimingInit ==
  /\ wheel = [running_ |-> FALSE, pc |-> "exit", joining |-> FALSE,
              work |-> [i \in 0 .. WORK_WHEEL_SIZE - 1 |-> <<>>],
              assistant |-> [i \in 0 .. ASSISTANT_WHEEL_SIZE - 1 |-> <<>>],
              workIndex |-> 0, assistantIndex |-> 0]
  /\ timer \in [period : Periods, oneshot : BOOLEAN, started_ : {FALSE},
                task_ : {0}, made : {0}]
  /\ task = [k \in Tasks |->
              [oneshot |-> FALSE, interval |-> 0, next |-> 0, remainder |-> 0,
               error |-> 0, elapsed |-> Never, gap |-> Never, asyncs |-> 0,
               pc |-> "idle", index |-> 0, dest |-> <<"none", 0>>,
               due |-> 0, raced |-> FALSE]]

-----------------------------------------------------------------------------
(* The tick thread.                                                        *)
\* Tick(): every live task of the bucket goes to Async, the list is cleared.
Tick ==
  LET bucket == wheel.work[wheel.workIndex] IN
  /\ wheel.pc = "tick" /\ wheel.running_
  /\ task' = [k \in Tasks |-> IF Alive(k)
       THEN [task[k] EXCEPT !.asyncs = @ + Occurrences(bucket, k)] ELSE task[k]]
  /\ wheel' = [wheel EXCEPT !.work[wheel.workIndex] = <<>>, !.pc = "sleep"]
  /\ UNCHANGED timer

Exit ==
  /\ wheel.pc = "tick" /\ ~wheel.running_
  /\ wheel' = [wheel EXCEPT !.pc = "exit"]
  /\ UNCHANGED <<timer, task>>

\* Bounds: a late callback is waited for once the error is MaxError or it is a
\* turn late, and a running one once it has taken MaxExec.
InTime(k) ==
  task[k].asyncs > 0 \/ task[k].pc # "idle" =>
    /\ task[k].error \in 1 - MaxError .. MaxError - 1
    /\ task[k].due > 0 - WORK_WHEEL_SIZE
    /\ task[k].pc \in {"call", "read"} => task[k].elapsed < MaxExec

\* The tick thread moves an index or a bucket: an AddTask() meanwhile races.
Moved(k) == task[k].raced \/ Adding(k)

\* What is left of a duration a tick later; two turns late is late enough.
Later(d) == IF d <= 0 - 2 * WORK_WHEEL_SIZE THEN d ELSE d - 1

\* rate.Sleep() ends and the work index moves on.
Advance ==
  LET next == (wheel.workIndex + 1) % WORK_WHEEL_SIZE IN
  /\ wheel.pc = "sleep" /\ \A k \in Tasks : InTime(k)
  /\ wheel' = [wheel EXCEPT !.workIndex = next,
                            !.pc = IF next = 0 THEN "turn" ELSE "tick"]
  /\ task' = [k \in Tasks |-> IF Alive(k)
       THEN [task[k] EXCEPT !.due = Later(@),
                            !.raced = Moved(k),
                            !.elapsed = IF @ = Never THEN @ ELSE @ + 1]
       ELSE task[k]]
  /\ UNCHANGED timer

Turn ==
  /\ wheel.pc = "turn"
  /\ wheel' = [wheel EXCEPT !.pc = "cascade",
                 !.assistantIndex = (@ + 1) % ASSISTANT_WHEEL_SIZE]
  /\ task' = [k \in Tasks |-> [task[k] EXCEPT !.raced = Moved(k)]]
  /\ UNCHANGED timer

\* Cascade(): the live tasks of an assistant bucket go to the work wheel.
Cascade ==
  LET bucket == wheel.assistant[wheel.assistantIndex]
      To(i) == SelectSeq(bucket, LAMBDA k : Alive(k) /\ task[k].remainder = i)
  IN
  /\ wheel.pc = "cascade"
  /\ wheel' = [wheel EXCEPT !.pc = "tick", !.work = [i \in DOMAIN @ |-> @[i] \o To(i)],
                            !.assistant[wheel.assistantIndex] = <<>>]
  /\ task' = [k \in Tasks |-> [task[k] EXCEPT !.raced = Moved(k)]]
  /\ UNCHANGED timer

Shutdown ==
  /\ Shutdowns /\ wheel.running_ /\ ~wheel.joining
  /\ wheel' = [wheel EXCEPT !.running_ = FALSE, !.joining = TRUE]
  /\ UNCHANGED <<timer, task>>

Joined ==
  /\ wheel.joining /\ wheel.pc = "exit"
  /\ wheel' = [wheel EXCEPT !.joining = FALSE]
  /\ UNCHANGED <<timer, task>>

-----------------------------------------------------------------------------
(* AddTask(): the index is read, the wheel started if need be, the bucket  *)
(* chosen with the indexes read again, and the task pushed.                *)
ReadIndex(k) ==
  /\ task[k].pc = "read"
  /\ task' = [task EXCEPT ![k].index = wheel.workIndex,
                          ![k].pc = IF wheel.running_ THEN "place" ELSE "start",
                          ![k].due = task[k].next,
                          ![k].raced = wheel.pc \in {"turn", "cascade"}]
  /\ UNCHANGED <<wheel, timer>>

\* TimingWheel::Start() waits while Shutdown() holds running_mutex_.
StartWheel(k) ==
  /\ task[k].pc = "start" /\ ~wheel.joining
  /\ wheel' = [wheel EXCEPT !.running_ = TRUE,
                            !.pc = IF wheel.running_ THEN @ ELSE "tick"]
  /\ task' = [task EXCEPT ![k].pc = "place"]
  /\ UNCHANGED timer

\* Fault: a task of the next turn always goes to the work wheel.
FaultyBucket(k) ==
  LET work == task[k].index + task[k].next
      ticks == work \div WORK_WHEEL_SIZE
  IN  IF ticks <= 1 THEN <<"work", work % WORK_WHEEL_SIZE>>
      ELSE <<"assistant", (wheel.assistantIndex + ticks) % ASSISTANT_WHEEL_SIZE>>

\* This turn, or the next one at another index: the work wheel.
Bucket(k) ==
  LET work == task[k].index + task[k].next
      real == work % WORK_WHEEL_SIZE
      ticks == work \div WORK_WHEEL_SIZE
  IN  IF ticks = 0 \/ (ticks = 1 /\ real # wheel.workIndex) THEN <<"work", real>>
      ELSE <<"assistant", (wheel.assistantIndex + ticks) % ASSISTANT_WHEEL_SIZE>>

Place(k) ==
  LET work == task[k].index + task[k].next IN
  /\ task[k].pc = "place"
  /\ task' = [task EXCEPT ![k].pc = "push", ![k].dest = Bucket(k),
                ![k].remainder = IF work < WORK_WHEEL_SIZE THEN @
                                 ELSE work % WORK_WHEEL_SIZE]
  /\ UNCHANGED <<wheel, timer>>

\* TimerBucket::AddTask; the shared_ptr of the callback goes.
Push(k) ==
  LET i == task[k].dest[2] IN
  /\ task[k].pc = "push"
  /\ wheel' = IF task[k].dest[1] = "work"
                THEN [wheel EXCEPT !.work[i] = Append(@, k)]
                ELSE [wheel EXCEPT !.assistant[i] = Append(@, k)]
  /\ task' = [task EXCEPT ![k].pc = "idle", ![k].dest = <<"none", 0>>,
                          ![k].index = 0]
  /\ UNCHANGED timer

-----------------------------------------------------------------------------
(* The function handed to Async, and the periodic callback in it.          *)
RunCallback(k) ==
  LET starts == wheel.running_ /\ ~task[k].oneshot /\ timer.task_ = k IN
  /\ task[k].asyncs > 0 /\ task[k].pc = "idle"
  /\ task' = [task EXCEPT ![k].asyncs = @ - 1,
                ![k].pc = IF starts THEN "call" ELSE @,
                ![k].gap = IF starts THEN task[k].elapsed ELSE @,
                ![k].elapsed = IF starts THEN 0 ELSE @,
                ![k].due = 0, ![k].raced = FALSE]
  /\ UNCHANGED <<wheel, timer>>

AccumulatedError(k) ==
  task[k].error + IF task[k].gap = Never THEN 0
                  ELSE task[k].gap - task[k].interval

\* Fault: the comparison lets the duration be zero.
FaultyNextFire(k) ==
  LET left == task[k].interval - task[k].elapsed IN
  IF left > 0 /\ left >= AccumulatedError(k) THEN left - AccumulatedError(k) ELSE 1

\* What is left of the interval less the error, or one tick.
NextFire(k) ==
  LET left == task[k].interval - task[k].elapsed IN
  IF left > 0 /\ left - 1 >= AccumulatedError(k)
    THEN left - AccumulatedError(k) ELSE 1

\* The user's callback is over: correct the error and AddTask() again.
CallbackReturns(k) ==
  /\ task[k].pc = "call"
  /\ task' = [task EXCEPT ![k].error = AccumulatedError(k),
                ![k].next = NextFire(k), ![k].gap = Never, ![k].pc = "read"]
  /\ UNCHANGED <<wheel, timer>>

-----------------------------------------------------------------------------
(* Timer, used by one thread, which is in Start() until the first push.    *)
Starting ==
  timer.task_ # 0 /\ task[timer.task_].pc # "idle" /\ task[timer.task_].elapsed = Never

\* Start(): started_ is set even if InitTimerTask() refuses the period.
Start ==
  LET k == timer.made + 1 IN
  /\ ~timer.started_ /\ timer.made < MaxTasks
  /\ \/ /\ timer.period \in 1 .. TIMER_MAX_INTERVAL_MS - 1
        /\ timer' = [timer EXCEPT !.started_ = TRUE, !.task_ = k, !.made = k]
        /\ task' = [task EXCEPT ![k].interval = timer.period, ![k].next = timer.period,
                                ![k].oneshot = timer.oneshot, ![k].pc = "read"]
     \/ /\ timer.period \notin 1 .. TIMER_MAX_INTERVAL_MS - 1
        /\ timer' = [timer EXCEPT !.started_ = TRUE]
        /\ UNCHANGED task
  /\ UNCHANGED wheel

\* Stop(), also called by ~Timer: the task goes with its last owner.
Stop ==
  /\ timer.started_ /\ ~Starting
  /\ timer' = [timer EXCEPT !.started_ = FALSE, !.task_ = 0]
  /\ UNCHANGED <<wheel, task>>

SetTimerOption(p, o) ==
  /\ ~timer.started_
  /\ timer' = [timer EXCEPT !.period = p, !.oneshot = o]
  /\ UNCHANGED <<wheel, task>>

TickThread == Tick \/ Exit \/ Advance \/ Turn \/ Cascade
TaskStep(k) ==
  \/ ReadIndex(k) \/ StartWheel(k) \/ Place(k) \/ Push(k)
  \/ RunCallback(k) \/ CallbackReturns(k)
TimingNext ==
  \/ TickThread \/ Shutdown \/ Joined \/ Start \/ Stop
  \/ \E p \in Periods, o \in BOOLEAN : SetTimerOption(p, o)
  \/ \E k \in Tasks : TaskStep(k)

TimingSpec == TimingInit /\ [][TimingNext]_timingVars
TimingFairness == WF_timingVars(TickThread) /\ \A k \in Tasks : WF_timingVars(TaskStep(k))

-----------------------------------------------------------------------------
(***************************************************************************)
(* A task is in one place: one bucket entry, one callback handed to Async, *)
(* or one AddTask() or callback under way; two would run the callback of   *)
(* one Timer concurrently and double its rate.                             *)
(***************************************************************************)
Entries(k) ==
  [i \in DOMAIN wheel.work |-> Occurrences(wheel.work[i], k)]
AssistantEntries(k) ==
  [i \in DOMAIN wheel.assistant |-> Occurrences(wheel.assistant[i], k)]
Total(f) == FoldFunction(LAMBDA a, b : a + b, 0, f)
TaskInOnePlace ==
  \A k \in Tasks :
    Total(Entries(k)) + Total(AssistantEntries(k)) + task[k].asyncs
      + (IF task[k].pc = "idle" THEN 0 ELSE 1) <= 1

(***************************************************************************)
(* When the tick thread reaches a live task it is due: neither a tick      *)
(* early nor late, unless the thread moved the wheels during AddTask() or  *)
(* the duration is between one and two turns of the work wheel, for which  *)
(* Bucket() may take the index of this turn.  A duration below one turn is *)
(* never early, whatever the race.                                         *)
(***************************************************************************)
FiresWhenDue ==
  \A k \in Tasks :
    wheel.pc = "tick" /\ Alive(k) /\ Occurrences(wheel.work[wheel.workIndex], k) > 0 =>
      /\ \/ task[k].raced
         \/ task[k].next \in WORK_WHEEL_SIZE + 1 .. 2 * WORK_WHEEL_SIZE - 1
         \/ task[k].due = 0
      /\ task[k].next < WORK_WHEEL_SIZE => task[k].due <= 0

(***************************************************************************)
(* The correction in the periodic callback stays clear of zero and of      *)
(* uint64_t wrap-around, and a timer of less than one turn is never made   *)
(* to wait longer than its interval, however late its callbacks were.      *)
(***************************************************************************)
CorrectionInRange ==
  \A k \in Tasks :
    task[k].pc = "read" =>
      /\ task[k].next >= 1
      /\ task[k].interval < WORK_WHEEL_SIZE => task[k].next <= task[k].interval

(***************************************************************************)
(* A periodic Timer that is not stopped calls back again and again, as     *)
(* long as the wheel runs.                                                 *)
(***************************************************************************)
TimerKeepsFiring ==
  \A k \in Tasks :
    []<>(timer.task_ # k \/ task[k].oneshot \/ ~wheel.running_ \/ task[k].pc = "call")

-----------------------------------------------------------------------------
(***************************************************************************)
(* cyber/time: Time is an unsigned and Duration a signed word of           *)
(* nanoseconds; Rate::Sleep() paces a loop with them.  Time::Now() reads   *)
(* the system clock, which can be set: it may jump between two calls.      *)
(* Words have `Bits' bits; 64 in the code.                                 *)
(***************************************************************************)
CONSTANTS
  Bits,
  Cycles,      \* expected_cycle_time_ of the Rates
  Instants     \* values of the system clock

VARIABLES
  now,         \* the system clock
  rate,        \* start_, expected and actual_cycle_time_
  slept        \* history, the last Sleep(): when it was called, start_ before
               \* and after it, and for how long it meant to wait

rateVars == <<now, rate, slept>>

Word == 2 ^ Bits
\* static_cast between uint64_t and int64_t
Unsigned(n) == n % Word
Signed(n) == LET u == Unsigned(n) IN IF u < Word \div 2 THEN u ELSE u - Word
TimeMinus(a, b) == Signed(a - b)          \* Duration operator-(Time)
TimePlus(a, d) == Unsigned(a + d)         \* Time operator+(Duration)

RateInit ==
  /\ now \in Instants
  /\ \E c \in Cycles : rate = [start_ |-> now, expected |-> c, actual |-> 0]
  /\ slept = [called |-> now, before |-> now, after |-> now, wait |-> 0]

\* The clock goes on, is set forward or is set back.
ClockMoves ==
  /\ now' \in Instants
  /\ UNCHANGED <<rate, slept>>

\* backward jumps in time start the cycle afresh
ExpectedEnd ==
  IF now < rate.start_ THEN TimePlus(now, rate.expected)
                       ELSE TimePlus(rate.start_, rate.expected)

SleepTime == TimeMinus(ExpectedEnd, now)

\* Fault: a loop that is late by more than a cycle is not reset.
FaultyNewStart == ExpectedEnd

\* so do forward jumps of more than a full extra cycle
NewStart ==
  IF SleepTime < 0 /\ now > TimePlus(ExpectedEnd, rate.expected) THEN now ELSE ExpectedEnd

\* Sleep(): a late loop does not wait, the others SleepUntil(expected_end).
Sleep ==
  /\ rate' = [rate EXCEPT !.actual = TimeMinus(now, rate.start_), !.start_ = NewStart]
  /\ slept' = [called |-> now, before |-> rate.start_, after |-> NewStart, wait |-> SleepTime]
  /\ IF SleepTime < 0 THEN UNCHANGED now ELSE now' \in {i \in Instants : i >= ExpectedEnd}

Reset ==
  /\ rate' = [rate EXCEPT !.start_ = now]
  /\ UNCHANGED <<now, slept>>

RateNext == ClockMoves \/ Sleep \/ Reset

-----------------------------------------------------------------------------
(***************************************************************************)
(* However the clock jumped before it, Sleep() never waits for more than a *)
(* cycle, and never lets the loop fall behind by more than one, so that    *)
(* late cycles are not made up for in a burst; the cycle time it reports   *)
(* is the true difference, backward jumps included.                        *)
(***************************************************************************)
RateIsBounded ==
  /\ slept.wait <= rate.expected
  /\ slept.after >= slept.called - rate.expected
  /\ rate.actual = slept.called - slept.before
=============================================================================
