----------------------------- MODULE AsyncLogger -----------------------------
(***************************************************************************)
(* Logger and its two AsyncLoggers (comm/log.cc).  Threads push lines to   *)
(* m_buffer or m_app_buffer; loopFunc, called by a repeated timer of the   *)
(* main thread or by flush(), hands what has gathered to the writers as a  *)
(* batch; a writer thread takes batches and appends them to files that     *)
(* roll by size and date.  A process ends through Exit, the signal handler *)
(* or ~Logger: each flushes, stops the writers, and joins them.            *)
(*                                                                         *)
(* A line is the number it has in its log.  fflush of a file the writer is *)
(* just closing, and a signal during a signal, are left out.               *)
(***************************************************************************)
EXTENDS Integers, Sequences, SequencesExt

CONSTANTS
  Thread,    \* threads that log
  Main,      \* the one of them that runs the main reactor
  Lines,     \* bound: lines that are logged, [Log -> Nat]
  MaxSize,   \* m_max_size, in lines
  LastDay,   \* bound: the date may be 0..LastDay
  NULL

Log == {"rpc", "app"}

\* m_date and m_no, which make the name of a file.
File == [day : Nat, no : Nat]

ASSUME LoggerAssumption ==
  /\ Main \in Thread /\ NULL \notin Thread \cup Log \cup File
  /\ Lines \in [Log -> Nat]
  /\ MaxSize \in Nat /\ LastDay \in Nat

VARIABLES
  logging,   \* the log whose buffer mutex the thread holds in pushRpcLog, pushAppLog
  logged,    \* lines pushed to a log so far
  m_buffer,  \* m_buffer and m_app_buffer; 0 stands for the million empty strings
  at,        \* where a thread stands in loopFunc, flush and the joins
  taken,     \* the local vectors tmp and app_tmp of loopFunc
  stuck,     \* those of a loopFunc that a signal handler interrupted for good
  promised,  \* the batch that flush() pushed to an empty queue
  ending,    \* how a thread ends the process: "Exit", "signal", "~Logger"
  m_tasks,   \* the batches of an AsyncLogger
  m_stop,
  writer,    \* where excute stands
  batch,     \* its local vector tmp
  is_stop,   \* its local is_stop
  file,      \* the file it has open, NULL before the first
  disk,      \* the lines on disk, in the order written, with their file
  process    \* "starting", "running", "ended", or "crashed" by undefined behaviour

bufferVars == <<logging, logged, m_buffer>>
endVars    == <<at, taken, ending, stuck, promised>>
queueVars  == <<m_tasks, m_stop>>
writerVars == <<writer, batch, is_stop, file, disk>>
loggerVars == <<bufferVars, endVars, queueVars, writerVars, process>>

Empty == [l \in Log |-> <<>>]

Places == {"run", "error_log", "swap_app", "swap_rpc", "push_rpc", "push_app",
           "stop_rpc", "stop_app", "join_rpc", "join_app", "gone"}

WriterPc == {"none", "test", "to_wait", "wait", "write", "ended"}

LoggerTypeOK ==
  /\ logging \in [Thread -> Log \cup {NULL}]
  /\ logged \in [Log -> Nat] /\ \A l \in Log : logged[l] <= Lines[l]
  /\ m_buffer \in [Log -> Seq(Nat)]
  /\ taken \in [Thread -> [Log -> Seq(Nat)]]
  /\ stuck \in [Log -> Seq(Nat)] /\ promised \in [Log -> Seq(Nat)]
  /\ m_tasks \in [Log -> Seq(Seq(Nat))] /\ batch \in [Log -> Seq(Nat)]
  /\ at \in [Thread -> Places]
  /\ ending \in [Thread -> {"none", "Exit", "signal", "~Logger"}]
  /\ m_stop \in [Log -> BOOLEAN] /\ is_stop \in [Log -> BOOLEAN]
  /\ writer \in [Log -> WriterPc]
  /\ file \in [Log -> File \cup {NULL}]
  /\ disk \in [Log -> Seq([line : Nat, file : File])]
  /\ process \in {"starting", "running", "ended", "crashed"}

LoggerInit ==
  /\ logging = [t \in Thread |-> NULL]
  /\ logged = [l \in Log |-> 0] /\ m_buffer = Empty
  /\ at = [t \in Thread |-> "run"] /\ taken = [t \in Thread |-> Empty]
  /\ ending = [t \in Thread |-> "none"]
  /\ stuck = Empty /\ promised = Empty
  /\ m_tasks = Empty /\ m_stop = [l \in Log |-> FALSE]
  /\ writer = [l \in Log |-> "none"]
  /\ batch = Empty /\ is_stop = [l \in Log |-> FALSE]
  /\ file = [l \in Log |-> NULL] /\ disk = Empty
  /\ process = "starting"

Up == process \in {"starting", "running"}

\* Logger::init: the buffers get their empty strings, the writers are created and
\* each has initialised its condition before the constructor returns.
InitLogger ==
  /\ m_buffer' = [l \in Log |-> <<0>>]
  /\ writer' = [l \in Log |-> "test"]

HasLogger == writer["rpc"] # "none"

-----------------------------------------------------------------------------
(* The lines                                                               *)

Free(l) == \A t \in Thread : logging[t] # l

\* pushRpcLog or pushAppLog has the mutex of the buffer.
LockBuffer(t, l) ==
  /\ Up /\ HasLogger /\ Free(l)
  /\ at[t] = "run" /\ logging[t] = NULL /\ logged[l] < Lines[l]
  /\ logging' = [logging EXCEPT ![t] = l]
  /\ UNCHANGED <<logged, m_buffer, endVars, queueVars, writerVars, process>>

\* push_back, and the unlock.
PushLine(t, l) ==
  /\ Up /\ logging[t] = l /\ at[t] = "run"
  /\ m_buffer' = [m_buffer EXCEPT ![l] = Append(@, logged[l] + 1)]
  /\ logged' = [logged EXCEPT ![l] = @ + 1]
  /\ logging' = [logging EXCEPT ![t] = NULL]
  /\ UNCHANGED <<endVars, queueVars, writerVars, process>>

-----------------------------------------------------------------------------
(* loopFunc: by the timer, or as the first part of flush()                 *)

Goto(t, pc) == at' = [at EXCEPT ![t] = pc]

\* The timer of Logger::start, in the main reactor.
TimerFlush ==
  /\ process = "running" /\ at[Main] = "run" /\ logging[Main] = NULL
  /\ \E l \in Log : m_buffer[l] # <<>>
  /\ Goto(Main, "swap_app")
  /\ UNCHANGED <<bufferVars, taken, ending, stuck, promised, queueVars, writerVars,
                 process>>

\* tmp.swap(m_buffer) under its mutex.  The mutant leaves the lines there too.
Copied(l) == m_buffer

SwappedOut(l) == [m_buffer EXCEPT ![l] = <<>>]

Swap(t, l, from, to) ==
  /\ Up /\ at[t] = from /\ Free(l)
  /\ taken' = [taken EXCEPT ![t][l] = m_buffer[l]]
  /\ m_buffer' = SwappedOut(l)
  /\ Goto(t, to)
  /\ UNCHANGED <<logging, logged, ending, stuck, promised, queueVars, writerVars,
                 process>>

\* Where a thread goes on after loopFunc.
AfterLoopFunc(t) == IF ending[t] = "none" THEN "run" ELSE "stop_rpc"

\* A signal to the condition.  The mutant's is forgotten by push.
NoSignal(l) == writer

Signal(l) == [writer EXCEPT ![l] = IF @ = "wait" THEN "test" ELSE @]

\* AsyncLogger::push: under m_mutex, which a writer about to wait still holds.
Push(t, l, from, to) ==
  /\ Up /\ at[t] = from /\ writer[l] # "to_wait"
  /\ IF taken[t][l] = <<>> THEN UNCHANGED <<m_tasks, writer>>
     ELSE /\ m_tasks' = [m_tasks EXCEPT ![l] = Append(@, taken[t][l])]
          /\ writer' = Signal(l)
  /\ taken' = [taken EXCEPT ![t][l] = <<>>]
  /\ promised' = IF ending[t] # "none" /\ m_tasks[l] = <<>>
                 THEN [promised EXCEPT ![l] = taken[t][l]] ELSE promised
  /\ Goto(t, to)
  /\ UNCHANGED <<bufferVars, ending, stuck, m_stop, batch, is_stop, file, disk,
                 process>>

LoopFunc(t) ==
  \/ Swap(t, "app", "swap_app", "swap_rpc")
  \/ Swap(t, "rpc", "swap_rpc", "push_rpc")
  \/ Push(t, "rpc", "push_rpc", "push_app")
  \/ Push(t, "app", "push_app", AfterLoopFunc(t))

-----------------------------------------------------------------------------
(* The end of the process                                                  *)

\* AsyncLogger::stop: m_stop and the signal, without the mutex.  The mutant stops the
\* RPC log's only.
StoppedRpc(l) == [m_stop EXCEPT !["rpc"] = TRUE]

Stopped(l) == [m_stop EXCEPT ![l] = TRUE]

Stop(t, l, from, to) ==
  /\ Up /\ at[t] = from
  /\ m_stop' = Stopped(l)
  /\ writer' = IF m_stop[l] THEN writer ELSE Signal(l)
  /\ Goto(t, to)
  /\ UNCHANGED <<bufferVars, taken, ending, stuck, promised, m_tasks, batch, is_stop, file,
                 disk, process>>

\* pthread_join.  The mutant does not wait.
JoinDetached(l) == TRUE

JoinDone(l) == writer[l] = "ended"

\* Exit joins the writer of the RPC log only.
Join(t, l, from) ==
  /\ Up /\ at[t] = from /\ JoinDone(l)
  /\ IF l = "rpc" /\ ending[t] # "Exit"
     THEN Goto(t, "join_app") /\ UNCHANGED process
     ELSE Goto(t, "gone") /\ process' = "ended"
  /\ UNCHANGED <<bufferVars, taken, ending, stuck, promised, queueVars, writerVars>>

\* Exit(code), or ~Logger after exit(0): the main thread flushes.
StartEnding(how) ==
  /\ at[Main] = "run" /\ logging[Main] = NULL
  /\ \A t \in Thread : ending[t] = "none"
  /\ ending' = [ending EXCEPT ![Main] = how]
  /\ Goto(Main, "swap_app")
  /\ UNCHANGED <<bufferVars, taken, stuck, promised, queueVars, writerVars, process>>

\* CoredumpHandler interrupts a thread, wherever it stands.
SignalHandler(t) ==
  /\ Up /\ HasLogger
  /\ \A u \in Thread : ending[u] = "none"
  /\ ending' = [ending EXCEPT ![t] = "signal"]
  /\ stuck' = taken[t]
  /\ taken' = [taken EXCEPT ![t] = Empty]
  /\ Goto(t, "error_log")
  /\ UNCHANGED <<bufferVars, promised, queueVars, writerVars, process>>

\* Its ErrorLog takes the mutex of the RPC log's buffer, and hangs for good when its
\* own thread holds it.  The line itself is not told apart.
HandlerLogs(t) ==
  /\ Up /\ at[t] = "error_log" /\ Free("rpc")
  /\ Goto(t, "swap_app")
  /\ UNCHANGED <<bufferVars, taken, ending, stuck, promised, queueVars, writerVars,
                 process>>

EndStep(t) ==
  \/ HandlerLogs(t)
  \/ Stop(t, "rpc", "stop_rpc", "stop_app")
  \/ Stop(t, "app", "stop_app", "join_rpc")
  \/ Join(t, "rpc", "join_rpc")
  \/ Join(t, "app", "join_app")

-----------------------------------------------------------------------------
(* excute                                                                  *)

\* The writer has m_mutex and finds nothing to do.
FindNothing(l) ==
  /\ Up /\ writer[l] = "test" /\ m_tasks[l] = <<>> /\ ~m_stop[l]
  /\ writer' = [writer EXCEPT ![l] = "to_wait"]
  /\ UNCHANGED <<bufferVars, endVars, queueVars, batch, is_stop, file, disk, process>>

\* pthread_cond_wait.
Wait(l) ==
  /\ Up /\ writer[l] = "to_wait"
  /\ writer' = [writer EXCEPT ![l] = "wait"]
  /\ UNCHANGED <<bufferVars, endVars, queueVars, batch, is_stop, file, disk, process>>

\* front, pop.  The mutant takes the newest batch.
Newest(q) == Last(q)

Oldest(q) == Head(q)

Take(l) ==
  /\ Up /\ writer[l] = "test" /\ m_tasks[l] # <<>>
  /\ batch' = [batch EXCEPT ![l] = Oldest(m_tasks[l])]
  /\ m_tasks' = [m_tasks EXCEPT ![l] = Tail(@)]
  /\ is_stop' = [is_stop EXCEPT ![l] = m_stop[l]]
  /\ writer' = [writer EXCEPT ![l] = "write"]
  /\ UNCHANGED <<bufferVars, endVars, m_stop, file, disk, process>>

\* Stopped with an empty queue, it takes the front all the same: garbage, which
\* may look like an empty vector.
TakeFromEmpty(l) ==
  /\ Up /\ writer[l] = "test" /\ m_tasks[l] = <<>> /\ m_stop[l]
  /\ \/ /\ is_stop' = [is_stop EXCEPT ![l] = TRUE]
        /\ writer' = [writer EXCEPT ![l] = "write"]
        /\ UNCHANGED process
     \/ process' = "crashed" /\ UNCHANGED <<is_stop, writer>>
  /\ UNCHANGED <<bufferVars, endVars, queueVars, batch, file, disk>>

SizeOf(l, f) == Len(SelectSeq(disk[l], LAMBDA x : x.file = f))

\* The file a batch goes to: number 0 of a new day, the next number when the open
\* one is too big.
Rolled(l, f) == IF SizeOf(l, f) > MaxSize THEN [day |-> f.day, no |-> f.no + 1] ELSE f

FileFor(l, day) ==
  IF file[l] = NULL \/ file[l].day # day THEN Rolled(l, [day |-> day, no |-> 0])
  ELSE Rolled(l, file[l])

\* The dates the clock may show a writer, which has seen that of its file.
Dates(l) == (IF file[l] = NULL THEN 0 ELSE file[l].day)..LastDay

\* Empty strings are skipped.  Only Logger::init makes any, and lines are pushed behind
\* them: they stand in front of a batch.
Skipped(tmp) == IF tmp # <<>> /\ Head(tmp) = 0 THEN Tail(tmp) ELSE tmp

Written(l, f) ==
  LET lines == Skipped(batch[l])
  IN  [i \in 1..Len(lines) |-> [line |-> lines[i], file |-> f]]

Write(l) ==
  /\ Up /\ writer[l] = "write"
  /\ \E day \in Dates(l) :
       /\ file' = [file EXCEPT ![l] = FileFor(l, day)]
       /\ disk' = [disk EXCEPT ![l] = @ \o Written(l, FileFor(l, day))]
  /\ batch' = [batch EXCEPT ![l] = <<>>]
  /\ writer' = [writer EXCEPT ![l] = IF is_stop[l] THEN "ended" ELSE "test"]
  /\ UNCHANGED <<bufferVars, endVars, queueVars, is_stop, process>>

\* fopen fails: ftell(NULL).
OpenFails(l) ==
  /\ Up /\ writer[l] = "write" /\ \E day \in Dates(l) : FileFor(l, day) # file[l]
  /\ process' = "crashed"
  /\ UNCHANGED <<bufferVars, endVars, queueVars, writerVars>>

WriterStep(l) ==
  FindNothing(l) \/ Wait(l) \/ Take(l) \/ TakeFromEmpty(l) \/ Write(l) \/ OpenFails(l)

LogStep(t) == \E l \in Log : LockBuffer(t, l) \/ PushLine(t, l)

-----------------------------------------------------------------------------
(* Properties                                                              *)

At(s, n) == {i \in 1..Len(s) : s[i] = n}

OnDisk(l, n) == {i \in 1..Len(disk[l]) : disk[l][i].line = n}

InLoopFunc(l, n) == UNION {{<<"loopFunc", t, i>> : i \in At(taken[t][l], n)} : t \in Thread}

InQueue(l, n) ==
  UNION {{<<"queue", k, i>> : i \in At(m_tasks[l][k], n)} : k \in 1..Len(m_tasks[l])}

\* Where line n of log l is: the place, which batch of the queue or which thread's
\* loopFunc, and the position there.
Where(l, n) ==
  {<<"buffer", 0, i>> : i \in At(m_buffer[l], n)} \cup InLoopFunc(l, n) \cup InQueue(l, n)
    \cup {<<"writer", 0, i>> : i \in At(batch[l], n)} \cup {<<"disk", 0, i>> : i \in OnDisk(l, n)}
    \cup {<<"stuck", 0, i>> : i \in At(stuck[l], n)}

\* A line that was logged is in exactly one place, the buffer, a thread's loopFunc,
\* the queue, the writer or the disk, and there once: the concurrent swaps of the
\* timer and of flush() and the writer neither lose nor repeat it.
LinesConserved ==
  \A l \in Log : \A n \in 1..logged[l] : \E x \in Where(l, n) : Where(l, n) = {x}

\* The files of a log, read by date and number, have its lines in the order they
\* were logged, as long as loopFunc ran in the main thread only.
FilesInOrder ==
  (\A t \in Thread \ {Main} : ending[t] = "none") =>
    \A l \in Log : \A i, j \in DOMAIN disk[l] : i < j =>
      LET x == disk[l][i] y == disk[l][j] IN
      /\ x.line < y.line
      /\ \/ x.file = y.file
         \/ x.file.day < y.file.day
         \/ x.file.day = y.file.day /\ x.file.no < y.file.no

\* When flush() finds the queue of a log empty, what it pushes is on disk when the
\* writer has been joined.  (With a backlog the writer stops behind the first batch it
\* takes after stop().)
FlushReachesDisk ==
  \A t \in Thread, l \in Log :
    process = "ended" /\ ending[t] # "none" /\ (l = "rpc" \/ ending[t] # "Exit") =>
      \A i \in DOMAIN promised[l] :
        promised[l][i] # 0 => \E j \in DOMAIN disk[l] : disk[l][j].line = promised[l][i]

\* While nobody ends the process, the lines that were logged get to the disk.
EventuallyWritten ==
  []<>(\/ process # "running" \/ \E t \in Thread : ending[t] # "none"
       \/ \A l \in Log : Len(disk[l]) = logged[l])

\* pthread_join of a writer returns, unless the writer missed the signal of stop(),
\* which does not take the mutex, or the handler interrupted a pushRpcLog.
JoinReturns ==
  (\E t \in Thread : ending[t] # "none") ~>
    \/ ~Up
    \/ \E l \in Log : writer[l] = "wait" /\ m_stop[l]
    \/ \E t \in Thread : logging[t] # NULL
=============================================================================
