-------------------------- MODULE ServerProcessProofs --------------------------
(***************************************************************************)
(* Proofs about ServerProcess and its AsyncLogger, for every number of     *)
(* threads, lines, days and every size of a file: lines are neither lost   *)
(* nor repeated on their way to the disk, files are in order, and what     *)
(* flush() promises at the end of the process is kept.                     *)
(***************************************************************************)
EXTENDS ServerProcess, SequenceTheorems, TLAPS

\* The mutex of a buffer.
LockInv ==
  \A t \in Thread, l \in Log : logging[t] = l =>
    logged[l] < Lines[l] /\ \A u \in Thread : logging[u] = l => u = t

TypeInv == TypeOK /\ LockInv

\* A thread's vectors are filled while it is between the two swaps and the pushes.
TakenInv ==
  \A t \in Thread :
    /\ at[t] \notin {"swap_rpc", "push_rpc", "push_app"} => taken[t]["app"] = <<>>
    /\ at[t] # "push_rpc" => taken[t]["rpc"] = <<>>

\* A writer has a batch while it writes, and a signal handler comes once.
IdleInv ==
  /\ \A l \in Log : writer[l] # "write" => batch[l] = <<>>
  /\ (\A t \in Thread : ending[t] = "none") => stuck = Empty

\* There are no lines before there is a logger, and it is made once: who ends the
\* process does not run its thread's own code again.
LoggerInv ==
  /\ writer["rpc"] = "none" <=> writer["app"] = "none"
  /\ HasLogger /\ conf < Len(LogNodes) => ending[Main] # "none"
  /\ \A t \in Thread : ending[t] # "none" => at[t] # "run"
  /\ ~HasLogger => /\ \A t \in Thread : ending[t] = "none" /\ logging[t] = NULL
                   /\ conf < Len(LogNodes)
                   /\ \A l \in Log : logged[l] = 0 /\ m_buffer[l] = <<>>

PlaceInv == TakenInv /\ IdleInv /\ LoggerInv

\* The lines of a vector are in order, up to the m-th.
Vector(s, m) ==
  /\ \A i, j \in 1..Len(s) : i < j => s[i] < s[j]
  /\ \A i \in 1..Len(s) : s[i] <= m

\* Each vector of a log is in order, and has lines that were logged; on disk there is
\* no empty one.
VectorsOf(l) ==
  /\ Vector(m_buffer[l], logged[l]) /\ Vector(batch[l], logged[l]) /\ Vector(stuck[l], logged[l])
  /\ \A t \in Thread : Vector(taken[t][l], logged[l])
  /\ \A k \in 1..Len(m_tasks[l]) : Vector(m_tasks[l][k], logged[l])
  /\ \A i \in 1..Len(disk[l]) : disk[l][i].line \in 1..logged[l]

LinesOf(l) == \A n \in 1..logged[l] : \E x \in Where(l, n) : Where(l, n) = {x}

LineInv == \A l \in Log : VectorsOf(l) /\ LinesOf(l)

KeptInv == TypeInv /\ PlaceInv /\ LineInv

-----------------------------------------------------------------------------
\* Lines that are nearer to the disk were logged earlier.
Before(s, u) == \A i \in 1..Len(s), j \in 1..Len(u) : s[i] < u[j]

Written1(l, u) == \A i \in 1..Len(disk[l]), j \in 1..Len(u) : disk[l][i].line < u[j]

OnlyMain == \A t \in Thread \ {Main} : ending[t] = "none"

OrderInv(l) ==
  /\ \A i, j \in 1..Len(disk[l]) : i < j => disk[l][i].line < disk[l][j].line
  /\ Written1(l, batch[l]) /\ Written1(l, taken[Main][l]) /\ Written1(l, m_buffer[l])
  /\ Before(batch[l], taken[Main][l]) /\ Before(batch[l], m_buffer[l])
  /\ Before(taken[Main][l], m_buffer[l])
  /\ \A k \in 1..Len(m_tasks[l]) :
       /\ Written1(l, m_tasks[l][k]) /\ Before(batch[l], m_tasks[l][k])
       /\ Before(m_tasks[l][k], taken[Main][l]) /\ Before(m_tasks[l][k], m_buffer[l])
       /\ \A j \in 1..Len(m_tasks[l]) : j < k => Before(m_tasks[l][j], m_tasks[l][k])

\* Only a thread that ends the process runs loopFunc outside of the main thread.
OthersInv == \A t \in Thread \ {Main} : at[t] # "run" => ending[t] # "none"

\* Before there is a logger nothing runs, and nothing is handed on.
QuietInv ==
  ~HasLogger => /\ ~registered /\ process # "running"
                /\ \A t \in Thread : at[t] = "run"
                /\ \A l \in Log : m_tasks[l] = <<>>

NotAfter(f, g) == f.day < g.day \/ (f.day = g.day /\ f.no <= g.no)

FilesInv ==
  \A l \in Log : 
    /\ \A i \in 1..Len(disk[l]) : file[l] # NULL /\ NotAfter(disk[l][i].file, file[l])
    /\ \A i, j \in 1..Len(disk[l]) : i < j => NotAfter(disk[l][i].file, disk[l][j].file)

-----------------------------------------------------------------------------
After(l) == IF l = "rpc" THEN {"stop_app", "join_rpc", "join_app", "gone"}
            ELSE {"join_rpc", "join_app", "gone"}

EndInv ==
  /\ \A t, u \in Thread : ending[t] # "none" /\ ending[u] # "none" => t = u
  /\ \A t \in Thread :
       /\ at[t] \in {"error_log", "stop_rpc"} \cup After("rpc") => ending[t] # "none"
       /\ at[t] = "join_app" => writer["rpc"] = "ended"
       /\ process = "ended" /\ ending[t] # "none" =>
            writer["rpc"] = "ended" /\ (ending[t] # "Exit" => writer["app"] = "ended")
  /\ \A l \in Log :
       /\ m_stop[l] => \E t \in Thread : ending[t] # "none" /\ at[t] \in After(l)
       /\ is_stop[l] => m_stop[l]
       /\ writer[l] = "ended" => is_stop[l]

Safe(l, n) ==
  \/ OnDisk(l, n) # {}
  \/ writer[l] = "write" /\ At(batch[l], n) # {}
  \/ m_tasks[l] # <<>> /\ At(m_tasks[l][1], n) # {} /\ ~is_stop[l]

PromiseInv ==
  \A l \in Log : \A i \in 1..Len(promised[l]) :
    promised[l][i] # 0 => Safe(l, promised[l][i])
-----------------------------------------------------------------------------
(* Types                                                                   *)

LEMMA NodesLength == Len(LogNodes) = 7 /\ Len(Nodes) = 22
  BY DEF LogNodes, ServerNodes, Nodes, Element, Text, Unsafe

LEMMA LogIs == "rpc" \in Log /\ "app" \in Log /\ \A l \in Log : l = "rpc" \/ l = "app"
  BY DEF Log

\* The types in two parts: what lines pass through, and where the threads stand.
LineTypes ==
  /\ m_buffer \in [Log -> Seq(Nat)]
  /\ taken \in [Thread -> [Log -> Seq(Nat)]]
  /\ stuck \in [Log -> Seq(Nat)] /\ promised \in [Log -> Seq(Nat)]
  /\ m_tasks \in [Log -> Seq(Seq(Nat))] /\ batch \in [Log -> Seq(Nat)]
  /\ disk \in [Log -> Seq([line : Nat, file : File])]

ControlTypes ==
  /\ logging \in [Thread -> Log \cup {NULL}]
  /\ logged \in [Log -> Nat] /\ \A l \in Log : logged[l] <= Lines[l]
  /\ at \in [Thread -> Places]
  /\ ending \in [Thread -> {"none", "Exit", "signal", "~Logger"}]
  /\ m_stop \in [Log -> BOOLEAN] /\ is_stop \in [Log -> BOOLEAN]
  /\ writer \in [Log -> WriterPc]
  /\ file \in [Log -> File \cup {NULL}]
  /\ process \in {"starting", "running", "ended", "crashed"}

LEMMA TypeParts ==
  /\ LoggerTypeOK <=> LineTypes /\ ControlTypes
  /\ TypeOK <=> LineTypes /\ ControlTypes /\ conf \in 0..Len(Nodes) /\ registered \in BOOLEAN
  BY Zenon DEF LoggerTypeOK, TypeOK, LineTypes, ControlTypes

LEMMA TypePartsPrime ==
  /\ LoggerTypeOK' <=> LineTypes' /\ ControlTypes'
  /\ TypeOK' <=> LoggerTypeOK' /\ conf' \in 0..Len(Nodes) /\ registered' \in BOOLEAN
  BY Zenon DEF LoggerTypeOK, TypeOK, LineTypes, ControlTypes

LEMMA LineTypesKept ==
  ASSUME LineTypes, UNCHANGED <<m_buffer, taken, stuck, promised, m_tasks, batch, disk>>
  PROVE  LineTypes'
  BY DEF LineTypes

LEMMA InitType == Init => TypeInv
  <1> SUFFICES ASSUME Init PROVE TypeInv
    OBVIOUS
  <1>1. LineTypes
    BY DEF Init, LoggerInit, Empty, LineTypes
  <1>2. ControlTypes
    BY LoggerAssumption DEF Init, LoggerInit, ControlTypes, Places, WriterPc
  <1>3. conf \in 0..Len(Nodes)
    BY NodesLength DEF Init
  <1>4. registered \in BOOLEAN
    BY Zenon DEF Init
  <1>5. LockInv
    BY LoggerAssumption DEF Init, LoggerInit, LockInv
  <1>6. QED BY <1>1, <1>2, <1>3, <1>4, <1>5, TypeParts DEF TypeInv

LEMMA SignalLineTypes ==
  ASSUME LineTypes, NEW t \in Thread, SignalHandler(t)
  PROVE  LineTypes'
  <1>1. Empty \in [Log -> Seq(Nat)]
    BY DEF Empty
  <1>2. stuck' \in [Log -> Seq(Nat)] /\ taken' \in [Thread -> [Log -> Seq(Nat)]]
    BY <1>1 DEF SignalHandler, LineTypes
  <1>3. UNCHANGED <<m_buffer, promised, m_tasks, batch, disk>>
    BY DEF SignalHandler, bufferVars, queueVars, writerVars
  <1>4. QED
    BY <1>2, <1>3 DEF LineTypes

\* The steps of the main thread's own code, as the logger sees them.
LEMMA MainType ==
  ASSUME TypeOK, MainStep
  PROVE  TypeOK'
  <1>0. LineTypes /\ ControlTypes /\ conf \in 0..Len(Nodes) /\ registered \in BOOLEAN
    BY TypeParts
  <1>1. CASE ReadNode
    <2>1. conf' \in 0..Len(Nodes) /\ UNCHANGED registered
      BY <1>0, <1>1, NodesLength DEF ReadNode
    <2>2. m_buffer' \in [Log -> Seq(Nat)] /\ writer' \in [Log -> WriterPc]
      <3>1. m_buffer' \in [Log -> Seq(Nat)]
        <4>1. <<0>> \in Seq(Nat)
          OBVIOUS
        <4>2. m_buffer' = m_buffer \/ m_buffer' = [l \in Log |-> <<0>>]
          BY <1>1 DEF ReadNode, InitLogger
        <4>3. QED BY <1>0, <4>1, <4>2 DEF LineTypes
      <3>2. writer' \in [Log -> WriterPc]
        BY <1>0, <1>1 DEF ReadNode, InitLogger, ControlTypes, WriterPc
      <3>3. QED BY <3>1, <3>2
    <2>3. LineTypes'
      BY <1>0, <1>1, <2>2 DEF ReadNode, endVars, queueVars, LineTypes
    <2>4. ControlTypes'
      BY <1>0, <1>1, <2>2 DEF ReadNode, endVars, queueVars, ControlTypes
    <2>5. QED BY <1>0, <2>1, <2>3, <2>4, TypePartsPrime
  <1>2. CASE MissingBeforeLogger \/ Register \/ StartRpcServer
    <2>1. LineTypes'
      BY <1>0, <1>2, LineTypesKept DEF MissingBeforeLogger, Register, StartRpcServer, loggerVars,
         bufferVars, endVars, queueVars, writerVars
    <2>2. ControlTypes'
      BY <1>0, <1>2 DEF MissingBeforeLogger, Register, StartRpcServer, loggerVars, bufferVars,
         endVars, queueVars, writerVars, ControlTypes
    <2>3. conf' = conf /\ registered' \in BOOLEAN
      BY <1>0, <1>2 DEF MissingBeforeLogger, Register, StartRpcServer
    <2>4. QED BY <1>0, <2>1, <2>2, <2>3, TypePartsPrime
  <1>3. ASSUME NEW how \in {"Exit", "~Logger"}, StartEnding(how), conf' \in {0, conf},
               UNCHANGED registered
        PROVE  TypeOK'
    <2>1. LineTypes'
      BY <1>0, <1>3, LineTypesKept DEF StartEnding, bufferVars, queueVars, writerVars
    <2>2. ControlTypes'
      BY <1>0, <1>3 DEF StartEnding, Goto, bufferVars, queueVars, writerVars, ControlTypes, Places
    <2>3. QED BY <1>0, <1>3, <2>1, <2>2, NodesLength, TypePartsPrime
  <1>4. ASSUME NEW t \in Thread, SignalHandler(t), conf' \in {0, conf}, UNCHANGED registered
        PROVE  TypeOK'
    <2>1. LineTypes'
      BY <1>0, <1>4, SignalLineTypes
    <2>2. ControlTypes'
      BY <1>0, <1>4 DEF SignalHandler, Goto, bufferVars, queueVars, writerVars, ControlTypes, Places
    <2>3. QED BY <1>0, <1>4, <2>1, <2>2, NodesLength, TypePartsPrime
  <1>5. QED
    BY <1>1, <1>2, <1>3, <1>4, LoggerAssumption DEF MainStep, MissingAfterLogger, RegisterFails,
       TextMissing

LEMMA SignalType ==
  ASSUME TypeOK, NEW t \in Thread, SignalAt(t)
  PROVE  TypeOK'
  <1>0. LineTypes /\ ControlTypes /\ conf \in 0..Len(Nodes) /\ registered \in BOOLEAN
    BY TypeParts
  <1>1. LineTypes'
    BY <1>0, SignalLineTypes DEF SignalAt
  <1>2. ControlTypes'
    BY <1>0 DEF SignalAt, SignalHandler, Goto, bufferVars, queueVars, writerVars, ControlTypes,
       Places
  <1>3. conf' \in {0, conf} /\ UNCHANGED registered
    BY DEF SignalAt
  <1>4. QED BY <1>0, <1>1, <1>2, <1>3, NodesLength, TypePartsPrime

LEMMA LogType ==
  ASSUME LineTypes, ControlTypes, LockInv, NEW t \in Thread, NEW l \in Log,
         LockBuffer(t, l) \/ PushLine(t, l)
  PROVE  LineTypes' /\ ControlTypes' /\ LockInv'
  <1>1. CASE LockBuffer(t, l)
    <2>1. LineTypes'
      BY <1>1, LineTypesKept DEF LockBuffer, endVars, queueVars, writerVars
    <2>2. ControlTypes'
      BY <1>1 DEF LockBuffer, endVars, queueVars, writerVars, ControlTypes
    <2>3. LockInv'
      BY <1>1, LoggerAssumption DEF LockBuffer, Free, LockInv, ControlTypes
    <2>4. QED BY <2>1, <2>2, <2>3
  <1>2. CASE PushLine(t, l)
    <2>1. m_buffer' \in [Log -> Seq(Nat)]
      BY <1>2 DEF PushLine, LineTypes, ControlTypes
    <2>2. LineTypes'
      BY <1>2, <2>1 DEF PushLine, endVars, queueVars, writerVars, LineTypes
    <2>3. logged' \in [Log -> Nat] /\ \A k \in Log : logged'[k] <= Lines[k]
      <3>1. logged \in [Log -> Nat] /\ \A k \in Log : logged[k] <= Lines[k]
        BY DEF ControlTypes
      <3>2. logged' = [logged EXCEPT ![l] = logged[l] + 1] /\ logged[l] < Lines[l]
        BY <1>2 DEF PushLine, LockInv
      <3>3. Lines \in [Log -> Nat]
        BY LoggerAssumption
      <3>4. logged[l] \in Nat /\ Lines[l] \in Nat
        BY <3>1, <3>3
      <3>5. logged[l] + 1 <= Lines[l]
        BY <3>2, <3>4
      <3>6. \A k \in Log : logged'[k] = IF k = l THEN logged[l] + 1 ELSE logged[k]
        BY <3>1, <3>2
      <3>7. QED BY <3>1, <3>2, <3>5, <3>6
    <2>4. ControlTypes'
      BY <1>2, <2>3 DEF PushLine, endVars, queueVars, writerVars, ControlTypes
    <2>5. LockInv'
      <3>1. \A u \in Thread, k \in Log : logging'[u] = k => logging[u] = k /\ k # l
        BY <1>2, LoggerAssumption DEF PushLine, ControlTypes, LockInv
      <3>2. \A k \in Log : k # l => logged'[k] = logged[k]
        BY <1>2 DEF PushLine, ControlTypes
      <3>3. QED BY <3>1, <3>2 DEF LockInv
    <2>6. QED BY <2>2, <2>4, <2>5
  <1>3. QED BY <1>1, <1>2

LEMMA LoopType ==
  ASSUME LineTypes, ControlTypes, NEW t \in Thread, LoopFunc(t)
  PROVE  LineTypes' /\ ControlTypes'
  <1>1. ASSUME NEW l \in Log, NEW from, NEW to \in {"swap_rpc", "push_rpc"}, Swap(t, l, from, to)
        PROVE  LineTypes' /\ ControlTypes'
    <2>1. LineTypes'
      <3>1. /\ m_buffer \in [Log -> Seq(Nat)]
            /\ taken \in [Thread -> [Log -> Seq(Nat)]]
        BY DEF LineTypes
      <3>2. m_buffer' = [m_buffer EXCEPT ![l] = <<>>] /\ taken' = [taken EXCEPT ![t][l] = m_buffer[l]]
        BY <1>1 DEF Swap, SwappedOut
      <3>3. m_buffer' \in [Log -> Seq(Nat)]
        BY <3>1, <3>2
      <3>4. taken' \in [Thread -> [Log -> Seq(Nat)]]
        BY <3>1, <3>2
      <3>5. UNCHANGED <<stuck, promised, m_tasks, batch, disk>>
        BY <1>1 DEF Swap, queueVars, writerVars
      <3>6. QED BY <3>3, <3>4, <3>5 DEF LineTypes
    <2>2. ControlTypes'
      BY <1>1 DEF Swap, Goto, queueVars, writerVars, ControlTypes, Places
    <2>3. QED BY <2>1, <2>2
  <1>2. ASSUME NEW l \in Log, NEW from, NEW to \in {"push_app", "run", "stop_rpc"},
               Push(t, l, from, to)
        PROVE  LineTypes' /\ ControlTypes'
    <2>1. taken[t][l] \in Seq(Nat)
      BY DEF LineTypes
    <2>2. m_tasks' \in [Log -> Seq(Seq(Nat))]
      <3>1. m_tasks \in [Log -> Seq(Seq(Nat))]
        BY DEF LineTypes
      <3>2. m_tasks' = m_tasks \/ m_tasks' = [m_tasks EXCEPT ![l] = Append(m_tasks[l], taken[t][l])]
        BY <1>2 DEF Push
      <3>3. Append(m_tasks[l], taken[t][l]) \in Seq(Seq(Nat))
        BY <2>1, <3>1, AppendProperties
      <3>4. QED BY <3>1, <3>2, <3>3
    <2>3. promised' \in [Log -> Seq(Nat)] /\ taken' \in [Thread -> [Log -> Seq(Nat)]]
      BY <1>2, <2>1 DEF Push, LineTypes
    <2>4. LineTypes'
      BY <1>2, <2>2, <2>3 DEF Push, bufferVars, LineTypes
    <2>5. writer' \in [Log -> WriterPc]
      BY <1>2 DEF Push, Signal, ControlTypes, WriterPc
    <2>6. ControlTypes'
      BY <1>2, <2>5 DEF Push, Goto, bufferVars, ControlTypes, Places
    <2>7. QED BY <2>4, <2>6
  <1>3. AfterLoopFunc(t) \in {"push_app", "run", "stop_rpc"}
    BY DEF AfterLoopFunc
  <1>4. QED
    BY <1>1, <1>2, <1>3, LogIs DEF LoopFunc

LEMMA EndType ==
  ASSUME LineTypes, ControlTypes, NEW t \in Thread, EndStep(t)
  PROVE  LineTypes' /\ ControlTypes'
  <1>1. LineTypes'
    BY LineTypesKept DEF EndStep, HandlerLogs, Stop, Join, bufferVars, queueVars, writerVars
  <1>2. CASE HandlerLogs(t)
    BY <1>1, <1>2 DEF HandlerLogs, Goto, bufferVars, queueVars, writerVars, ControlTypes, Places
  <1>3. ASSUME NEW l \in Log, NEW from, NEW to \in {"stop_app", "join_rpc"}, Stop(t, l, from, to)
        PROVE  ControlTypes'
    <2>1. writer' \in [Log -> WriterPc] /\ m_stop' \in [Log -> BOOLEAN]
      BY <1>3 DEF Stop, Stopped, Signal, ControlTypes, WriterPc
    <2>2. QED
      BY <1>3, <2>1 DEF Stop, Goto, bufferVars, ControlTypes, Places
  <1>4. ASSUME NEW l \in Log, NEW from, Join(t, l, from)
        PROVE  ControlTypes'
    BY <1>4 DEF Join, Goto, bufferVars, queueVars, writerVars, ControlTypes, Places
  <1>5. QED
    BY <1>1, <1>2, <1>3, <1>4, LogIs DEF EndStep

\* The file a batch goes to is not before the one that is open.
LEMMA FileForType ==
  ASSUME TypeOK, NEW l \in Log, NEW day \in Dates(l)
  PROVE  /\ FileFor(l, day) \in File
         /\ file[l] # NULL => NotAfter(file[l], FileFor(l, day))
  <1> USE LoggerAssumption DEF TypeOK, LoggerTypeOK, File, NotAfter
  <1>1. ASSUME NEW f \in File
        PROVE  Rolled(l, f) \in File /\ NotAfter(f, Rolled(l, f))
    BY DEF Rolled
  <1>2. day \in Nat /\ [day |-> day, no |-> 0] \in File
    BY DEF Dates
  <1>3. CASE file[l] = NULL
    BY <1>1, <1>2, <1>3 DEF FileFor
  <1>4. CASE file[l] # NULL
    <2>1. file[l] \in File /\ file[l].day <= day
      BY <1>4 DEF Dates
    <2>2. CASE file[l].day = day
      BY <1>1, <1>4, <2>1, <2>2 DEF FileFor
    <2>3. CASE file[l].day # day
      <3>1. FileFor(l, day) = Rolled(l, [day |-> day, no |-> 0])
        BY <2>3 DEF FileFor
      <3>2. PICK f \in File : f = Rolled(l, [day |-> day, no |-> 0])
        BY <1>1, <1>2
      <3>3. NotAfter([day |-> day, no |-> 0], f)
        BY <1>1, <1>2, <3>2
      <3>4. file[l].day < f.day
        BY <1>2, <2>1, <2>3, <3>2, <3>3, SMTT(20)
      <3>5. QED
        BY <3>1, <3>2, <3>4
    <2>4. QED BY <2>2, <2>3
  <1>5. QED BY <1>3, <1>4

LEMMA WrittenType ==
  ASSUME TypeOK, NEW l \in Log, NEW f \in File
  PROVE  /\ Skipped(batch[l]) \in Seq(Nat)
         /\ Written(l, f) \in Seq([line : Nat, file : File])
         /\ Len(Written(l, f)) = Len(Skipped(batch[l]))
         /\ \A i \in 1..Len(Written(l, f)) :
              Written(l, f)[i] = [line |-> Skipped(batch[l])[i], file |-> f]
  <1>1. Skipped(batch[l]) \in Seq(Nat)
    BY DEF TypeOK, LoggerTypeOK, Skipped
  <1>2. Written(l, f) = [i \in 1..Len(Skipped(batch[l])) |-> [line |-> Skipped(batch[l])[i], file |-> f]]
    BY DEF Written
  <1>3. QED
    BY <1>1, <1>2

LEMMA WriterType ==
  ASSUME TypeOK, NEW l \in Log, WriterStep(l)
  PROVE  LineTypes' /\ ControlTypes'
  <1>0. LineTypes /\ ControlTypes
    BY TypeParts
  <1>1. CASE FindNothing(l) \/ Wait(l) \/ TakeFromEmpty(l) \/ OpenFails(l)
    <2>1. LineTypes'
      BY <1>0, <1>1, LineTypesKept DEF FindNothing, Wait, TakeFromEmpty, OpenFails, bufferVars,
         endVars, queueVars, writerVars
    <2>2. ControlTypes'
      BY <1>0, <1>1 DEF FindNothing, Wait, TakeFromEmpty, OpenFails, bufferVars,
         endVars, queueVars, writerVars, ControlTypes, WriterPc
    <2>3. QED BY <2>1, <2>2
  <1>2. CASE Take(l)
    <2>1. Head(m_tasks[l]) \in Seq(Nat) /\ Tail(m_tasks[l]) \in Seq(Seq(Nat))
      BY <1>0, <1>2 DEF Take, LineTypes
    <2>2. batch' \in [Log -> Seq(Nat)] /\ m_tasks' \in [Log -> Seq(Seq(Nat))]
      BY <1>0, <1>2, <2>1 DEF Take, Oldest, LineTypes
    <2>3. LineTypes'
      BY <1>0, <1>2, <2>2 DEF Take, bufferVars, endVars, LineTypes
    <2>4. ControlTypes'
      BY <1>0, <1>2 DEF Take, bufferVars, endVars, ControlTypes, WriterPc
    <2>5. QED BY <2>3, <2>4
  <1>3. CASE Write(l)
    <2>1. PICK day \in Dates(l) :
            /\ file' = [file EXCEPT ![l] = FileFor(l, day)]
            /\ disk' = [disk EXCEPT ![l] = disk[l] \o Written(l, FileFor(l, day))]
      BY <1>3 DEF Write
    <2>2. file' \in [Log -> File \cup {NULL}]
      BY <1>0, <2>1, FileForType DEF ControlTypes
    <2>3. disk[l] \o Written(l, FileFor(l, day)) \in Seq([line : Nat, file : File])
      <3>1. /\ Written(l, FileFor(l, day)) \in Seq([line : Nat, file : File])
            /\ disk[l] \in Seq([line : Nat, file : File])
        BY <1>0, FileForType, WrittenType DEF LineTypes
      <3>2. QED
        BY <3>1, ConcatProperties
    <2>4. disk' \in [Log -> Seq([line : Nat, file : File])]
      BY <1>0, <2>1, <2>3 DEF LineTypes
    <2>5. LineTypes'
      <3>1. batch \in [Log -> Seq(Nat)] /\ <<>> \in Seq(Nat)
        BY <1>0 DEF LineTypes
      <3>2. batch' \in [Log -> Seq(Nat)]
        BY <1>3, <3>1 DEF Write
      <3>3. UNCHANGED <<m_buffer, taken, stuck, promised, m_tasks>>
        BY <1>3 DEF Write, bufferVars, endVars, queueVars
      <3>4. QED BY <1>0, <2>4, <3>2, <3>3 DEF LineTypes
    <2>6. ControlTypes'
      BY <1>0, <1>3, <2>2 DEF Write, bufferVars, endVars, queueVars, ControlTypes, WriterPc
    <2>7. QED BY <2>5, <2>6
  <1>4. QED
    BY <1>1, <1>2, <1>3 DEF WriterStep

LEMMA LockKept ==
  ASSUME LockInv, UNCHANGED <<logging, logged>>
  PROVE  LockInv'
  BY DEF LockInv

LEMMA TypeStep == TypeInv /\ [Next]_vars => TypeInv'
  <1> SUFFICES ASSUME TypeInv, [Next]_vars PROVE TypeInv'
    OBVIOUS
  <1>0. /\ TypeOK /\ LockInv /\ LineTypes /\ ControlTypes
        /\ conf \in 0..Len(Nodes) /\ registered \in BOOLEAN
    BY TypeParts DEF TypeInv
  <1>1. CASE MainStep
    <2>1. UNCHANGED <<logging, logged>>
      BY <1>1 DEF MainStep, ReadNode, MissingBeforeLogger, MissingAfterLogger, TextMissing,
         RegisterFails, Register, StartRpcServer, StartEnding, SignalHandler, loggerVars,
         bufferVars
    <2>2. QED
      BY <1>0, <1>1, <2>1, MainType, LockKept DEF TypeInv
  <1>2. ASSUME NEW t \in Thread, LoggingStep(t)
        PROVE  TypeInv'
    <2>1. UNCHANGED <<conf, registered>> /\ (LogStep(t) \/ LoopFunc(t) \/ EndStep(t))
      BY <1>2 DEF LoggingStep
    <2>2. LoopFunc(t) \/ EndStep(t) => UNCHANGED <<logging, logged>>
      BY DEF LoopFunc, EndStep, Swap, Push, HandlerLogs, Stop, Join, bufferVars
    <2>3. LineTypes' /\ ControlTypes' /\ LockInv'
      BY <1>0, <2>1, <2>2, LogType, LoopType, EndType, LockKept DEF LogStep
    <2>4. QED
      BY <1>0, <2>1, <2>3, TypePartsPrime DEF TypeInv
  <1>3. ASSUME NEW t \in Thread, SignalAt(t)
        PROVE  TypeInv'
    <2>1. UNCHANGED <<logging, logged>>
      BY <1>3 DEF SignalAt, SignalHandler, bufferVars
    <2>2. QED
      BY <1>0, <1>3, <2>1, SignalType, LockKept DEF TypeInv
  <1>4. ASSUME NEW l \in Log, WriterStep(l), UNCHANGED <<conf, registered>>
        PROVE  TypeInv'
    <2>1. UNCHANGED <<logging, logged>>
      BY <1>4 DEF WriterStep, FindNothing, Wait, TakeFromEmpty, Take, Write, OpenFails, bufferVars
    <2>2. LineTypes' /\ ControlTypes' /\ LockInv'
      BY <1>0, <1>4, <2>1, WriterType, LockKept
    <2>3. QED
      BY <1>0, <1>4, <2>2, TypePartsPrime DEF TypeInv
  <1>5. CASE TimerFlush /\ UNCHANGED <<conf, registered>>
    <2>1. LineTypes'
      BY <1>0, <1>5, LineTypesKept DEF TimerFlush, bufferVars, queueVars, writerVars
    <2>2. ControlTypes' /\ LockInv'
      BY <1>0, <1>5, LockKept, LoggerAssumption DEF ControlTypes, TimerFlush, Goto,
         bufferVars, queueVars, writerVars, Places
    <2>3. QED
      BY <1>0, <1>5, <2>1, <2>2, TypePartsPrime DEF TypeInv
  <1>6. CASE UNCHANGED vars
    <2>1. LineTypes' /\ LockInv'
      BY <1>0, <1>6, LineTypesKept, LockKept DEF vars, loggerVars, bufferVars, endVars, queueVars,
         writerVars
    <2>2. ControlTypes' /\ UNCHANGED <<conf, registered>>
      BY <1>0, <1>6 DEF ControlTypes, vars, loggerVars, bufferVars, endVars, queueVars, writerVars
    <2>3. QED
      BY <1>0, <2>1, <2>2, TypePartsPrime DEF TypeInv
  <1>7. QED
    BY <1>1, <1>2, <1>3, <1>4, <1>5, <1>6 DEF Next

\* The types of the logger and of the main thread's progress are kept.
THEOREM TypeCorrect == Spec => []TypeOK
  <1>1. TypeInv => TypeOK
    BY DEF TypeInv
  <1>2. QED
    BY <1>1, InitType, TypeStep, PTL DEF Spec
-----------------------------------------------------------------------------
(* Where the threads stand                                                 *)

Between == {"swap_rpc", "push_rpc", "push_app"}

LEMMA TakenKept ==
  ASSUME TakenInv, UNCHANGED taken,
         \A t \in Thread : at'[t] = at[t] \/ at[t] \notin Between
  PROVE  TakenInv'
  BY DEF TakenInv, Between

LEMMA IdleKept ==
  ASSUME IdleInv, UNCHANGED <<batch, stuck>>,
         \A l \in Log : writer[l] = "write" => writer'[l] = "write",
         \A t \in Thread : ending'[t] = "none" => ending[t] = "none"
  PROVE  IdleInv'
  BY DEF IdleInv

LEMMA InitPlace == Init => PlaceInv
  BY LoggerAssumption, NodesLength, LogIs
  DEF Init, LoggerInit, Empty, PlaceInv, TakenInv, IdleInv, LoggerInv, HasLogger

\* The end of the process begins.
LEMMA EndingPlace ==
  ASSUME TypeInv, PlaceInv, NEW t \in Thread, NEW how \in {"Exit", "signal", "~Logger"},
         NEW pc \in {"swap_app", "error_log"},
         HasLogger, at[t] = "run" \/ taken'[t] = Empty,
         ending' = [ending EXCEPT ![t] = how], at' = [at EXCEPT ![t] = pc],
         conf' \in {conf, 0}, UNCHANGED <<logged, m_buffer, logging, writer, batch>>,
         conf' # conf => t = Main,
         taken' = taken \/ taken' = [taken EXCEPT ![t] = Empty]
  PROVE  PlaceInv'
  <1>0. /\ at \in [Thread -> Places] /\ taken \in [Thread -> [Log -> Seq(Nat)]]
        /\ ending \in [Thread -> {"none", "Exit", "signal", "~Logger"}]
        /\ TakenInv /\ IdleInv /\ LoggerInv
    BY TypeParts DEF TypeInv, ControlTypes, LineTypes, PlaceInv
  <1>1. TakenInv'
    <2>1. Empty["app"] = <<>> /\ Empty["rpc"] = <<>>
      BY LogIs DEF Empty
    <2>2. \A u \in Thread : u # t => at'[u] = at[u] /\ taken'[u] = taken[u]
      BY <1>0
    <2>3. taken'[t]["app"] = <<>> /\ taken'[t]["rpc"] = <<>>
      <3>1. CASE taken'[t] = Empty
        BY <2>1, <3>1
      <3>2. CASE at[t] = "run" /\ taken' = taken
        BY <1>0, <3>2 DEF TakenInv
      <3>3. CASE taken' = [taken EXCEPT ![t] = Empty]
        BY <1>0, <2>1, <3>3
      <3>4. QED BY <3>1, <3>2, <3>3
    <2>4. QED BY <1>0, <2>2, <2>3 DEF TakenInv
  <1>2. IdleInv'
    <2>1. ending'[t] # "none"
      BY <1>0
    <2>2. QED BY <1>0, <2>1 DEF IdleInv
  <1>3. LoggerInv'
    <2>1. \A u \in Thread : ending'[u] # "none" => at'[u] # "run"
      BY <1>0 DEF LoggerInv
    <2>2. HasLogger' /\ conf' < Len(LogNodes) => ending'[Main] # "none"
      <3>1. CASE conf' = conf
        BY <1>0, <3>1, LoggerAssumption DEF LoggerInv, HasLogger
      <3>2. CASE conf' # conf
        BY <1>0, <3>2
      <3>3. QED BY <3>1, <3>2
    <2>3. HasLogger' /\ (writer'["rpc"] = "none" <=> writer'["app"] = "none")
      BY <1>0 DEF HasLogger, LoggerInv
    <2>4. QED BY <2>1, <2>2, <2>3 DEF LoggerInv
  <1>4. QED BY <1>1, <1>2, <1>3 DEF PlaceInv

LEMMA SignalPlace ==
  ASSUME TypeInv, PlaceInv, NEW t \in Thread, SignalHandler(t), conf' \in {conf, 0},
         conf' # conf => t = Main
  PROVE  PlaceInv'
  <1>1. /\ HasLogger /\ ending' = [ending EXCEPT ![t] = "signal"]
        /\ at' = [at EXCEPT ![t] = "error_log"] /\ taken' = [taken EXCEPT ![t] = Empty]
        /\ UNCHANGED <<logged, m_buffer, logging, writer, batch>>
    BY DEF SignalHandler, Goto, bufferVars, writerVars
  <1>2. taken'[t] = Empty
    BY <1>1, TypeParts DEF TypeInv, LineTypes
  <1>3. QED BY <1>1, <1>2, EndingPlace

LEMMA MainPlace ==
  ASSUME TypeInv, PlaceInv, MainStep
  PROVE  PlaceInv'
  <1>0. /\ at \in [Thread -> Places] /\ writer \in [Log -> WriterPc]
        /\ conf \in 0..Len(Nodes)
        /\ TakenInv /\ IdleInv /\ LoggerInv
    BY TypeParts DEF TypeInv, ControlTypes, PlaceInv
  <1>1. CASE ReadNode
    <2>1. /\ at[Main] = "run" /\ conf' = conf + 1
          /\ UNCHANGED <<at, taken, ending, stuck, batch, logged, logging>>
          /\ conf' # Len(LogNodes) => UNCHANGED <<m_buffer, writer>>
          /\ conf' = Len(LogNodes) => writer' = [l \in Log |-> "test"]
      BY <1>1 DEF ReadNode, InMain, InitLogger, endVars
    <2>2. conf < Len(LogNodes) => ~HasLogger
      BY <1>0, <2>1, LoggerAssumption DEF LoggerInv
    <2>3. conf' = Len(LogNodes) => ~HasLogger
      BY <1>0, <2>1, <2>2, NodesLength
    <2>4. ~HasLogger => writer["rpc"] = "none" /\ writer["app"] = "none"
      BY <1>0 DEF HasLogger, LoggerInv
    <2>5. TakenInv'
      BY <1>0, <2>1, TakenKept
    <2>6. IdleInv'
      <3>1. \A l \in Log : writer[l] = "write" => writer'[l] = "write"
        BY <2>1, <2>3, <2>4, LogIs
      <3>2. QED BY <1>0, <2>1, <3>1, IdleKept
    <2>7. LoggerInv'
      <3>1. CASE conf' = Len(LogNodes)
        BY <1>0, <2>1, <3>1, LogIs DEF LoggerInv, HasLogger
      <3>2. CASE conf' # Len(LogNodes)
        <4>1. conf' < Len(LogNodes) => conf < Len(LogNodes)
          BY <1>0, <2>1, NodesLength
        <4>2. ~HasLogger => conf' < Len(LogNodes)
          BY <1>0, <2>1, <3>2, NodesLength DEF LoggerInv
        <4>3. QED
          BY <1>0, <2>1, <3>2, <4>1, <4>2 DEF LoggerInv, HasLogger
      <3>3. QED BY <3>1, <3>2
    <2>8. QED BY <2>5, <2>6, <2>7 DEF PlaceInv
  <1>2. CASE MissingBeforeLogger \/ Register \/ StartRpcServer
    BY <1>0, <1>2, TakenKept, IdleKept
    DEF MissingBeforeLogger, Register, StartRpcServer, loggerVars, bufferVars, endVars,
        writerVars, PlaceInv, LoggerInv, HasLogger
  <1>3. ASSUME NEW how \in {"Exit", "~Logger"}, StartEnding(how), HasLogger, conf' \in {conf, 0}
        PROVE  PlaceInv'
    <2>1. /\ at[Main] = "run" /\ ending' = [ending EXCEPT ![Main] = how]
          /\ at' = [at EXCEPT ![Main] = "swap_app"]
          /\ UNCHANGED <<logged, m_buffer, logging, writer, batch, taken>>
      BY <1>3 DEF StartEnding, Goto, bufferVars, writerVars
    <2>2. QED BY <1>3, <2>1, EndingPlace, LoggerAssumption
  <1>4. RegisterFails => HasLogger
    BY <1>0, NodesLength DEF RegisterFails, ConfigRead, LoggerInv
  <1>5. QED
    BY <1>1, <1>2, <1>3, <1>4, SignalPlace, LoggerAssumption
    DEF MainStep, MissingAfterLogger, RegisterFails, TextMissing

LEMMA LogPlace ==
  ASSUME TypeInv, PlaceInv, NEW t \in Thread, NEW l \in Log, LockBuffer(t, l) \/ PushLine(t, l),
         UNCHANGED conf
  PROVE  PlaceInv'
  <1>0. /\ logging \in [Thread -> Log \cup {NULL}] /\ logged \in [Log -> Nat]
        /\ TakenInv /\ IdleInv /\ LoggerInv
    BY TypeParts DEF TypeInv, ControlTypes, PlaceInv
  <1>1. UNCHANGED <<at, taken, ending, stuck, batch, writer>>
    BY DEF LockBuffer, PushLine, endVars, writerVars
  <1>2. HasLogger
    BY <1>0, LoggerAssumption DEF LockBuffer, PushLine, LoggerInv
  <1>3. TakenInv' /\ IdleInv'
    BY <1>0, <1>1, TakenKept, IdleKept
  <1>4. LoggerInv'
    BY <1>0, <1>1, <1>2 DEF LoggerInv, HasLogger
  <1>5. QED BY <1>3, <1>4 DEF PlaceInv

LEMMA LoopPlace ==
  ASSUME TypeInv, PlaceInv, NEW t \in Thread, LoopFunc(t), UNCHANGED conf
  PROVE  PlaceInv'
  <1>0. /\ at \in [Thread -> Places] /\ taken \in [Thread -> [Log -> Seq(Nat)]]
        /\ writer \in [Log -> WriterPc] /\ m_buffer \in [Log -> Seq(Nat)]
        /\ TakenInv /\ IdleInv /\ LoggerInv
    BY TypeParts DEF TypeInv, ControlTypes, LineTypes, PlaceInv
  <1>1. ASSUME NEW l \in Log, NEW from, NEW to, Swap(t, l, from, to),
               (l = "app" /\ from = "swap_app" /\ to = "swap_rpc")
                 \/ (l = "rpc" /\ from = "swap_rpc" /\ to = "push_rpc")
        PROVE  PlaceInv'
    <2>1. /\ at[t] = from /\ at' = [at EXCEPT ![t] = to]
          /\ taken' = [taken EXCEPT ![t][l] = m_buffer[l]]
          /\ m_buffer' = [m_buffer EXCEPT ![l] = <<>>]
          /\ UNCHANGED <<logging, logged, ending, stuck, batch, writer>>
      BY <1>1 DEF Swap, SwappedOut, Goto, writerVars
    <2>2. /\ \A u \in Thread : u # t => at'[u] = at[u] /\ taken'[u] = taken[u]
          /\ at'[t] = to
          /\ \A k \in Log : k # l => taken'[t][k] = taken[t][k]
      BY <1>0, <2>1
    <2>3. TakenInv'
      BY <1>0, <1>1, <2>1, <2>2, LogIs DEF TakenInv
    <2>4. IdleInv'
      BY <1>0, <2>1, IdleKept
    <2>5. \A k \in Log : m_buffer[k] = <<>> => m_buffer'[k] = <<>>
      BY <1>0, <2>1
    <2>6. LoggerInv'
      BY <1>0, <1>1, <2>1, <2>2, <2>5, LoggerAssumption DEF LoggerInv, HasLogger
    <2>7. QED BY <2>3, <2>4, <2>6 DEF PlaceInv
  <1>2. ASSUME NEW l \in Log, NEW from, NEW to, Push(t, l, from, to),
               (l = "rpc" /\ from = "push_rpc" /\ to = "push_app")
                 \/ (l = "app" /\ from = "push_app" /\ to = AfterLoopFunc(t))
        PROVE  PlaceInv'
    <2>1. /\ at[t] = from /\ at' = [at EXCEPT ![t] = to]
          /\ taken' = [taken EXCEPT ![t][l] = <<>>]
          /\ writer' = writer \/ writer' = Signal(l)
          /\ UNCHANGED <<logging, logged, m_buffer, ending, stuck, batch>>
      BY <1>2 DEF Push, Goto, bufferVars
    <2>2. /\ \A u \in Thread : u # t => at'[u] = at[u] /\ taken'[u] = taken[u]
          /\ at'[t] = to
          /\ \A k \in Log : k # l => taken'[t][k] = taken[t][k]
          /\ taken'[t][l] = <<>>
      BY <1>0, <2>1
    <2>3. to \in {"push_app", "run", "stop_rpc"} /\ (to = "run" => ending[t] = "none")
      BY <1>2 DEF AfterLoopFunc
    <2>4. TakenInv'
      BY <1>0, <1>2, <2>1, <2>2, <2>3, LogIs DEF TakenInv
    <2>5. \A k \in Log : /\ writer'[k] = "none" <=> writer[k] = "none"
                         /\ writer[k] = "write" => writer'[k] = "write"
      BY <1>0, <2>1 DEF Signal
    <2>6. IdleInv'
      BY <1>0, <2>1, <2>5, IdleKept
    <2>7. LoggerInv'
      BY <1>0, <2>1, <2>2, <2>3, <2>5, LogIs, LoggerAssumption DEF LoggerInv, HasLogger
    <2>8. QED BY <2>4, <2>6, <2>7 DEF PlaceInv
  <1>3. QED
    BY <1>1, <1>2, LogIs DEF LoopFunc

LEMMA EndPlace ==
  ASSUME TypeInv, PlaceInv, NEW t \in Thread, EndStep(t), UNCHANGED conf
  PROVE  PlaceInv'
  <1>0. /\ at \in [Thread -> Places] /\ writer \in [Log -> WriterPc]
        /\ TakenInv /\ IdleInv /\ LoggerInv
    BY TypeParts DEF TypeInv, ControlTypes, PlaceInv
  <1>1. /\ at[t] \in {"error_log", "stop_rpc", "stop_app", "join_rpc", "join_app"}
        /\ \E to \in {"swap_app", "stop_app", "join_rpc", "join_app", "gone"} :
             at' = [at EXCEPT ![t] = to]
        /\ UNCHANGED <<logging, logged, m_buffer, taken, ending, stuck, batch>>
        /\ writer' = writer \/ \E l \in Log : writer' = Signal(l)
    BY LogIs DEF EndStep, HandlerLogs, Stop, Join, Goto, bufferVars, writerVars, queueVars
  <1>2. /\ \A u \in Thread : at'[u] = at[u] \/ at[u] \notin Between
        /\ \A u \in Thread : at'[u] = "run" => at[u] = "run"
    BY <1>0, <1>1 DEF Between
  <1>3. \A k \in Log : /\ writer'[k] = "none" <=> writer[k] = "none"
                       /\ writer[k] = "write" => writer'[k] = "write"
    BY <1>0, <1>1 DEF Signal
  <1>4. TakenInv' /\ IdleInv'
    BY <1>0, <1>1, <1>2, <1>3, TakenKept, IdleKept
  <1>5. LoggerInv'
    BY <1>0, <1>1, <1>2, <1>3, LoggerAssumption, LogIs DEF LoggerInv, HasLogger
  <1>6. QED BY <1>4, <1>5 DEF PlaceInv

LEMMA WriterPlace ==
  ASSUME TypeInv, PlaceInv, NEW l \in Log, WriterStep(l), UNCHANGED conf
  PROVE  PlaceInv'
  <1>0. /\ writer \in [Log -> WriterPc] /\ batch \in [Log -> Seq(Nat)]
        /\ TakenInv /\ IdleInv /\ LoggerInv
    BY TypeParts DEF TypeInv, ControlTypes, LineTypes, PlaceInv
  <1>1. UNCHANGED <<logging, logged, m_buffer, at, taken, ending, stuck>>
    BY DEF WriterStep, FindNothing, Wait, Take, TakeFromEmpty, Write, OpenFails, bufferVars,
       endVars
  <1>2. TakenInv'
    BY <1>0, <1>1, TakenKept
  <1>3. /\ \A k \in Log : k # l => writer'[k] = writer[k]
        /\ writer'[l] = writer[l] \/ (writer[l] # "none" /\ writer'[l] # "none")
    BY <1>0 DEF WriterStep, FindNothing, Wait, Take, TakeFromEmpty, Write, OpenFails, writerVars
  <1>4. \A k \in Log : writer'[k] = "none" <=> writer[k] = "none"
    BY <1>3
  <1>5. LoggerInv'
    BY <1>0, <1>1, <1>4, LogIs DEF LoggerInv, HasLogger
  <1>6. IdleInv'
    <2>1. \A k \in Log : k # l => batch'[k] = batch[k]
      BY <1>0 DEF WriterStep, FindNothing, Wait, Take, TakeFromEmpty, Write, OpenFails, writerVars
    <2>2. writer'[l] # "write" => batch'[l] = <<>>
      <3>1. CASE FindNothing(l) \/ Wait(l) \/ TakeFromEmpty(l) \/ OpenFails(l)
        <4>1. UNCHANGED batch
          BY <3>1 DEF FindNothing, Wait, TakeFromEmpty, OpenFails, writerVars
        <4>2. writer[l] = "write" => writer'[l] = "write"
          BY <1>0, <3>1 DEF FindNothing, Wait, TakeFromEmpty, OpenFails, writerVars
        <4>3. QED BY <1>0, <4>1, <4>2 DEF IdleInv
      <3>2. CASE Take(l)
        BY <1>0, <3>2 DEF Take
      <3>3. CASE Write(l)
        BY <1>0, <3>3 DEF Write
      <3>4. QED BY <3>1, <3>2, <3>3 DEF WriterStep
    <2>3. QED
      BY <1>0, <1>1, <1>3, <2>1, <2>2 DEF IdleInv
  <1>7. QED BY <1>2, <1>5, <1>6 DEF PlaceInv

LEMMA PlaceStep == TypeInv /\ PlaceInv /\ [Next]_vars => PlaceInv'
  <1> SUFFICES ASSUME TypeInv, PlaceInv, [Next]_vars PROVE PlaceInv'
    OBVIOUS
  <1>1. ASSUME NEW t \in Thread, LoggingStep(t)
        PROVE  PlaceInv'
    BY <1>1, LogPlace, LoopPlace, EndPlace DEF LoggingStep, LogStep
  <1>2. ASSUME NEW t \in Thread, SignalAt(t)
        PROVE  PlaceInv'
    BY <1>2, SignalPlace DEF SignalAt, Exists
  <1>3. ASSUME NEW l \in Log, WriterStep(l), UNCHANGED <<conf, registered>>
        PROVE  PlaceInv'
    BY <1>3, WriterPlace
  <1>4. CASE TimerFlush /\ UNCHANGED <<conf, registered>>
    <2>1. /\ at[Main] = "run" /\ at' = [at EXCEPT ![Main] = "swap_app"]
          /\ UNCHANGED <<conf, logging, logged, m_buffer, taken, ending, stuck, batch, writer>>
      BY <1>4 DEF TimerFlush, Goto, bufferVars, writerVars
    <2>2. at \in [Thread -> Places] /\ TakenInv /\ IdleInv /\ LoggerInv
      BY TypeParts DEF TypeInv, ControlTypes, PlaceInv
    <2>3. \A t \in Thread : at'[t] = at[t] \/ at[t] \notin Between
      BY <2>1, <2>2 DEF Between
    <2>4. TakenInv' /\ IdleInv'
      BY <2>1, <2>2, <2>3, TakenKept, IdleKept
    <2>5. LoggerInv'
      BY <2>1, <2>2, LoggerAssumption DEF LoggerInv, HasLogger
    <2>6. QED BY <2>4, <2>5 DEF PlaceInv
  <1>5. CASE UNCHANGED vars
    BY <1>5, TakenKept, IdleKept DEF vars, loggerVars, bufferVars, endVars, writerVars, PlaceInv,
       LoggerInv, HasLogger
  <1>6. QED
    BY <1>1, <1>2, <1>3, <1>4, <1>5, MainPlace DEF Next
-----------------------------------------------------------------------------
(* Lines are neither lost nor repeated                                     *)

\* What stands at f[i] in S, for i in A, is moved to h[i] in T.
Moved(S, T, A, f, h) ==
  /\ \A i \in A : f[i] \in S /\ h[i] \in T
  /\ \A i, j \in A : f[i] = f[j] => i = j
  /\ \A x \in S : x \in T \/ \E i \in A : x = f[i]
  /\ \A z \in T : (z \in S /\ \A i \in A : z # f[i]) \/ \E i \in A : z = h[i]

Single(S) == \E x \in S : S = {x}

LEMMA OneVectorMoves ==
  ASSUME NEW S, NEW T, NEW A, NEW f, NEW h, Single(S), Moved(S, T, A, f, h)
  PROVE  Single(T)
  <1> USE DEF Moved, Single
  <1>1. PICK x \in S : S = {x}
    OBVIOUS
  <1>2. CASE A = {}
    <2>1. x \in T /\ \A z \in T : z = x
      BY <1>1, <1>2
    <2>2. QED BY <2>1
  <1>3. CASE A # {}
    <2>1. PICK i \in A : TRUE
      BY <1>3
    <2>2. f[i] = x /\ \A j \in A : j = i
      BY <1>1, <2>1
    <2>3. h[i] \in T /\ \A z \in T : z = h[i]
      BY <1>1, <2>1, <2>2
    <2>4. QED BY <2>3
  <1>4. QED BY <1>2, <1>3

LEMMA WhereIs ==
  ASSUME NEW l, NEW n, NEW x
  PROVE  x \in Where(l, n) <=>
           \/ \E i \in At(m_buffer[l], n) : x = <<"buffer", 0, i>>
           \/ \E t \in Thread : \E i \in At(taken[t][l], n) : x = <<"loopFunc", t, i>>
           \/ \E k \in 1..Len(m_tasks[l]) : \E i \in At(m_tasks[l][k], n) : x = <<"queue", k, i>>
           \/ \E i \in At(batch[l], n) : x = <<"writer", 0, i>>
           \/ \E i \in OnDisk(l, n) : x = <<"disk", 0, i>>
           \/ \E i \in At(stuck[l], n) : x = <<"stuck", 0, i>>
  <1>1. x \in InLoopFunc(l, n) <=>
          \E t \in Thread : \E i \in At(taken[t][l], n) : x = <<"loopFunc", t, i>>
    BY SMT DEF InLoopFunc
  <1>2. x \in InQueue(l, n) <=>
          \E k \in 1..Len(m_tasks[l]) : \E i \in At(m_tasks[l][k], n) : x = <<"queue", k, i>>
    BY SMT DEF InQueue
  <1>3. QED BY <1>1, <1>2 DEF Where

LEMMA WhereIsNext ==
  ASSUME NEW l, NEW n, NEW x
  PROVE  x \in Where(l, n)' <=>
           \/ \E i \in At(m_buffer'[l], n) : x = <<"buffer", 0, i>>
           \/ \E t \in Thread : \E i \in At(taken'[t][l], n) : x = <<"loopFunc", t, i>>
           \/ \E k \in 1..Len(m_tasks'[l]) : \E i \in At(m_tasks'[l][k], n) : x = <<"queue", k, i>>
           \/ \E i \in At(batch'[l], n) : x = <<"writer", 0, i>>
           \/ \E i \in OnDisk(l, n)' : x = <<"disk", 0, i>>
           \/ \E i \in At(stuck'[l], n) : x = <<"stuck", 0, i>>
  <1>1. x \in InLoopFunc(l, n)' <=>
          \E t \in Thread : \E i \in At(taken'[t][l], n) : x = <<"loopFunc", t, i>>
    BY SMT DEF InLoopFunc, At
  <1>2. x \in InQueue(l, n)' <=>
          \E k \in 1..Len(m_tasks'[l]) : \E i \in At(m_tasks'[l][k], n) : x = <<"queue", k, i>>
    BY SMT DEF InQueue, At
  <1>3. QED BY <1>1, <1>2 DEF Where, At

LEMMA WhereSame ==
  ASSUME NEW l, NEW n, At(m_buffer'[l], n) = At(m_buffer[l], n),
         \A t \in Thread : taken'[t][l] = taken[t][l],
         stuck'[l] = stuck[l], m_tasks'[l] = m_tasks[l], batch'[l] = batch[l],
         disk'[l] = disk[l]
  PROVE  Where(l, n)' = Where(l, n)
  <1>1. OnDisk(l, n)' = OnDisk(l, n)
    BY DEF OnDisk
  <1>2. InLoopFunc(l, n)' = InLoopFunc(l, n)
    <2>1. ASSUME NEW t \in Thread
          PROVE  At(taken[t][l], n)' = At(taken[t][l], n)
      BY DEF At
    <2>2. QED BY <2>1, SMT DEF InLoopFunc
  <1>3. InQueue(l, n)' = InQueue(l, n)
    BY DEF InQueue, At
  <1>4. /\ At(m_buffer[l], n)' = At(m_buffer[l], n) /\ At(batch[l], n)' = At(batch[l], n)
        /\ At(stuck[l], n)' = At(stuck[l], n)
    BY DEF At
  <1>5. QED BY <1>1, <1>2, <1>3, <1>4, Zenon DEF Where

\* A log nothing happens to.
LEMMA LogKept ==
  ASSUME NEW l \in Log, VectorsOf(l), LinesOf(l),
         m_buffer'[l] = m_buffer[l], logged'[l] = logged[l],
         \A t \in Thread : taken'[t][l] = taken[t][l],
         stuck'[l] = stuck[l], m_tasks'[l] = m_tasks[l], batch'[l] = batch[l],
         disk'[l] = disk[l]
  PROVE  VectorsOf(l)' /\ LinesOf(l)'
  <1>1. VectorsOf(l)'
    BY DEF VectorsOf, Vector
  <1>2. ASSUME NEW n PROVE Where(l, n)' = Where(l, n)
    BY WhereSame
  <1>3. QED BY <1>1, <1>2 DEF LinesOf

LEMMA LinesKept ==
  ASSUME LineInv, UNCHANGED <<m_buffer, logged, taken, stuck, m_tasks, batch, disk>>
  PROVE  LineInv'
  BY LogKept DEF LineInv

LEMMA LogVectors ==
  ASSUME TypeInv, NEW l \in Log
  PROVE  /\ m_buffer[l] \in Seq(Nat) /\ batch[l] \in Seq(Nat) /\ stuck[l] \in Seq(Nat)
         /\ \A t \in Thread : taken[t][l] \in Seq(Nat)
         /\ m_tasks[l] \in Seq(Seq(Nat))
         /\ \A k \in 1..Len(m_tasks[l]) : m_tasks[l][k] \in Seq(Nat)
         /\ disk[l] \in Seq([line : Nat, file : File])
         /\ \A i \in 1..Len(disk[l]) : disk[l][i].line \in Nat /\ disk[l][i].file \in File
         /\ logged[l] \in Nat
  <1>1. LineTypes /\ ControlTypes
    BY TypeParts DEF TypeInv
  <1>2. m_tasks[l] \in Seq(Seq(Nat)) /\ disk[l] \in Seq([line : Nat, file : File])
    BY <1>1 DEF LineTypes
  <1>3. \A i \in 1..Len(disk[l]) : disk[l][i].line \in Nat /\ disk[l][i].file \in File
    <2>1. \A i \in 1..Len(disk[l]) : disk[l][i] \in [line : Nat, file : File]
      <3>1. ASSUME NEW R, NEW s \in Seq(R) PROVE \A i \in 1..Len(s) : s[i] \in R
        OBVIOUS
      <3>2. QED BY <1>2, <3>1
    <2>2. QED BY <2>1
  <1>4. \A k \in 1..Len(m_tasks[l]) : m_tasks[l][k] \in Seq(Nat)
    BY <1>2
  <1>5. /\ m_buffer[l] \in Seq(Nat) /\ batch[l] \in Seq(Nat) /\ stuck[l] \in Seq(Nat)
        /\ \A t \in Thread : taken[t][l] \in Seq(Nat)
    BY <1>1 DEF LineTypes
  <1>6. logged[l] \in Nat
    BY <1>1 DEF ControlTypes
  <1>7. QED BY <1>2, <1>3, <1>4, <1>5, <1>6

\* push_back.
LEMMA PushLineKeeps ==
  ASSUME TypeInv, LineInv, NEW t \in Thread, NEW l \in Log, PushLine(t, l)
  PROVE  LineInv'
  <1>0. /\ m_buffer \in [Log -> Seq(Nat)] /\ logged \in [Log -> Nat]
        /\ VectorsOf(l) /\ LinesOf(l)
    BY TypeParts DEF TypeInv, LineTypes, ControlTypes, LineInv
  <1>1. /\ m_buffer' = [m_buffer EXCEPT ![l] = Append(m_buffer[l], logged[l] + 1)]
        /\ logged' = [logged EXCEPT ![l] = logged[l] + 1]
        /\ UNCHANGED <<taken, stuck, m_tasks, batch, disk>>
    BY DEF PushLine, endVars, queueVars, writerVars
  <1>2. ASSUME NEW k \in Log, k # l
        PROVE  VectorsOf(k)' /\ LinesOf(k)'
    <2>1. m_buffer'[k] = m_buffer[k] /\ logged'[k] = logged[k]
      BY <1>0, <1>1, <1>2
    <2>2. QED BY <1>1, <2>1, LogKept DEF LineInv
  <1>3. PICK m \in Nat : m = logged[l]
    BY <1>0
  <1>4. logged'[l] = m + 1 /\ m_buffer'[l] = Append(m_buffer[l], m + 1)
    BY <1>0, <1>1, <1>3
  <1>5. VectorsOf(l)'
    <2>1. ASSUME NEW s \in Seq(Nat), Vector(s, m)
          PROVE  Vector(s, m + 1) /\ Vector(Append(s, m + 1), m + 1)
      <3>1. /\ Len(Append(s, m + 1)) = Len(s) + 1
            /\ \A i \in 1..Len(s) : Append(s, m + 1)[i] = s[i] /\ s[i] \in Nat
            /\ Append(s, m + 1)[Len(s) + 1] = m + 1
        BY <1>3
      <3>2. Vector(s, m + 1)
        BY <1>3, <2>1, <3>1 DEF Vector
      <3>3. ASSUME NEW i \in 1..(Len(s) + 1), NEW j \in 1..(Len(s) + 1), i < j
            PROVE  Append(s, m + 1)[i] < Append(s, m + 1)[j]
        <4>1. CASE j = Len(s) + 1
          <5>1. i \in 1..Len(s) /\ s[i] <= m
            BY <2>1, <3>3, <4>1 DEF Vector
          <5>2. Append(s, m + 1)[i] = s[i] /\ Append(s, m + 1)[j] = m + 1 /\ s[i] \in Nat
            BY <3>1, <4>1, <5>1
          <5>3. QED BY <1>3, <5>1, <5>2
        <4>2. CASE j # Len(s) + 1
          <5>1. i \in 1..Len(s) /\ j \in 1..Len(s)
            BY <3>3, <4>2
          <5>2. s[i] < s[j]
            BY <2>1, <3>3, <5>1 DEF Vector
          <5>3. QED BY <3>1, <5>1, <5>2
        <4>3. QED BY <4>1, <4>2
      <3>4. ASSUME NEW i \in 1..(Len(s) + 1)
            PROVE  Append(s, m + 1)[i] <= m + 1
        <4>1. CASE i = Len(s) + 1
          BY <1>3, <3>1, <4>1
        <4>2. CASE i # Len(s) + 1
          BY <1>3, <2>1, <3>1, <3>4, <4>2 DEF Vector
        <4>3. QED BY <4>1, <4>2
      <3>5. QED BY <3>1, <3>2, <3>3, <3>4 DEF Vector
    <2>2. /\ Vector(m_buffer[l], m) /\ Vector(batch[l], m) /\ Vector(stuck[l], m)
          /\ \A u \in Thread : Vector(taken[u][l], m)
          /\ \A k \in 1..Len(m_tasks[l]) : Vector(m_tasks[l][k], m)
          /\ \A i \in 1..Len(disk[l]) : disk[l][i].line \in 1..m
      BY <1>0, <1>3 DEF VectorsOf
    <2>3. /\ m_buffer[l] \in Seq(Nat) /\ batch[l] \in Seq(Nat) /\ stuck[l] \in Seq(Nat)
          /\ \A u \in Thread : taken[u][l] \in Seq(Nat)
          /\ \A k \in 1..Len(m_tasks[l]) : m_tasks[l][k] \in Seq(Nat)
      BY LogVectors
    <2>4. /\ Vector(Append(m_buffer[l], m + 1), m + 1)
          /\ Vector(batch[l], m + 1) /\ Vector(stuck[l], m + 1)
          /\ \A u \in Thread : Vector(taken[u][l], m + 1)
          /\ \A k \in 1..Len(m_tasks[l]) : Vector(m_tasks[l][k], m + 1)
      BY <2>1, <2>2, <2>3
    <2>5. \A i \in 1..Len(disk[l]) : disk[l][i].line \in 1..(m + 1)
      BY <1>3, <2>2
    <2>6. QED BY <1>1, <1>4, <2>4, <2>5 DEF VectorsOf, Vector
  <1>6. LinesOf(l)'
    <2>1. ASSUME NEW s \in Seq(Nat), Vector(s, m)
          PROVE  At(s, m + 1) = {}
      BY <1>3, <2>1 DEF Vector, At
    <2>2. ASSUME NEW n \in 1..m
          PROVE  \E x \in Where(l, n)' : Where(l, n)' = {x}
      <3>1. At(m_buffer'[l], n) = At(m_buffer[l], n)
        BY <1>0, <1>3, <1>4, <2>2 DEF At
      <3>2. Where(l, n)' = Where(l, n)
        BY <1>1, <3>1, WhereSame
      <3>3. QED BY <1>0, <1>3, <2>2, <3>2 DEF LinesOf
    <2>0. PICK p \in Nat : p = m + 1
      BY <1>3
    <2>3. \E x \in Where(l, p)' : Where(l, p)' = {x}
      <3>1. At(m_buffer'[l], p) = {Len(m_buffer[l]) + 1}
        BY <1>0, <1>3, <1>4, <2>0 DEF At, VectorsOf, Vector
      <3>2. /\ At(batch[l], p) = {} /\ At(stuck[l], p) = {}
            /\ \A u \in Thread : At(taken[u][l], p) = {}
            /\ \A k \in 1..Len(m_tasks[l]) : At(m_tasks[l][k], p) = {}
            /\ OnDisk(l, p)' = {}
        <4>1. /\ batch[l] \in Seq(Nat) /\ stuck[l] \in Seq(Nat)
              /\ \A u \in Thread : taken[u][l] \in Seq(Nat)
              /\ \A k \in 1..Len(m_tasks[l]) : m_tasks[l][k] \in Seq(Nat)
          BY LogVectors
        <4>2. OnDisk(l, p)' = {}
          BY <1>0, <1>1, <1>3, <2>0 DEF OnDisk, VectorsOf
        <4>3. QED BY <1>0, <1>3, <2>1, <2>0, <4>1, <4>2 DEF VectorsOf
      <3>3. /\ At(batch'[l], p) = {} /\ At(stuck'[l], p) = {}
            /\ \A u \in Thread : At(taken'[u][l], p) = {}
            /\ \A k \in 1..Len(m_tasks'[l]) : At(m_tasks'[l][k], p) = {}
        BY <1>1, <3>2
      <3>4. PICK q : q = Len(m_buffer[l]) + 1
        OBVIOUS
      <3>5. ASSUME NEW x
            PROVE  x \in Where(l, p)' <=> x = <<"buffer", 0, q>>
        BY <3>1, <3>2, <3>3, <3>4, WhereIsNext
      <3>6. <<"buffer", 0, q>> \in Where(l, p)' /\ \A z \in Where(l, p)' : z = <<"buffer", 0, q>>
        BY <3>5
      <3>7. QED BY <3>6
    <2>4. \A n \in 1..(m + 1) : n \in 1..m \/ n = m + 1
      BY <1>3
    <2>5. QED BY <1>4, <2>2, <2>3, <2>4, <2>0 DEF LinesOf
  <1>7. QED BY <1>2, <1>5, <1>6 DEF LineInv

\* tmp.swap(m_buffer).
LEMMA SwapKeeps ==
  ASSUME TypeInv, LineInv, NEW t \in Thread, NEW l \in Log, NEW from, NEW to,
         Swap(t, l, from, to), taken[t][l] = <<>>
  PROVE  LineInv'
  <1>0. /\ m_buffer \in [Log -> Seq(Nat)] /\ taken \in [Thread -> [Log -> Seq(Nat)]]
        /\ VectorsOf(l) /\ LinesOf(l)
    BY TypeParts DEF TypeInv, LineTypes, LineInv
  <1>1. /\ m_buffer' = [m_buffer EXCEPT ![l] = <<>>]
        /\ taken' = [taken EXCEPT ![t][l] = m_buffer[l]]
        /\ UNCHANGED <<logged, stuck, m_tasks, batch, disk>>
    BY DEF Swap, SwappedOut, bufferVars, queueVars, writerVars
  <1>2. /\ m_buffer'[l] = <<>> /\ taken'[t][l] = m_buffer[l]
        /\ \A u \in Thread : u # t => taken'[u][l] = taken[u][l]
        /\ \A k \in Log : k # l => /\ m_buffer'[k] = m_buffer[k]
                                   /\ \A u \in Thread : taken'[u][k] = taken[u][k]
    BY <1>0, <1>1
  <1>3. ASSUME NEW k \in Log, k # l
        PROVE  VectorsOf(k)' /\ LinesOf(k)'
    BY <1>1, <1>2, <1>3, LogKept DEF LineInv
  <1>4. VectorsOf(l)'
    <2>1. Vector(<<>>, logged[l])
      BY DEF Vector
    <2>2. \A u \in Thread : Vector(taken'[u][l], logged[l])
      BY <1>0, <1>2 DEF VectorsOf
    <2>3. /\ Vector(m_buffer'[l], logged[l]) /\ Vector(batch[l], logged[l])
          /\ Vector(stuck[l], logged[l])
          /\ \A k \in 1..Len(m_tasks[l]) : Vector(m_tasks[l][k], logged[l])
          /\ \A i \in 1..Len(disk[l]) : disk[l][i].line \in 1..logged[l]
      BY <1>0, <1>2, <2>1 DEF VectorsOf
    <2>4. QED BY <1>1, <2>2, <2>3 DEF VectorsOf, Vector
  <1>5. ASSUME NEW n \in 1..logged[l]
        PROVE  \E x \in Where(l, n)' : Where(l, n)' = {x}
    <2>1. PICK A, S, T : /\ A = At(m_buffer[l], n)
                         /\ S = Where(l, n) /\ T = Where(l, n)'
      OBVIOUS
    <2> DEFINE f == [i \in A |-> <<"buffer", 0, i>>]
               h == [i \in A |-> <<"loopFunc", t, i>>]
    <2>2. At(m_buffer'[l], n) = {} /\ At(taken[t][l], n) = {} /\ At(taken'[t][l], n) = A
          /\ OnDisk(l, n)' = OnDisk(l, n)
      BY <1>1, <1>2, <2>1 DEF At, OnDisk
    <2>3. ASSUME NEW x
          PROVE  x \in S <=>
                   \/ \E i \in A : x = <<"buffer", 0, i>>
                   \/ \E u \in Thread : \E i \in At(taken[u][l], n) : x = <<"loopFunc", u, i>>
                   \/ \E k \in 1..Len(m_tasks[l]) : \E i \in At(m_tasks[l][k], n) : x = <<"queue", k, i>>
                   \/ \E i \in At(batch[l], n) : x = <<"writer", 0, i>>
                   \/ \E i \in OnDisk(l, n) : x = <<"disk", 0, i>>
                   \/ \E i \in At(stuck[l], n) : x = <<"stuck", 0, i>>
      BY <2>1, WhereIs
    <2>4. ASSUME NEW x
          PROVE  x \in T <=>
                   \/ \E u \in Thread : \E i \in At(taken'[u][l], n) : x = <<"loopFunc", u, i>>
                   \/ \E k \in 1..Len(m_tasks[l]) : \E i \in At(m_tasks[l][k], n) : x = <<"queue", k, i>>
                   \/ \E i \in At(batch[l], n) : x = <<"writer", 0, i>>
                   \/ \E i \in OnDisk(l, n) : x = <<"disk", 0, i>>
                   \/ \E i \in At(stuck[l], n) : x = <<"stuck", 0, i>>
      BY <1>1, <2>1, <2>2, WhereIsNext
    <2>5. \A i \in A : f[i] \in S /\ h[i] \in T
      BY <2>2, <2>3, <2>4
    <2>6. \A x \in S : x \in T \/ \E i \in A : x = f[i]
      BY <1>2, <2>2, <2>3, <2>4
    <2>7. \A z \in T : (z \in S /\ \A i \in A : z # f[i]) \/ \E i \in A : z = h[i]
      <3>1. \A z \in T : \A i \in A : z # <<"buffer", 0, i>>
        BY <2>4
      <3>2. \A z \in T : z \in S \/ \E i \in A : z = h[i]
        BY <1>2, <2>2, <2>3, <2>4
      <3>3. QED BY <3>1, <3>2
    <2>8. /\ Single(S)
          /\ \A i, j \in A : f[i] = f[j] => i = j
      BY <1>0, <1>5, <2>1 DEF LinesOf, Single
    <2> HIDE DEF f, h
    <2>9. Moved(S, T, A, f, h)
      BY <2>5, <2>6, <2>7, <2>8 DEF Moved
    <2>10. Single(T)
      BY <2>8, <2>9, OneVectorMoves
    <2>11. QED BY <2>1, <2>10 DEF Single
  <1>6. QED
    BY <1>1, <1>3, <1>4, <1>5 DEF LineInv, LinesOf

\* AsyncLogger::push.
LEMMA PushKeeps ==
  ASSUME TypeInv, LineInv, NEW t \in Thread, NEW l \in Log, NEW from, NEW to,
         Push(t, l, from, to)
  PROVE  LineInv'
  <1>0. /\ taken \in [Thread -> [Log -> Seq(Nat)]] /\ m_tasks \in [Log -> Seq(Seq(Nat))]
        /\ VectorsOf(l) /\ LinesOf(l)
    BY TypeParts DEF TypeInv, LineTypes, LineInv
  <1>1. /\ taken' = [taken EXCEPT ![t][l] = <<>>]
        /\ IF taken[t][l] = <<>> THEN UNCHANGED m_tasks
           ELSE m_tasks' = [m_tasks EXCEPT ![l] = Append(m_tasks[l], taken[t][l])]
        /\ UNCHANGED <<m_buffer, logged, stuck, batch, disk>>
    BY DEF Push, bufferVars
  <1>2. /\ taken'[t][l] = <<>>
        /\ \A u \in Thread : u # t => taken'[u][l] = taken[u][l]
        /\ \A k \in Log : k # l => /\ m_tasks'[k] = m_tasks[k]
                                   /\ \A u \in Thread : taken'[u][k] = taken[u][k]
    BY <1>0, <1>1
  <1>3. ASSUME NEW k \in Log, k # l
        PROVE  VectorsOf(k)' /\ LinesOf(k)'
    BY <1>1, <1>2, <1>3, LogKept DEF LineInv
  <1>4. CASE taken[t][l] = <<>>
    BY <1>0, <1>1, <1>2, <1>3, <1>4, LogKept DEF LineInv
  <1>5. CASE taken[t][l] # <<>>
    <2>1. PICK q : q = Len(m_tasks[l]) + 1
      OBVIOUS
    <2>2. /\ Len(m_tasks'[l]) = q /\ m_tasks'[l][q] = taken[t][l]
          /\ \A k \in 1..Len(m_tasks[l]) : m_tasks'[l][k] = m_tasks[l][k]
          /\ \A k : k \in 1..q <=> k \in 1..Len(m_tasks[l]) \/ k = q
      <3>1. m_tasks'[l] = Append(m_tasks[l], taken[t][l])
        BY <1>0, <1>1, <1>5
      <3>2. m_tasks[l] \in Seq(Seq(Nat)) /\ taken[t][l] \in Seq(Nat)
        BY <1>0
      <3>3. QED BY <2>1, <3>1, <3>2, AppendProperties
    <2>3. VectorsOf(l)'
      <3>1. Vector(<<>>, logged[l])
        BY DEF Vector
      <3>2. \A u \in Thread : Vector(taken'[u][l], logged[l])
        BY <1>0, <1>2, <3>1 DEF VectorsOf
      <3>3. \A k \in 1..Len(m_tasks'[l]) : Vector(m_tasks'[l][k], logged[l])
        BY <1>0, <2>2 DEF VectorsOf
      <3>4. /\ Vector(m_buffer[l], logged[l]) /\ Vector(batch[l], logged[l])
            /\ Vector(stuck[l], logged[l])
            /\ \A i \in 1..Len(disk[l]) : disk[l][i].line \in 1..logged[l]
        BY <1>0 DEF VectorsOf
      <3>5. QED BY <1>1, <3>2, <3>3, <3>4 DEF VectorsOf, Vector
    <2>4. ASSUME NEW n \in 1..logged[l]
          PROVE  \E x \in Where(l, n)' : Where(l, n)' = {x}
      <3>1. PICK A, S, T : /\ A = At(taken[t][l], n)
                           /\ S = Where(l, n) /\ T = Where(l, n)'
        OBVIOUS
      <3> DEFINE f == [i \in A |-> <<"loopFunc", t, i>>]
                 h == [i \in A |-> <<"queue", q, i>>]
      <3>2. /\ At(taken'[t][l], n) = {} /\ At(m_tasks'[l][q], n) = A
            /\ OnDisk(l, n)' = OnDisk(l, n)
        BY <1>1, <1>2, <2>2, <3>1 DEF At, OnDisk
      <3>3. ASSUME NEW x
            PROVE  x \in S <=>
                     \/ \E i \in A : x = <<"loopFunc", t, i>>
                     \/ \E u \in Thread \ {t} : \E i \in At(taken[u][l], n) : x = <<"loopFunc", u, i>>
                     \/ \E k \in 1..Len(m_tasks[l]) : \E i \in At(m_tasks[l][k], n) : x = <<"queue", k, i>>
                     \/ \E i \in At(m_buffer[l], n) : x = <<"buffer", 0, i>>
                     \/ \E i \in At(batch[l], n) : x = <<"writer", 0, i>>
                     \/ \E i \in OnDisk(l, n) : x = <<"disk", 0, i>>
                     \/ \E i \in At(stuck[l], n) : x = <<"stuck", 0, i>>
        BY <3>1, WhereIs
      <3>4. ASSUME NEW x
            PROVE  x \in T <=>
                     \/ \E i \in A : x = <<"queue", q, i>>
                     \/ \E u \in Thread \ {t} : \E i \in At(taken[u][l], n) : x = <<"loopFunc", u, i>>
                     \/ \E k \in 1..Len(m_tasks[l]) : \E i \in At(m_tasks[l][k], n) : x = <<"queue", k, i>>
                     \/ \E i \in At(m_buffer[l], n) : x = <<"buffer", 0, i>>
                     \/ \E i \in At(batch[l], n) : x = <<"writer", 0, i>>
                     \/ \E i \in OnDisk(l, n) : x = <<"disk", 0, i>>
                     \/ \E i \in At(stuck[l], n) : x = <<"stuck", 0, i>>
        <4>1. x \in T <=>
                \/ \E i \in At(m_buffer'[l], n) : x = <<"buffer", 0, i>>
                \/ \E u \in Thread : \E i \in At(taken'[u][l], n) : x = <<"loopFunc", u, i>>
                \/ \E k \in 1..Len(m_tasks'[l]) : \E i \in At(m_tasks'[l][k], n) : x = <<"queue", k, i>>
                \/ \E i \in At(batch'[l], n) : x = <<"writer", 0, i>>
                \/ \E i \in OnDisk(l, n)' : x = <<"disk", 0, i>>
                \/ \E i \in At(stuck'[l], n) : x = <<"stuck", 0, i>>
          BY <3>1, WhereIsNext
        <4>2. (\E u \in Thread : \E i \in At(taken'[u][l], n) : x = <<"loopFunc", u, i>>)
                <=> \E u \in Thread \ {t} : \E i \in At(taken[u][l], n) : x = <<"loopFunc", u, i>>
          BY <1>2, <3>2
        <4>3. (\E k \in 1..Len(m_tasks'[l]) : \E i \in At(m_tasks'[l][k], n) : x = <<"queue", k, i>>)
                <=> \/ \E i \in A : x = <<"queue", q, i>>
                    \/ \E k \in 1..Len(m_tasks[l]) : \E i \in At(m_tasks[l][k], n) : x = <<"queue", k, i>>
          BY <2>2, <3>2
        <4>4. QED BY <1>1, <3>2, <4>1, <4>2, <4>3
      <3>5. \A i \in A : f[i] \in S /\ h[i] \in T
        BY <3>3, <3>4
      <3>6. \A x \in S : x \in T \/ \E i \in A : x = f[i]
        BY <3>3, <3>4
      <3>7. \A z \in T : (z \in S /\ \A i \in A : z # f[i]) \/ \E i \in A : z = h[i]
        <4>1. \A z \in T : \A i \in A : z # <<"loopFunc", t, i>>
          BY <3>4
        <4>2. \A z \in T : z \in S \/ \E i \in A : z = h[i]
          BY <3>3, <3>4
        <4>3. QED BY <4>1, <4>2
      <3>8. /\ Single(S)
            /\ \A i, j \in A : f[i] = f[j] => i = j
        BY <1>0, <2>4, <3>1 DEF LinesOf, Single
      <3> HIDE DEF f, h
      <3>9. Moved(S, T, A, f, h)
        BY <3>5, <3>6, <3>7, <3>8 DEF Moved
      <3>10. Single(T)
        BY <3>8, <3>9, OneVectorMoves
      <3>11. QED BY <3>1, <3>10 DEF Single
    <2>5. QED
      BY <1>1, <1>3, <2>3, <2>4 DEF LineInv, LinesOf
  <1>6. QED BY <1>4, <1>5

\* The signal handler leaves what loopFunc held where nobody will look for it.
LEMMA SignalKeeps ==
  ASSUME TypeInv, LineInv, IdleInv, NEW t \in Thread, SignalHandler(t)
  PROVE  LineInv'
  <1>1. /\ stuck' = taken[t] /\ taken' = [taken EXCEPT ![t] = Empty] /\ stuck = Empty
        /\ UNCHANGED <<m_buffer, logged, m_tasks, batch, disk>>
    BY DEF SignalHandler, bufferVars, queueVars, writerVars, IdleInv
  <1>2. ASSUME NEW l \in Log
        PROVE  VectorsOf(l)' /\ LinesOf(l)'
    <2>0. VectorsOf(l) /\ LinesOf(l) /\ taken \in [Thread -> [Log -> Seq(Nat)]]
      BY TypeParts DEF TypeInv, LineTypes, LineInv
    <2>1. /\ taken'[t][l] = <<>> /\ stuck'[l] = taken[t][l] /\ stuck[l] = <<>>
          /\ \A u \in Thread : u # t => taken'[u][l] = taken[u][l]
      BY <1>1, <2>0 DEF Empty
    <2>2. VectorsOf(l)'
      <3>1. Vector(<<>>, logged[l])
        BY DEF Vector
      <3>2. \A u \in Thread : Vector(taken'[u][l], logged[l])
        BY <2>0, <2>1, <3>1 DEF VectorsOf
      <3>3. /\ Vector(m_buffer[l], logged[l]) /\ Vector(batch[l], logged[l])
            /\ Vector(stuck'[l], logged[l])
            /\ \A k \in 1..Len(m_tasks[l]) : Vector(m_tasks[l][k], logged[l])
            /\ \A i \in 1..Len(disk[l]) : disk[l][i].line \in 1..logged[l]
        BY <2>0, <2>1 DEF VectorsOf
      <3>4. QED BY <1>1, <3>2, <3>3 DEF VectorsOf, Vector
    <2>3. ASSUME NEW n \in 1..logged[l]
          PROVE  \E x \in Where(l, n)' : Where(l, n)' = {x}
      <3>1. PICK A, S, T : /\ A = At(taken[t][l], n)
                           /\ S = Where(l, n) /\ T = Where(l, n)'
        OBVIOUS
      <3> DEFINE f == [i \in A |-> <<"loopFunc", t, i>>]
                 h == [i \in A |-> <<"stuck", 0, i>>]
      <3>2. /\ At(taken'[t][l], n) = {} /\ At(stuck'[l], n) = A /\ At(stuck[l], n) = {}
            /\ OnDisk(l, n)' = OnDisk(l, n)
        BY <1>1, <2>1, <3>1 DEF At, OnDisk
      <3>3. ASSUME NEW x
            PROVE  x \in S <=>
                     \/ \E i \in A : x = <<"loopFunc", t, i>>
                     \/ \E u \in Thread \ {t} : \E i \in At(taken[u][l], n) : x = <<"loopFunc", u, i>>
                     \/ \E k \in 1..Len(m_tasks[l]) : \E i \in At(m_tasks[l][k], n) : x = <<"queue", k, i>>
                     \/ \E i \in At(m_buffer[l], n) : x = <<"buffer", 0, i>>
                     \/ \E i \in At(batch[l], n) : x = <<"writer", 0, i>>
                     \/ \E i \in OnDisk(l, n) : x = <<"disk", 0, i>>
        BY <3>1, <3>2, WhereIs
      <3>4. ASSUME NEW x
            PROVE  x \in T <=>
                     \/ \E i \in A : x = <<"stuck", 0, i>>
                     \/ \E u \in Thread \ {t} : \E i \in At(taken[u][l], n) : x = <<"loopFunc", u, i>>
                     \/ \E k \in 1..Len(m_tasks[l]) : \E i \in At(m_tasks[l][k], n) : x = <<"queue", k, i>>
                     \/ \E i \in At(m_buffer[l], n) : x = <<"buffer", 0, i>>
                     \/ \E i \in At(batch[l], n) : x = <<"writer", 0, i>>
                     \/ \E i \in OnDisk(l, n) : x = <<"disk", 0, i>>
        <4>1. x \in T <=>
                \/ \E i \in At(m_buffer'[l], n) : x = <<"buffer", 0, i>>
                \/ \E u \in Thread : \E i \in At(taken'[u][l], n) : x = <<"loopFunc", u, i>>
                \/ \E k \in 1..Len(m_tasks'[l]) : \E i \in At(m_tasks'[l][k], n) : x = <<"queue", k, i>>
                \/ \E i \in At(batch'[l], n) : x = <<"writer", 0, i>>
                \/ \E i \in OnDisk(l, n)' : x = <<"disk", 0, i>>
                \/ \E i \in At(stuck'[l], n) : x = <<"stuck", 0, i>>
          BY <3>1, WhereIsNext
        <4>2. (\E u \in Thread : \E i \in At(taken'[u][l], n) : x = <<"loopFunc", u, i>>)
                <=> \E u \in Thread \ {t} : \E i \in At(taken[u][l], n) : x = <<"loopFunc", u, i>>
          BY <2>1, <3>2
        <4>3. QED BY <1>1, <3>2, <4>1, <4>2
      <3>5. \A i \in A : f[i] \in S /\ h[i] \in T
        BY <3>3, <3>4
      <3>6. \A x \in S : x \in T \/ \E i \in A : x = f[i]
        BY <3>3, <3>4
      <3>7. \A z \in T : (z \in S /\ \A i \in A : z # f[i]) \/ \E i \in A : z = h[i]
        <4>1. \A z \in T : \A i \in A : z # <<"loopFunc", t, i>>
          BY <3>4
        <4>2. \A z \in T : z \in S \/ \E i \in A : z = h[i]
          BY <3>3, <3>4
        <4>3. QED BY <4>1, <4>2
      <3>8. /\ Single(S)
            /\ \A i, j \in A : f[i] = f[j] => i = j
        BY <2>0, <2>3, <3>1 DEF LinesOf, Single
      <3> HIDE DEF f, h
      <3>9. Moved(S, T, A, f, h)
        BY <3>5, <3>6, <3>7, <3>8 DEF Moved
      <3>10. Single(T)
        BY <3>8, <3>9, OneVectorMoves
      <3>11. QED BY <3>1, <3>10 DEF Single
    <2>4. QED
      BY <1>1, <2>2, <2>3 DEF LinesOf
  <1>3. QED BY <1>2 DEF LineInv

LEMMA HeadTailIs ==
  ASSUME NEW R, NEW s \in Seq(R), s # <<>>
  PROVE  /\ \E q \in Nat : Len(s) = q + 1
         /\ \A q \in Nat : Len(s) = q + 1 =>
              Head(s) = s[1] /\ Len(Tail(s)) = q /\ \A k \in 1..q : Tail(s)[k] = s[k + 1]
  <1>1. Len(s) \in Nat /\ Len(s) > 0
    OBVIOUS
  <1>2. \E q \in Nat : Len(s) = q + 1
    <2>1. Len(s) - 1 \in Nat /\ Len(s) = (Len(s) - 1) + 1
      BY <1>1
    <2>2. QED BY <2>1
  <1>3. ASSUME NEW q \in Nat, Len(s) = q + 1
        PROVE  Head(s) = s[1] /\ Len(Tail(s)) = q /\ \A k \in 1..q : Tail(s)[k] = s[k + 1]
    BY <1>3
  <1>4. QED BY <1>2, <1>3

\* front, pop: the first batch goes to the writer, the others come one nearer.
LEMMA TakeKeeps ==
  ASSUME TypeInv, LineInv, IdleInv, NEW l \in Log, Take(l)
  PROVE  LineInv'
  <1>0. /\ batch \in [Log -> Seq(Nat)] /\ m_tasks \in [Log -> Seq(Seq(Nat))]
        /\ VectorsOf(l) /\ LinesOf(l) /\ batch[l] = <<>>
    BY TypeParts DEF TypeInv, LineTypes, LineInv, Take, IdleInv
  <1>1. /\ batch' = [batch EXCEPT ![l] = Head(m_tasks[l])]
        /\ m_tasks' = [m_tasks EXCEPT ![l] = Tail(m_tasks[l])]
        /\ m_tasks[l] # <<>>
        /\ UNCHANGED <<m_buffer, logged, taken, stuck, disk>>
    BY DEF Take, Oldest, bufferVars, endVars
  <1>2. \A k \in Log : k # l => m_tasks'[k] = m_tasks[k] /\ batch'[k] = batch[k]
    BY <1>0, <1>1
  <1>3. ASSUME NEW k \in Log, k # l
        PROVE  VectorsOf(k)' /\ LinesOf(k)'
    BY <1>1, <1>2, <1>3, LogKept DEF LineInv
  <1>4. PICK q \in Nat : Len(m_tasks[l]) = q + 1
    BY <1>0, <1>1, HeadTailIs
  <1>5. /\ batch'[l] = m_tasks[l][1] /\ Len(m_tasks'[l]) = q
        /\ \A k \in 1..q : m_tasks'[l][k] = m_tasks[l][k + 1]
    <2>1. m_tasks'[l] = Tail(m_tasks[l]) /\ batch'[l] = Head(m_tasks[l])
      BY <1>0, <1>1
    <2>2. m_tasks[l] \in Seq(Seq(Nat))
      BY <1>0
    <2>3. /\ Head(m_tasks[l]) = m_tasks[l][1] /\ Len(Tail(m_tasks[l])) = q
          /\ \A k \in 1..q : Tail(m_tasks[l])[k] = m_tasks[l][k + 1]
      <3>1. m_tasks[l] # <<>>
        BY <1>1
      <3>2. QED BY <1>4, <2>2, <3>1, HeadTailIs, Zenon
    <2>4. QED BY <2>1, <2>3, Zenon
  <1>6. VectorsOf(l)'
    <2>1. \A k \in 1..(q + 1) : Vector(m_tasks[l][k], logged[l])
      BY <1>0, <1>4 DEF VectorsOf
    <2>2. Vector(batch'[l], logged[l])
      BY <1>4, <1>5, <2>1
    <2>3. \A k \in 1..Len(m_tasks'[l]) : Vector(m_tasks'[l][k], logged[l])
      <3>1. ASSUME NEW k \in 1..q
            PROVE  Vector(m_tasks'[l][k], logged[l])
        <4>1. PICK p \in 1..(q + 1) : p = k + 1
          BY <1>4
        <4>2. m_tasks'[l][k] = m_tasks[l][p]
          BY <1>5, <3>1, <4>1
        <4>3. QED BY <2>1, <4>2
      <3>2. QED BY <1>5, <3>1
    <2>4. /\ Vector(m_buffer[l], logged[l]) /\ Vector(stuck[l], logged[l])
          /\ \A u \in Thread : Vector(taken[u][l], logged[l])
          /\ \A i \in 1..Len(disk[l]) : disk[l][i].line \in 1..logged[l]
      BY <1>0 DEF VectorsOf
    <2>5. QED BY <1>1, <2>2, <2>3, <2>4 DEF VectorsOf, Vector
  <1>7. ASSUME NEW n \in 1..logged[l]
        PROVE  \E x \in Where(l, n)' : Where(l, n)' = {x}
    <2>1. PICK S, T : S = Where(l, n) /\ T = Where(l, n)'
      OBVIOUS
    <2>2. PICK A : \A a : a \in A <=> \E k \in 1..(q + 1) : \E i \in At(m_tasks[l][k], n) : a = <<k, i>>
      <3>1. PICK A : A = {a \in (1..(q + 1)) \X Nat : a[2] \in At(m_tasks[l][a[1]], n)}
        OBVIOUS
      <3>2. \A k \in 1..(q + 1) : \A i \in At(m_tasks[l][k], n) : i \in Nat
        BY DEF At
      <3>3. QED BY <3>1, <3>2
    <2> DEFINE f == [a \in A |-> <<"queue", a[1], a[2]>>]
               h == [a \in A |-> IF a[1] = 1 THEN <<"writer", 0, a[2]>>
                                 ELSE <<"queue", a[1] - 1, a[2]>>]
    <2>3. /\ At(batch[l], n) = {} /\ At(batch'[l], n) = At(m_tasks[l][1], n)
          /\ OnDisk(l, n)' = OnDisk(l, n)
      BY <1>0, <1>1, <1>5 DEF At, OnDisk
    <2>4. ASSUME NEW x
          PROVE  x \in S <=>
                   \/ \E k \in 1..(q + 1) : \E i \in At(m_tasks[l][k], n) : x = <<"queue", k, i>>
                   \/ \E u \in Thread : \E i \in At(taken[u][l], n) : x = <<"loopFunc", u, i>>
                   \/ \E i \in At(m_buffer[l], n) : x = <<"buffer", 0, i>>
                   \/ \E i \in OnDisk(l, n) : x = <<"disk", 0, i>>
                   \/ \E i \in At(stuck[l], n) : x = <<"stuck", 0, i>>
      BY <1>4, <2>1, <2>3, WhereIs
    <2>5. ASSUME NEW x
          PROVE  x \in T <=>
                   \/ \E i \in At(m_tasks[l][1], n) : x = <<"writer", 0, i>>
                   \/ \E k \in 2..(q + 1) : \E i \in At(m_tasks[l][k], n) : x = <<"queue", k - 1, i>>
                   \/ \E u \in Thread : \E i \in At(taken[u][l], n) : x = <<"loopFunc", u, i>>
                   \/ \E i \in At(m_buffer[l], n) : x = <<"buffer", 0, i>>
                   \/ \E i \in OnDisk(l, n) : x = <<"disk", 0, i>>
                   \/ \E i \in At(stuck[l], n) : x = <<"stuck", 0, i>>
      <3>1. x \in T <=>
              \/ \E i \in At(m_buffer'[l], n) : x = <<"buffer", 0, i>>
              \/ \E u \in Thread : \E i \in At(taken'[u][l], n) : x = <<"loopFunc", u, i>>
              \/ \E k \in 1..Len(m_tasks'[l]) : \E i \in At(m_tasks'[l][k], n) : x = <<"queue", k, i>>
              \/ \E i \in At(batch'[l], n) : x = <<"writer", 0, i>>
              \/ \E i \in OnDisk(l, n)' : x = <<"disk", 0, i>>
              \/ \E i \in At(stuck'[l], n) : x = <<"stuck", 0, i>>
        BY <2>1, WhereIsNext
      <3>2. (\E k \in 1..Len(m_tasks'[l]) : \E i \in At(m_tasks'[l][k], n) : x = <<"queue", k, i>>)
              <=> \E k \in 2..(q + 1) : \E i \in At(m_tasks[l][k], n) : x = <<"queue", k - 1, i>>
        <4>1. ASSUME NEW k \in 1..q, NEW i \in At(m_tasks'[l][k], n), x = <<"queue", k, i>>
              PROVE  \E m \in 2..(q + 1) : \E j \in At(m_tasks[l][m], n) : x = <<"queue", m - 1, j>>
          <5>1. PICK m \in 2..(q + 1) : m = k + 1
            BY <1>4, <4>1
          <5>2. m_tasks'[l][k] = m_tasks[l][m] /\ k = m - 1
            <6>1. m_tasks'[l][k] = m_tasks[l][k + 1]
              BY <1>5, Zenon
            <6>2. k = m - 1
              BY <5>1
            <6>3. QED BY <5>1, <6>1, <6>2, Zenon
          <5>3. i \in At(m_tasks[l][m], n) /\ x = <<"queue", m - 1, i>>
            BY <4>1, <5>2
          <5>4. QED BY <5>3
        <4>2. ASSUME NEW k \in 2..(q + 1), NEW i \in At(m_tasks[l][k], n), x = <<"queue", k - 1, i>>
              PROVE  \E m \in 1..q : \E j \in At(m_tasks'[l][m], n) : x = <<"queue", m, j>>
          <5>1. PICK m \in 1..q : m = k - 1
            BY <1>4
          <5>2. k = m + 1
            BY <1>4, <5>1
          <5>3. At(m_tasks'[l][m], n) = At(m_tasks[l][k], n)
            BY <1>4, <1>5, <5>2
          <5>4. QED BY <4>2, <5>1, <5>3
        <4>3. QED BY <1>5, <4>1, <4>2
      <3>3. QED BY <1>1, <2>3, <3>1, <3>2
    <2>6. \A a \in A : \E k \in 1..(q + 1) : \E i \in At(m_tasks[l][k], n) :
            a = <<k, i>> /\ a[1] = k /\ a[2] = i
      BY <2>2
    <2>7. \A a \in A : f[a] \in S /\ h[a] \in T
      <3>1. ASSUME NEW a \in A
            PROVE  f[a] \in S /\ h[a] \in T
        <4>1. PICK k \in 1..(q + 1) : \E i \in At(m_tasks[l][k], n) : a[1] = k /\ a[2] = i
          BY <2>6
        <4> PICK i \in At(m_tasks[l][k], n) : a[1] = k /\ a[2] = i
          BY <4>1
        <4>2. f[a] = <<"queue", k, i>> /\ h[a] = IF k = 1 THEN <<"writer", 0, i>> ELSE <<"queue", k - 1, i>>
          BY <4>1
        <4>3. k = 1 \/ k \in 2..(q + 1)
          BY <1>4
        <4>4. QED BY <2>4, <2>5, <4>1, <4>2, <4>3
      <3>2. QED BY <3>1
    <2>8. \A a, b \in A : f[a] = f[b] => a = b
      BY <2>6
    <2>9. \A x \in S : x \in T \/ \E a \in A : x = f[a]
      <3>1. ASSUME NEW k \in 1..(q + 1), NEW i \in At(m_tasks[l][k], n)
            PROVE  <<k, i>> \in A /\ f[<<k, i>>] = <<"queue", k, i>>
        BY <2>2
      <3> HIDE DEF f, h
      <3>2. ASSUME NEW x \in S
            PROVE  x \in T \/ \E k \in 1..(q + 1) : \E i \in At(m_tasks[l][k], n) : x = <<"queue", k, i>>
        BY <2>4, <2>5
      <3>3. ASSUME NEW x \in S, NEW k \in 1..(q + 1), NEW i \in At(m_tasks[l][k], n),
                   x = <<"queue", k, i>>
            PROVE  \E a \in A : x = f[a]
        BY <3>1, <3>3
      <3>4. QED BY <3>2, <3>3
    <2>10. \A z \in T : (z \in S /\ \A a \in A : z # f[a]) \/ \E a \in A : z = h[a]
      <3>1. ASSUME NEW i \in At(m_tasks[l][1], n)
            PROVE  <<1, i>> \in A /\ h[<<1, i>>] = <<"writer", 0, i>>
        BY <1>4, <2>2
      <3>2. ASSUME NEW k \in 2..(q + 1), NEW i \in At(m_tasks[l][k], n)
            PROVE  <<k, i>> \in A /\ h[<<k, i>>] = <<"queue", k - 1, i>>
        <4>1. k \in 1..(q + 1) /\ k # 1
          BY <1>4
        <4>2. QED BY <2>2, <4>1
      <3>3. \A a \in A : f[a][1] = "queue"
        OBVIOUS
      <3> HIDE DEF f, h
      <3>4. ASSUME NEW z \in T
            PROVE  (z \in S /\ z[1] # "queue") \/ \E a \in A : z = h[a]
        <4>1. CASE \E i \in At(m_tasks[l][1], n) : z = <<"writer", 0, i>>
          BY <3>1, <4>1
        <4>2. CASE \E k \in 2..(q + 1) : \E i \in At(m_tasks[l][k], n) : z = <<"queue", k - 1, i>>
          BY <3>2, <4>2
        <4>3. CASE \/ \E u \in Thread : \E i \in At(taken[u][l], n) : z = <<"loopFunc", u, i>>
                   \/ \E i \in At(m_buffer[l], n) : z = <<"buffer", 0, i>>
                   \/ \E i \in OnDisk(l, n) : z = <<"disk", 0, i>>
                   \/ \E i \in At(stuck[l], n) : z = <<"stuck", 0, i>>
          <5>1. z \in S
            BY <2>4, <4>3
          <5>2. z[1] # "queue"
            BY <4>3
          <5>3. QED BY <5>1, <5>2
        <4>4. QED BY <2>5, <4>1, <4>2, <4>3
      <3>5. QED BY <3>3, <3>4
    <2>11. Single(S)
      BY <1>0, <1>7, <2>1 DEF LinesOf, Single
    <2> HIDE DEF f, h
    <2>12. Moved(S, T, A, f, h)
      BY <2>7, <2>8, <2>9, <2>10 DEF Moved
    <2>13. Single(T)
      BY <2>11, <2>12, OneVectorMoves
    <2>14. QED BY <2>1, <2>13 DEF Single
  <1>8. QED
    BY <1>1, <1>3, <1>6, <1>7 DEF LineInv, LinesOf

\* What a batch, whose first e strings are empty, makes of a log's files.
Appended(l, e) ==
  /\ Len(disk'[l]) = Len(disk[l]) + Len(batch[l]) - e
  /\ \A i \in 1..Len(disk[l]) : disk'[l][i] = disk[l][i]
  /\ \A j \in (e + 1)..Len(batch[l]) :
       disk'[l][Len(disk[l]) + j - e] = [line |-> batch[l][j], file |-> file'[l]]
  /\ e <= Len(batch[l])
  /\ \A j \in 1..e : batch[l][j] = 0
  /\ \A j \in (e + 1)..Len(batch[l]) : batch[l][j] > 0

LEMMA WriteAppends ==
  ASSUME TypeInv, NEW l \in Log, Write(l), Vector(batch[l], logged[l])
  PROVE  \E e \in Nat : Appended(l, e)
  <1>0. /\ batch[l] \in Seq(Nat) /\ disk[l] \in Seq([line : Nat, file : File])
        /\ disk \in [Log -> Seq([line : Nat, file : File])]
        /\ file \in [Log -> File \cup {NULL}] /\ TypeOK
    BY LogVectors, TypeParts DEF TypeInv, LineTypes, ControlTypes
  <1>1. PICK e \in Nat :
          /\ e <= 1 /\ e <= Len(batch[l]) /\ Len(Skipped(batch[l])) = Len(batch[l]) - e
          /\ \A i \in 1..Len(Skipped(batch[l])) : Skipped(batch[l])[i] = batch[l][i + e]
          /\ \A j \in 1..e : batch[l][j] = 0
          /\ e = 0 /\ batch[l] # <<>> => batch[l][1] # 0
    <2>1. CASE batch[l] # <<>> /\ Head(batch[l]) = 0
      <3>1. Skipped(batch[l]) = Tail(batch[l]) /\ Head(batch[l]) = batch[l][1]
        BY <1>0, <2>1 DEF Skipped
      <3>2. Len(Tail(batch[l])) = Len(batch[l]) - 1 /\ 1 <= Len(batch[l])
        BY <1>0, <2>1
      <3>3. \A i \in 1..Len(Tail(batch[l])) : Tail(batch[l])[i] = batch[l][i + 1]
        BY <1>0, <2>1
      <3>4. QED BY <2>1, <3>1, <3>2, <3>3
    <2>2. CASE ~(batch[l] # <<>> /\ Head(batch[l]) = 0)
      <3>1. Skipped(batch[l]) = batch[l] /\ (batch[l] # <<>> => batch[l][1] # 0)
        BY <1>0, <2>2 DEF Skipped
      <3>2. Len(batch[l]) \in Nat /\ Len(batch[l]) = Len(batch[l]) - 0 /\ 0 <= Len(batch[l])
        BY <1>0
      <3>3. \A i \in 1..Len(batch[l]) : batch[l][i] = batch[l][i + 0]
        BY <3>2
      <3>4. QED BY <3>1, <3>2, <3>3
    <2>3. QED BY <2>1, <2>2
  <1>2. PICK day \in Dates(l) :
          /\ file' = [file EXCEPT ![l] = FileFor(l, day)]
          /\ disk' = [disk EXCEPT ![l] = disk[l] \o Written(l, FileFor(l, day))]
    BY DEF Write
  <1>3. PICK F : F = FileFor(l, day)
    OBVIOUS
  <1>4. F \in File /\ file'[l] = F
    BY <1>0, <1>2, <1>3, FileForType
  <1>5. PICK W : W = Written(l, F)
    OBVIOUS
  <1>6. /\ W \in Seq([line : Nat, file : File])
        /\ Len(W) = Len(Skipped(batch[l]))
        /\ \A i \in 1..Len(W) : W[i] = [line |-> Skipped(batch[l])[i], file |-> F]
    BY <1>0, <1>4, <1>5, WrittenType
  <1>7. disk'[l] = disk[l] \o W
    BY <1>0, <1>2, <1>3, <1>5
  <1>8. /\ Len(disk'[l]) = Len(disk[l]) + Len(W)
        /\ \A i \in 1..Len(disk[l]) : disk'[l][i] = disk[l][i]
        /\ \A i \in 1..Len(W) : disk'[l][Len(disk[l]) + i] = W[i]
    <2>1. ASSUME NEW R, NEW s \in Seq(R), NEW u \in Seq(R)
          PROVE  /\ Len(s \o u) = Len(s) + Len(u)
                 /\ \A i \in 1..Len(s) : (s \o u)[i] = s[i]
                 /\ \A i \in 1..Len(u) : (s \o u)[Len(s) + i] = u[i]
      OBVIOUS
    <2>2. /\ Len(disk[l] \o W) = Len(disk[l]) + Len(W)
          /\ \A i \in 1..Len(disk[l]) : (disk[l] \o W)[i] = disk[l][i]
          /\ \A i \in 1..Len(W) : (disk[l] \o W)[Len(disk[l]) + i] = W[i]
      <3>1. PICK R, D : R = [line : Nat, file : File] /\ D = disk[l]
        OBVIOUS
      <3>2. D \in Seq(R) /\ W \in Seq(R)
        BY <1>0, <1>6, <3>1
      <3>3. /\ Len(D \o W) = Len(D) + Len(W)
            /\ \A i \in 1..Len(D) : (D \o W)[i] = D[i]
            /\ \A i \in 1..Len(W) : (D \o W)[Len(D) + i] = W[i]
        BY <2>1, <3>2
      <3>4. QED BY <3>1, <3>3, Zenon
    <2>3. QED BY <1>7, <2>2, Zenon
  <1>9. /\ Len(batch[l]) \in Nat /\ Len(disk[l]) \in Nat
        /\ Len(W) = Len(batch[l]) - e
    BY <1>0, <1>1, <1>6
  <1>10. ASSUME NEW j \in (e + 1)..Len(batch[l])
         PROVE  disk'[l][Len(disk[l]) + j - e] = [line |-> batch[l][j], file |-> file'[l]]
    <2>1. PICK i \in 1..Len(W) : i = j - e
      BY <1>9
    <2>2. Len(disk[l]) + j - e = Len(disk[l]) + i /\ i + e = j
      BY <1>9, <2>1
    <2>3. W[i] = [line |-> batch[l][j], file |-> F]
      BY <1>1, <1>6, <2>1, <2>2
    <2>4. QED BY <1>4, <1>8, <2>1, <2>2, <2>3
  <1>11. ASSUME NEW j \in (e + 1)..Len(batch[l])
         PROVE  batch[l][j] > 0
    <2>1. j \in 1..Len(batch[l]) /\ 1 \in 1..Len(batch[l])
      BY <1>9
    <2>2. batch[l][1] \in Nat /\ batch[l][j] \in Nat
      BY <1>0, <2>1
    <2>3. j = 1 \/ batch[l][1] < batch[l][j]
      BY <2>1 DEF Vector
    <2>4. CASE j = 1
      <3>1. e = 0 /\ batch[l] # <<>>
        BY <1>0, <1>9, <2>4
      <3>2. QED BY <1>1, <2>2, <2>4, <3>1
    <2>5. QED BY <2>2, <2>3, <2>4
  <1>12. QED
    BY <1>1, <1>8, <1>9, <1>10, <1>11 DEF Appended

\* excute writes its batch; the empty strings are no lines.
LEMMA WriteKeeps ==
  ASSUME TypeInv, LineInv, NEW l \in Log, Write(l)
  PROVE  LineInv'
  <1>0. /\ batch \in [Log -> Seq(Nat)] /\ disk \in [Log -> Seq([line : Nat, file : File])]
        /\ VectorsOf(l) /\ LinesOf(l)
    BY TypeParts DEF TypeInv, LineTypes, LineInv
  <1>1. /\ batch' = [batch EXCEPT ![l] = <<>>]
        /\ \A k \in Log : k # l => disk'[k] = disk[k] /\ batch'[k] = batch[k]
        /\ UNCHANGED <<m_buffer, logged, taken, stuck, m_tasks>>
    BY <1>0 DEF Write, bufferVars, endVars, queueVars
  <1>2. ASSUME NEW k \in Log, k # l
        PROVE  VectorsOf(k)' /\ LinesOf(k)'
    BY <1>1, <1>2, LogKept DEF LineInv
  <1>3. PICK e \in Nat : Appended(l, e)
    BY <1>0, WriteAppends DEF VectorsOf
  <1>4. PICK d \in Nat, b \in Nat : d = Len(disk[l]) /\ b = Len(batch[l])
    BY LogVectors
  <1>5. /\ Len(disk'[l]) = d + b - e /\ e <= b
        /\ \A i \in 1..d : disk'[l][i] = disk[l][i]
        /\ \A j \in (e + 1)..b : /\ disk'[l][d + j - e].line = batch[l][j]
                                 /\ batch[l][j] > 0
        /\ \A j \in 1..e : batch[l][j] = 0
    <2>1. \A j \in (e + 1)..b : disk'[l][d + j - e] = [line |-> batch[l][j], file |-> file'[l]]
      BY <1>3, <1>4, Zenon DEF Appended
    <2>2. \A x, y : [line |-> x, file |-> y].line = x
      OBVIOUS
    <2>3. \A j \in (e + 1)..b : disk'[l][d + j - e].line = batch[l][j]
      BY <2>1, <2>2, ZenonT(30)
    <2>4. \A j \in (e + 1)..b : batch[l][j] > 0
      BY <1>3, <1>4, Zenon DEF Appended
    <2>5. /\ \A i \in 1..d : disk'[l][i] = disk[l][i]
          /\ \A j \in 1..e : batch[l][j] = 0
      BY <1>3, <1>4, Zenon DEF Appended
    <2>6. Len(disk'[l]) = d + b - e /\ e <= b
      <3>1. Len(disk'[l]) = Len(disk[l]) + Len(batch[l]) - e /\ e <= Len(batch[l])
        BY <1>3, Zenon DEF Appended
      <3>2. QED BY <1>4, <3>1
    <2>7. QED BY <2>3, <2>4, <2>5, <2>6
  <1>e. e \in Nat /\ e <= b
    BY <1>5
  <1>6. ASSUME NEW i \in 1..(d + b - e)
        PROVE  i \in 1..d \/ \E j \in (e + 1)..b : i = d + j - e
    <2>1. CASE i > d
      <3>1. i - d + e \in (e + 1)..b /\ i = d + (i - d + e) - e
        BY <1>e, <2>1
      <3>2. QED BY <3>1
    <2>2. QED BY <1>e, <2>1
  <1>7. VectorsOf(l)'
    <2>1. \A i \in 1..Len(disk'[l]) : disk'[l][i].line \in 1..logged[l]
      <3>1. ASSUME NEW j \in (e + 1)..b
            PROVE  batch[l][j] \in 1..logged[l]
        <4>1. j \in 1..b /\ batch[l] \in Seq(Nat) /\ logged[l] \in Nat
          BY <1>4, LogVectors
        <4>2. batch[l][j] \in Nat /\ batch[l][j] <= logged[l]
          BY <1>0, <1>4, <4>1 DEF VectorsOf, Vector
        <4>3. QED BY <1>5, <4>1, <4>2
      <3>2. ASSUME NEW i \in 1..Len(disk'[l])
            PROVE  disk'[l][i].line \in 1..logged[l]
        <4>1. CASE i \in 1..d
          BY <1>0, <1>4, <1>5, <4>1 DEF VectorsOf
        <4>2. CASE \E j \in (e + 1)..b : i = d + j - e
          BY <1>5, <3>1, <4>2
        <4>3. QED BY <1>5, <1>6, <4>1, <4>2
      <3>3. QED BY <3>2
    <2>2. Vector(batch'[l], logged[l])
      BY <1>0, <1>1 DEF Vector
    <2>3. /\ Vector(m_buffer[l], logged[l]) /\ Vector(stuck[l], logged[l])
          /\ \A u \in Thread : Vector(taken[u][l], logged[l])
          /\ \A k \in 1..Len(m_tasks[l]) : Vector(m_tasks[l][k], logged[l])
      BY <1>0 DEF VectorsOf
    <2>4. QED BY <1>1, <2>1, <2>2, <2>3 DEF VectorsOf, Vector
  <1>8. ASSUME NEW n \in 1..logged[l]
        PROVE  \E x \in Where(l, n)' : Where(l, n)' = {x}
    <2>1. PICK A, S, T : /\ A = At(batch[l], n)
                         /\ S = Where(l, n) /\ T = Where(l, n)'
      OBVIOUS
    <2> DEFINE f == [i \in A |-> <<"writer", 0, i>>]
               h == [i \in A |-> <<"disk", 0, d + i - e>>]
    <2>2. At(batch'[l], n) = {}
      BY <1>0, <1>1 DEF At
    <2>3. n > 0 /\ \A i : i \in A <=> i \in (e + 1)..b /\ batch[l][i] = n
      <3>1. n > 0
        BY LogVectors
      <3>2. ASSUME NEW i \in 1..b, batch[l][i] = n
            PROVE  i \in (e + 1)..b
        BY <1>4, <1>5, <3>1, <3>2
      <3>3. ASSUME NEW i \in (e + 1)..b
            PROVE  i \in 1..b
        BY <1>4
      <3>4. QED BY <1>4, <2>1, <3>1, <3>2, <3>3 DEF At
    <2>4. \A i : i \in OnDisk(l, n)' <=> i \in OnDisk(l, n) \/ \E j \in A : i = d + j - e
      <3>1. ASSUME NEW i
            PROVE  i \in OnDisk(l, n)' <=> i \in 1..(d + b - e) /\ disk'[l][i].line = n
        BY <1>5 DEF OnDisk
      <3>2. ASSUME NEW i
            PROVE  i \in OnDisk(l, n) <=> i \in 1..d /\ disk[l][i].line = n
        BY <1>4 DEF OnDisk
      <3>3. ASSUME NEW i, i \in OnDisk(l, n)'
            PROVE  i \in OnDisk(l, n) \/ \E j \in A : i = d + j - e
        <4>1. CASE i \in 1..d
          BY <1>5, <3>1, <3>2, <3>3, <4>1
        <4>2. CASE \E j \in (e + 1)..b : i = d + j - e
          BY <1>5, <2>3, <3>1, <3>3, <4>2
        <4>3. QED BY <1>6, <3>1, <3>3, <4>1, <4>2
      <3>4. ASSUME NEW i, i \in OnDisk(l, n)
            PROVE  i \in OnDisk(l, n)'
        <4>1. i \in 1..(d + b - e)
          BY <1>4, <1>5, <3>2, <3>4
        <4>2. QED BY <1>5, <3>1, <3>2, <3>4, <4>1
      <3>5. ASSUME NEW j \in A
            PROVE  d + j - e \in OnDisk(l, n)'
        <4>1. j \in (e + 1)..b /\ batch[l][j] = n
          BY <2>3
        <4>2. d + j - e \in 1..(d + b - e)
          BY <1>e, <4>1
        <4>3. disk'[l][d + j - e].line = n
          BY <1>5, <4>1
        <4>4. QED BY <3>1, <4>2, <4>3
      <3>6. QED BY <3>3, <3>4, <3>5
    <2>5. ASSUME NEW x
          PROVE  x \in S <=>
                   \/ \E i \in A : x = <<"writer", 0, i>>
                   \/ \E i \in OnDisk(l, n) : x = <<"disk", 0, i>>
                   \/ \E u \in Thread : \E i \in At(taken[u][l], n) : x = <<"loopFunc", u, i>>
                   \/ \E k \in 1..Len(m_tasks[l]) : \E i \in At(m_tasks[l][k], n) : x = <<"queue", k, i>>
                   \/ \E i \in At(m_buffer[l], n) : x = <<"buffer", 0, i>>
                   \/ \E i \in At(stuck[l], n) : x = <<"stuck", 0, i>>
      BY <2>1, WhereIs
    <2>6. ASSUME NEW x
          PROVE  x \in T <=>
                   \/ \E i \in A : x = <<"disk", 0, d + i - e>>
                   \/ \E i \in OnDisk(l, n) : x = <<"disk", 0, i>>
                   \/ \E u \in Thread : \E i \in At(taken[u][l], n) : x = <<"loopFunc", u, i>>
                   \/ \E k \in 1..Len(m_tasks[l]) : \E i \in At(m_tasks[l][k], n) : x = <<"queue", k, i>>
                   \/ \E i \in At(m_buffer[l], n) : x = <<"buffer", 0, i>>
                   \/ \E i \in At(stuck[l], n) : x = <<"stuck", 0, i>>
      <3>1. x \in T <=>
              \/ \E i \in At(m_buffer'[l], n) : x = <<"buffer", 0, i>>
              \/ \E u \in Thread : \E i \in At(taken'[u][l], n) : x = <<"loopFunc", u, i>>
              \/ \E k \in 1..Len(m_tasks'[l]) : \E i \in At(m_tasks'[l][k], n) : x = <<"queue", k, i>>
              \/ \E i \in At(batch'[l], n) : x = <<"writer", 0, i>>
              \/ \E i \in OnDisk(l, n)' : x = <<"disk", 0, i>>
              \/ \E i \in At(stuck'[l], n) : x = <<"stuck", 0, i>>
        BY <2>1, WhereIsNext
      <3>2. (\E i \in OnDisk(l, n)' : x = <<"disk", 0, i>>) <=>
              \/ \E i \in A : x = <<"disk", 0, d + i - e>>
              \/ \E i \in OnDisk(l, n) : x = <<"disk", 0, i>>
        BY <2>4
      <3>3. QED BY <1>1, <2>2, <3>1, <3>2
    <2>7. \A i \in A : f[i] \in S /\ h[i] \in T
      BY <2>5, <2>6
    <2>8. \A x \in S : x \in T \/ \E i \in A : x = f[i]
      BY <2>5, <2>6
    <2>9. \A z \in T : (z \in S /\ \A i \in A : z # f[i]) \/ \E i \in A : z = h[i]
      <3>1. \A z \in T : \A i \in A : z # <<"writer", 0, i>>
        BY <2>6
      <3>2. \A z \in T : z \in S \/ \E i \in A : z = h[i]
        BY <2>5, <2>6
      <3>3. QED BY <3>1, <3>2
    <2>10. /\ Single(S)
           /\ \A i, j \in A : f[i] = f[j] => i = j
      BY <1>0, <1>8, <2>1 DEF LinesOf, Single
    <2> HIDE DEF f, h
    <2>11. Moved(S, T, A, f, h)
      BY <2>7, <2>8, <2>9, <2>10 DEF Moved
    <2>12. Single(T)
      BY <2>10, <2>11, OneVectorMoves
    <2>13. QED BY <2>1, <2>12 DEF Single
  <1>9. QED
    BY <1>1, <1>2, <1>7, <1>8 DEF LineInv, LinesOf

\* Logger::init, at the end of readLogConfig: there is no line yet.
LEMMA ReadNodeKeeps ==
  ASSUME TypeInv, LineInv, LoggerInv, ReadNode
  PROVE  LineInv'
  <1>1. /\ UNCHANGED <<logged, taken, stuck, m_tasks, batch, disk>>
        /\ conf' = conf + 1 /\ at[Main] = "run"
        /\ IF conf' = Len(LogNodes) THEN m_buffer' = [l \in Log |-> <<0>>] ELSE UNCHANGED m_buffer
    BY DEF ReadNode, InMain, InitLogger, endVars, queueVars
  <1>2. CASE conf' = Len(LogNodes)
    <2>1. \A l \in Log : logged[l] = 0
      <3>1. conf < Len(LogNodes)
        BY <1>1, <1>2, NodesLength, TypeParts DEF TypeInv
      <3>2. ~HasLogger
        BY <1>1, <3>1, LoggerAssumption DEF LoggerInv
      <3>3. QED BY <3>2 DEF LoggerInv
    <2>2. ASSUME NEW l \in Log
          PROVE  VectorsOf(l)' /\ LinesOf(l)'
      <3>1. VectorsOf(l) /\ logged[l] = 0
        BY <2>1 DEF LineInv
      <3>2. Vector(m_buffer'[l], 0)
        BY <1>1, <1>2 DEF Vector
      <3>3. VectorsOf(l)'
        BY <1>1, <3>1, <3>2 DEF VectorsOf, Vector
      <3>4. LinesOf(l)'
        BY <1>1, <3>1 DEF LinesOf
      <3>5. QED BY <3>3, <3>4
    <2>3. QED BY <2>2 DEF LineInv
  <1>3. CASE conf' # Len(LogNodes)
    BY <1>1, <1>3, LinesKept
  <1>4. QED BY <1>2, <1>3

LEMMA InitLine == Init => LineInv
  <1> SUFFICES ASSUME Init, NEW l \in Log PROVE VectorsOf(l) /\ LinesOf(l)
    BY DEF LineInv
  <1>1. Vector(<<>>, logged[l])
    BY DEF Vector
  <1>2. VectorsOf(l)
    BY <1>1 DEF Init, LoggerInit, Empty, VectorsOf
  <1>3. LinesOf(l)
    BY DEF Init, LoggerInit, LinesOf
  <1>4. QED BY <1>2, <1>3

LEMMA LineStep == TypeInv /\ PlaceInv /\ LineInv /\ [Next]_vars => LineInv'
  <1> SUFFICES ASSUME TypeInv, PlaceInv, LineInv, [Next]_vars PROVE LineInv'
    OBVIOUS
  <1>0. TakenInv /\ IdleInv /\ LoggerInv
    BY DEF PlaceInv
  <1>1. CASE MainStep
    <2>1. CASE ReadNode
      BY <1>0, <2>1, ReadNodeKeeps
    <2>2. CASE TextMissing
      BY <1>0, <2>2, SignalKeeps, LoggerAssumption DEF TextMissing
    <2>3. CASE MissingBeforeLogger \/ MissingAfterLogger \/ RegisterFails \/ Register \/ StartRpcServer
      BY <2>3, LinesKept DEF MissingBeforeLogger, MissingAfterLogger, RegisterFails, Register,
         StartRpcServer, StartEnding, loggerVars, bufferVars, endVars, queueVars, writerVars
    <2>4. QED BY <1>1, <2>1, <2>2, <2>3 DEF MainStep
  <1>2. ASSUME NEW t \in Thread, LoggingStep(t)
        PROVE  LineInv'
    <2>1. CASE LogStep(t)
      <3>1. ASSUME NEW l \in Log, LockBuffer(t, l)
            PROVE  LineInv'
        BY <3>1, LinesKept DEF LockBuffer, endVars, queueVars, writerVars
      <3>2. QED BY <2>1, <3>1, PushLineKeeps DEF LogStep
    <2>2. CASE LoopFunc(t)
      <3>1. at[t] = "swap_app" => taken[t]["app"] = <<>>
        BY <1>0 DEF TakenInv
      <3>2. at[t] = "swap_rpc" => taken[t]["rpc"] = <<>>
        BY <1>0 DEF TakenInv
      <3>3. CASE Swap(t, "app", "swap_app", "swap_rpc")
        <4>1. taken[t]["app"] = <<>>
          BY <3>1, <3>3 DEF Swap
        <4>2. QED BY <3>3, <4>1, SwapKeeps, LogIs
      <3>4. CASE Swap(t, "rpc", "swap_rpc", "push_rpc")
        <4>1. taken[t]["rpc"] = <<>>
          BY <3>2, <3>4 DEF Swap
        <4>2. QED BY <3>4, <4>1, SwapKeeps, LogIs
      <3>5. QED BY <2>2, <3>3, <3>4, PushKeeps, LogIs DEF LoopFunc
    <2>3. CASE EndStep(t)
      BY <2>3, LinesKept DEF EndStep, HandlerLogs, Stop, Join, bufferVars, queueVars, writerVars
    <2>4. QED BY <1>2, <2>1, <2>2, <2>3 DEF LoggingStep
  <1>3. ASSUME NEW t \in Thread, SignalAt(t)
        PROVE  LineInv'
    BY <1>0, <1>3, SignalKeeps DEF SignalAt
  <1>4. ASSUME NEW l \in Log, WriterStep(l)
        PROVE  LineInv'
    <2>1. CASE FindNothing(l) \/ Wait(l) \/ TakeFromEmpty(l) \/ OpenFails(l)
      BY <2>1, LinesKept DEF FindNothing, Wait, TakeFromEmpty, OpenFails, bufferVars, endVars,
         queueVars, writerVars
    <2>2. QED BY <1>0, <1>4, <2>1, TakeKeeps, WriteKeeps DEF WriterStep
  <1>5. CASE TimerFlush
    BY <1>5, LinesKept DEF TimerFlush, bufferVars, queueVars, writerVars
  <1>6. CASE UNCHANGED vars
    BY <1>6, LinesKept DEF vars, loggerVars, bufferVars, endVars, queueVars, writerVars
  <1>7. QED
    BY <1>1, <1>2, <1>3, <1>4, <1>5, <1>6 DEF Next

LEMMA KeptStep == KeptInv /\ [Next]_vars => KeptInv'
  BY TypeStep, PlaceStep, LineStep DEF KeptInv

\* For any threads, any number of lines and any end of the process, a line that was
\* logged is in exactly one place, and there once.
THEOREM SpecLinesConserved == Spec => []LinesConserved
  <1>1. Init => KeptInv
    BY InitType, InitPlace, InitLine DEF KeptInv
  <1>2. KeptInv => LinesConserved
    BY DEF KeptInv, LineInv, LinesOf, LinesConserved
  <1>3. QED
    BY <1>1, <1>2, KeptStep, PTL DEF Spec

-----------------------------------------------------------------------------
(* Files are in order                                                      *)

LEMMA QuietStep == TypeInv /\ PlaceInv /\ QuietInv /\ [Next]_vars => QuietInv'
  <1> SUFFICES ASSUME TypeInv, PlaceInv, QuietInv, [Next]_vars, ~HasLogger' PROVE QuietInv'
    BY DEF QuietInv
  <1>0. /\ writer \in [Log -> WriterPc] /\ LoggerInv /\ conf \in 0..Len(Nodes)
    BY TypeParts DEF TypeInv, ControlTypes, PlaceInv
  <1>1. ~HasLogger
    <2> SUFFICES ASSUME HasLogger PROVE HasLogger'
      OBVIOUS
    <2>1. CASE MainStep
      BY <2>1, LogIs DEF MainStep, ReadNode, InitLogger, MissingBeforeLogger, MissingAfterLogger,
         TextMissing, RegisterFails, Register, StartRpcServer, StartEnding, SignalHandler,
         loggerVars, writerVars, HasLogger
    <2>2. ASSUME NEW t \in Thread, LoggingStep(t) \/ SignalAt(t)
          PROVE  HasLogger'
      <3>1. writer' = writer \/ \E l \in Log : writer' = Signal(l)
        BY <2>2, LogIs DEF LoggingStep, LogStep, LockBuffer, PushLine, LoopFunc, Swap, Push, EndStep,
           HandlerLogs, Stop, Join, SignalAt, SignalHandler, writerVars
      <3>2. QED BY <1>0, <3>1, LogIs DEF Signal, HasLogger
    <2>3. ASSUME NEW l \in Log, WriterStep(l)
          PROVE  HasLogger'
      BY <1>0, <2>3, LogIs DEF WriterStep, FindNothing, Wait, Take, TakeFromEmpty, Write, OpenFails,
         writerVars, HasLogger
    <2>4. TimerFlush \/ UNCHANGED vars => HasLogger'
      BY DEF TimerFlush, vars, loggerVars, writerVars, HasLogger
    <2>5. QED BY <2>1, <2>2, <2>3, <2>4 DEF Next
  <1>2. /\ ~registered /\ process # "running" /\ conf < Len(LogNodes)
        /\ \A t \in Thread : at[t] = "run" /\ logging[t] = NULL
        /\ \A l \in Log : m_tasks[l] = <<>> /\ writer[l] = "none"
    BY <1>0, <1>1, LogIs DEF QuietInv, LoggerInv, HasLogger
  <1>3. CASE MainStep
    BY <1>1, <1>2, <1>3, NodesLength DEF MainStep, ReadNode, MissingBeforeLogger, MissingAfterLogger,
       TextMissing, RegisterFails, Register, StartRpcServer, SignalHandler, ConfigRead,
       loggerVars, endVars, queueVars, QuietInv
  <1>4. ASSUME NEW t \in Thread, LoggingStep(t) \/ SignalAt(t)
        PROVE  QuietInv'
    BY <1>1, <1>2, <1>4, LoggerAssumption DEF LoggingStep, LogStep, LockBuffer, PushLine, LoopFunc,
       Swap, Push, EndStep, HandlerLogs, Stop, Join, SignalAt, SignalHandler
  <1>5. ASSUME NEW l \in Log, WriterStep(l)
        PROVE  QuietInv'
    BY <1>2, <1>5 DEF WriterStep, FindNothing, Wait, Take, TakeFromEmpty, Write, OpenFails
  <1>6. ~TimerFlush
    BY <1>2 DEF TimerFlush
  <1>7. CASE UNCHANGED vars
    BY <1>2, <1>7 DEF vars, loggerVars, endVars, queueVars, QuietInv
  <1>8. QED BY <1>3, <1>4, <1>5, <1>6, <1>7 DEF Next

\* Nobody but the main thread runs loopFunc before another thread ends the process.
LEMMA OthersStep == TypeInv /\ OthersInv /\ [Next]_vars => OthersInv'
  <1> SUFFICES ASSUME TypeInv, OthersInv, [Next]_vars PROVE OthersInv'
    OBVIOUS
  <1>0. /\ at \in [Thread -> Places]
        /\ ending \in [Thread -> {"none", "Exit", "signal", "~Logger"}]
        /\ Main \in Thread
    BY TypeParts, LoggerAssumption DEF TypeInv, ControlTypes
  <1>1. CASE MainStep \/ TimerFlush
    <2>1. \A t \in Thread \ {Main} : at'[t] = at[t] /\ ending'[t] = ending[t]
      BY <1>0, <1>1 DEF MainStep, ReadNode, MissingBeforeLogger, MissingAfterLogger, TextMissing,
         RegisterFails, Register, StartRpcServer, StartEnding, SignalHandler, TimerFlush, Goto,
         loggerVars, endVars
    <2>2. QED BY <2>1 DEF OthersInv
  <1>2. ASSUME NEW t \in Thread, LoggingStep(t)
        PROVE  OthersInv'
    <2>1. /\ UNCHANGED ending
          /\ UNCHANGED at \/ (at[t] # "run" /\ \A u \in Thread : u # t => at'[u] = at[u])
      BY <1>0, <1>2 DEF LoggingStep, LogStep, LockBuffer, PushLine, LoopFunc, Swap, Push, EndStep,
         HandlerLogs, Stop, Join, Goto, endVars
    <2>2. QED BY <2>1 DEF OthersInv
  <1>3. ASSUME NEW t \in Thread, SignalAt(t)
        PROVE  OthersInv'
    BY <1>0, <1>3 DEF SignalAt, SignalHandler, Goto, OthersInv
  <1>4. ASSUME NEW l \in Log, WriterStep(l)
        PROVE  OthersInv'
    BY <1>4 DEF WriterStep, FindNothing, Wait, Take, TakeFromEmpty, Write, OpenFails, endVars,
       OthersInv
  <1>5. CASE UNCHANGED vars
    BY <1>5 DEF vars, loggerVars, endVars, OthersInv
  <1>6. QED BY <1>1, <1>2, <1>3, <1>4, <1>5 DEF Next

LEMMA OrderKept ==
  ASSUME NEW l \in Log, OrderInv(l), m_buffer'[l] = m_buffer[l], taken'[Main][l] = taken[Main][l],
         m_tasks'[l] = m_tasks[l], batch'[l] = batch[l], disk'[l] = disk[l]
  PROVE  OrderInv(l)'
  BY DEF OrderInv, Before, Written1

LEMMA PushLineOrder ==
  ASSUME TypeInv, LineInv, NEW t \in Thread, NEW k \in Log, PushLine(t, k),
         NEW l \in Log, OrderInv(l)
  PROVE  OrderInv(l)'
  <1>0. /\ m_buffer \in [Log -> Seq(Nat)] /\ logged \in [Log -> Nat] /\ Main \in Thread
        /\ VectorsOf(l)
    BY TypeParts, LoggerAssumption DEF TypeInv, LineTypes, ControlTypes, LineInv
  <1>1. /\ m_buffer' = [m_buffer EXCEPT ![k] = Append(m_buffer[k], logged[k] + 1)]
        /\ UNCHANGED <<taken, m_tasks, batch, disk>>
    BY DEF PushLine, endVars, queueVars, writerVars
  <1>2. CASE k # l
    <2>1. m_buffer'[l] = m_buffer[l]
      BY <1>0, <1>1, <1>2
    <2>2. QED BY <1>1, <2>1, OrderKept
  <1>3. CASE k = l
    <2>1. PICK m \in Nat, s \in Seq(Nat) : m = logged[l] /\ s = m_buffer[l]
      BY <1>0
    <2>2. PICK u : u = Append(s, m + 1)
      OBVIOUS
    <2>3. \A j \in 1..Len(u) : (j \in 1..Len(s) /\ u[j] = s[j]) \/ u[j] = m + 1
      <3>1. /\ Len(u) = Len(s) + 1 /\ u[Len(s) + 1] = m + 1
            /\ \A j \in 1..Len(s) : u[j] = s[j]
        BY <2>1, <2>2
      <3>2. Len(s) \in Nat
        BY <2>1
      <3>3. QED BY <3>1, <3>2
    <2>4. m_buffer'[l] = u
      BY <1>0, <1>1, <1>3, <2>1, <2>2
    <2>5. ASSUME NEW r \in Seq(Nat), Vector(r, logged[l]), Before(r, m_buffer[l])
          PROVE  Before(r, u)
      <3>1. ASSUME NEW i \in 1..Len(r), NEW j \in 1..Len(u)
            PROVE  r[i] < u[j]
        <4>1. r[i] \in Nat /\ r[i] <= m
          BY <2>1, <2>5 DEF Vector
        <4>2. CASE j \in 1..Len(s) /\ u[j] = s[j]
          BY <2>1, <2>5, <4>2 DEF Before
        <4>3. CASE u[j] = m + 1
          BY <2>1, <4>1, <4>3
        <4>4. QED BY <2>3, <4>2, <4>3
      <3>2. QED BY <3>1 DEF Before
    <2>6. Written1(l, u)
      <3>1. ASSUME NEW i \in 1..Len(disk[l]), NEW j \in 1..Len(u)
            PROVE  disk[l][i].line < u[j]
        <4>1. disk[l][i].line \in Nat /\ disk[l][i].line <= m
          BY <1>0, <2>1 DEF VectorsOf
        <4>2. CASE j \in 1..Len(s) /\ u[j] = s[j]
          BY <2>1, <4>2 DEF OrderInv, Written1
        <4>3. CASE u[j] = m + 1
          BY <2>1, <4>1, <4>3
        <4>4. QED BY <2>3, <4>2, <4>3
      <3>2. QED BY <3>1 DEF Written1
    <2>7. /\ Before(batch[l], u) /\ Before(taken[Main][l], u)
          /\ \A i \in 1..Len(m_tasks[l]) : Before(m_tasks[l][i], u)
      <3>1. /\ batch[l] \in Seq(Nat) /\ taken[Main][l] \in Seq(Nat)
            /\ \A i \in 1..Len(m_tasks[l]) : m_tasks[l][i] \in Seq(Nat)
        BY <1>0, LogVectors
      <3>2. /\ Vector(batch[l], logged[l]) /\ Vector(taken[Main][l], logged[l])
            /\ \A i \in 1..Len(m_tasks[l]) : Vector(m_tasks[l][i], logged[l])
        BY <1>0 DEF VectorsOf
      <3>3. /\ Before(batch[l], m_buffer[l]) /\ Before(taken[Main][l], m_buffer[l])
            /\ \A i \in 1..Len(m_tasks[l]) : Before(m_tasks[l][i], m_buffer[l])
        BY DEF OrderInv
      <3>4. QED BY <2>5, <3>1, <3>2, <3>3
    <2>8. /\ \A i, j \in 1..Len(disk[l]) : i < j => disk[l][i].line < disk[l][j].line
          /\ Written1(l, batch[l]) /\ Written1(l, taken[Main][l])
          /\ Before(batch[l], taken[Main][l])
          /\ \A i \in 1..Len(m_tasks[l]) :
               /\ Written1(l, m_tasks[l][i]) /\ Before(batch[l], m_tasks[l][i])
               /\ Before(m_tasks[l][i], taken[Main][l])
               /\ \A j \in 1..Len(m_tasks[l]) : j < i => Before(m_tasks[l][j], m_tasks[l][i])
      BY DEF OrderInv
    <2>9. Written1(l, m_buffer[l])'
      BY <1>1, <2>4, <2>6 DEF Written1
    <2>10. /\ Before(batch[l], m_buffer[l])' /\ Before(taken[Main][l], m_buffer[l])'
           /\ \A i \in 1..Len(m_tasks[l]) : Before(m_tasks[l][i], m_buffer[l])'
      BY <1>1, <2>4, <2>7 DEF Before
    <2>11. /\ \A i, j \in 1..Len(disk'[l]) : i < j => disk'[l][i].line < disk'[l][j].line
           /\ Written1(l, batch[l])' /\ Written1(l, taken[Main][l])'
           /\ Before(batch[l], taken[Main][l])'
      BY <1>1, <2>8 DEF Written1, Before
    <2>12. \A i \in 1..Len(m_tasks[l]) :
             /\ Written1(l, m_tasks[l][i])' /\ Before(batch[l], m_tasks[l][i])'
             /\ Before(m_tasks[l][i], taken[Main][l])' /\ Before(m_tasks[l][i], m_buffer[l])'
             /\ \A j \in 1..Len(m_tasks[l]) : j < i => Before(m_tasks[l][j], m_tasks[l][i])'
      BY <1>1, <2>8, <2>10 DEF Written1, Before
    <2>13. m_tasks' = m_tasks
      BY <1>1
    <2>14. QED
      BY <2>9, <2>10, <2>11, <2>12, <2>13 DEF OrderInv
  <1>4. QED BY <1>2, <1>3

LEMMA SwapOrder ==
  ASSUME TypeInv, TakenInv, NEW k \in Log, NEW from, NEW to, Swap(Main, k, from, to),
         taken[Main][k] = <<>>, NEW l \in Log, OrderInv(l)
  PROVE  OrderInv(l)'
  <1>0. /\ m_buffer \in [Log -> Seq(Nat)] /\ taken \in [Thread -> [Log -> Seq(Nat)]]
        /\ Main \in Thread
    BY TypeParts, LoggerAssumption DEF TypeInv, LineTypes
  <1>1. /\ m_buffer' = [m_buffer EXCEPT ![k] = <<>>]
        /\ taken' = [taken EXCEPT ![Main][k] = m_buffer[k]]
        /\ UNCHANGED <<m_tasks, batch, disk>>
    BY DEF Swap, SwappedOut, queueVars, writerVars
  <1>2. CASE k # l
    <2>1. m_buffer'[l] = m_buffer[l] /\ taken'[Main][l] = taken[Main][l]
      BY <1>0, <1>1, <1>2
    <2>2. QED BY <1>1, <2>1, OrderKept
  <1>3. CASE k = l
    <2>1. m_buffer'[l] = <<>> /\ taken'[Main][l] = m_buffer[l]
      BY <1>0, <1>1, <1>3
    <2>2. QED BY <1>1, <2>1, SMTT(20) DEF OrderInv, Before, Written1
  <1>4. QED BY <1>2, <1>3

LEMMA PushOrder ==
  ASSUME TypeInv, NEW k \in Log, NEW from, NEW to, Push(Main, k, from, to),
         NEW l \in Log, OrderInv(l)
  PROVE  OrderInv(l)'
  <1>0. /\ taken \in [Thread -> [Log -> Seq(Nat)]] /\ m_tasks \in [Log -> Seq(Seq(Nat))]
        /\ Main \in Thread
    BY TypeParts, LoggerAssumption DEF TypeInv, LineTypes
  <1>1. /\ taken' = [taken EXCEPT ![Main][k] = <<>>]
        /\ IF taken[Main][k] = <<>> THEN UNCHANGED m_tasks
           ELSE m_tasks' = [m_tasks EXCEPT ![k] = Append(m_tasks[k], taken[Main][k])]
        /\ UNCHANGED <<m_buffer, batch, disk>>
    BY DEF Push, bufferVars
  <1>2. CASE k # l \/ taken[Main][k] = <<>>
    <2>1. m_tasks'[l] = m_tasks[l] /\ taken'[Main][l] = taken[Main][l]
      BY <1>0, <1>1, <1>2
    <2>2. QED BY <1>1, <2>1, OrderKept
  <1>3. CASE k = l /\ taken[Main][k] # <<>>
    <2>1. PICK q, s : q = Len(m_tasks[l]) /\ s = taken[Main][l]
      OBVIOUS
    <2>2. /\ taken'[Main][l] = <<>>
          /\ \A i \in 1..Len(m_tasks'[l]) :
               \/ i \in 1..q /\ m_tasks'[l][i] = m_tasks[l][i]
               \/ i = q + 1 /\ m_tasks'[l][i] = s
      <3>1. m_tasks'[l] = Append(m_tasks[l], s) /\ taken'[Main][l] = <<>>
        BY <1>0, <1>1, <1>3, <2>1
      <3>2. m_tasks[l] \in Seq(Seq(Nat)) /\ s \in Seq(Nat) /\ q \in Nat
        BY <1>0, <2>1
      <3>3. QED BY <2>1, <3>1, <3>2, AppendProperties
    <2>3. /\ Written1(l, s) /\ Before(batch[l], s) /\ Before(s, m_buffer[l])
          /\ Written1(l, batch[l]) /\ Written1(l, m_buffer[l]) /\ Before(batch[l], m_buffer[l])
          /\ \A i, j \in 1..Len(disk[l]) : i < j => disk[l][i].line < disk[l][j].line
          /\ \A i \in 1..q : /\ Written1(l, m_tasks[l][i]) /\ Before(batch[l], m_tasks[l][i])
                             /\ Before(m_tasks[l][i], s) /\ Before(m_tasks[l][i], m_buffer[l])
                             /\ \A j \in 1..q : j < i => Before(m_tasks[l][j], m_tasks[l][i])
      BY <2>1 DEF OrderInv
    <2>4. ASSUME NEW i \in 1..Len(m_tasks'[l])
          PROVE  /\ Written1(l, m_tasks'[l][i]) /\ Before(batch[l], m_tasks'[l][i])
                 /\ Before(m_tasks'[l][i], <<>>) /\ Before(m_tasks'[l][i], m_buffer[l])
                 /\ \A j \in 1..Len(m_tasks'[l]) : j < i => Before(m_tasks'[l][j], m_tasks'[l][i])
      <3>1. \A r : Before(r, <<>>)
        BY DEF Before
      <3>2. CASE i \in 1..q /\ m_tasks'[l][i] = m_tasks[l][i]
        <4>1. \A j \in 1..Len(m_tasks'[l]) : j < i => j \in 1..q /\ m_tasks'[l][j] = m_tasks[l][j]
          BY <2>1, <2>2, <3>2
        <4>2. QED BY <2>3, <3>1, <3>2, <4>1
      <3>3. CASE i = q + 1 /\ m_tasks'[l][i] = s
        <4>1. \A j \in 1..Len(m_tasks'[l]) : j < i => j \in 1..q /\ m_tasks'[l][j] = m_tasks[l][j]
          BY <2>1, <2>2, <3>3
        <4>2. ASSUME NEW j \in 1..Len(m_tasks'[l]), j < i
              PROVE  Before(m_tasks'[l][j], m_tasks'[l][i])
          BY <2>3, <3>3, <4>1, <4>2
        <4>3. /\ Written1(l, m_tasks'[l][i]) /\ Before(batch[l], m_tasks'[l][i])
              /\ Before(m_tasks'[l][i], m_buffer[l])
          BY <2>3, <3>3
        <4>4. QED BY <3>1, <4>2, <4>3
      <3>4. QED BY <2>2, <3>2, <3>3
    <2>5. Written1(l, <<>>) /\ Before(batch[l], <<>>) /\ Before(<<>>, m_buffer[l])
      BY DEF Before, Written1
    <2>6. QED
      BY <1>1, <2>2, <2>3, <2>4, <2>5, SMTT(20) DEF OrderInv, Before, Written1
  <1>4. QED BY <1>2, <1>3

LEMMA TakeOrder ==
  ASSUME TypeInv, IdleInv, NEW k \in Log, Take(k), NEW l \in Log, OrderInv(l)
  PROVE  OrderInv(l)'
  <1>0. batch \in [Log -> Seq(Nat)] /\ m_tasks \in [Log -> Seq(Seq(Nat))]
    BY TypeParts DEF TypeInv, LineTypes
  <1>1. /\ batch' = [batch EXCEPT ![k] = Head(m_tasks[k])]
        /\ m_tasks' = [m_tasks EXCEPT ![k] = Tail(m_tasks[k])]
        /\ m_tasks[k] # <<>>
        /\ UNCHANGED <<m_buffer, taken, disk>>
    BY DEF Take, Oldest, bufferVars, endVars
  <1>2. CASE k # l
    <2>1. m_tasks'[l] = m_tasks[l] /\ batch'[l] = batch[l]
      BY <1>0, <1>1, <1>2
    <2>2. QED BY <1>1, <2>1, OrderKept
  <1>3. CASE k = l
    <2>1. PICK q \in Nat : Len(m_tasks[l]) = q + 1
      BY <1>0, <1>1, <1>3, HeadTailIs
    <2>2. /\ batch'[l] = m_tasks[l][1] /\ Len(m_tasks'[l]) = q
          /\ \A i \in 1..q : m_tasks'[l][i] = m_tasks[l][i + 1]
      <3>1. m_tasks'[l] = Tail(m_tasks[l]) /\ batch'[l] = Head(m_tasks[l])
        BY <1>0, <1>1, <1>3
      <3>2. m_tasks[l] \in Seq(Seq(Nat)) /\ m_tasks[l] # <<>>
        BY <1>0, <1>1, <1>3
      <3>3. QED BY <2>1, <3>1, <3>2, HeadTailIs, SMTT(20)
    <2>3. /\ Written1(l, taken[Main][l]) /\ Written1(l, m_buffer[l])
          /\ Before(taken[Main][l], m_buffer[l])
          /\ \A i, j \in 1..Len(disk[l]) : i < j => disk[l][i].line < disk[l][j].line
          /\ \A i \in 1..(q + 1) :
               /\ Written1(l, m_tasks[l][i]) /\ Before(m_tasks[l][i], taken[Main][l])
               /\ Before(m_tasks[l][i], m_buffer[l])
               /\ \A j \in 1..(q + 1) : j < i => Before(m_tasks[l][j], m_tasks[l][i])
      BY <2>1 DEF OrderInv
    <2>4. PICK p : p = m_tasks[l][1]
      OBVIOUS
    <2>5. Written1(l, p) /\ Before(p, taken[Main][l]) /\ Before(p, m_buffer[l])
      BY <2>1, <2>3, <2>4
    <2>6. ASSUME NEW i \in 1..q
          PROVE  /\ Written1(l, m_tasks'[l][i]) /\ Before(p, m_tasks'[l][i])
                 /\ Before(m_tasks'[l][i], taken[Main][l]) /\ Before(m_tasks'[l][i], m_buffer[l])
                 /\ \A j \in 1..q : j < i => Before(m_tasks'[l][j], m_tasks'[l][i])
      <3>1. PICK m \in 1..(q + 1) : m = i + 1
        BY <2>1
      <3>2. m_tasks'[l][i] = m_tasks[l][m] /\ 1 < m /\ 1 \in 1..(q + 1)
        <4>1. m_tasks'[l][i] = m_tasks[l][i + 1]
          BY <2>2, Zenon
        <4>2. 1 < m /\ 1 \in 1..(q + 1)
          BY <3>1
        <4>3. QED BY <3>1, <4>1, <4>2, Zenon
      <3>3. /\ Written1(l, m_tasks[l][m]) /\ Before(p, m_tasks[l][m])
            /\ Before(m_tasks[l][m], taken[Main][l]) /\ Before(m_tasks[l][m], m_buffer[l])
        BY <2>3, <2>4, <3>2
      <3>4. ASSUME NEW j \in 1..q, j < i
            PROVE  Before(m_tasks'[l][j], m_tasks[l][m])
        <4>1. PICK n \in 1..(q + 1) : n = j + 1
          BY <2>1
        <4>2. m_tasks'[l][j] = m_tasks[l][n] /\ n < m
          BY <2>1, <2>2, <3>1, <3>4, <4>1
        <4>3. QED BY <2>3, <4>2
      <3>5. QED BY <3>2, <3>3, <3>4
    <2>7. /\ Written1(l, batch[l])' /\ Before(batch[l], taken[Main][l])'
          /\ Before(batch[l], m_buffer[l])'
      BY <1>1, <2>2, <2>4, <2>5 DEF Written1, Before
    <2>8. \A i \in 1..Len(m_tasks'[l]) :
            /\ Written1(l, m_tasks[l][i])' /\ Before(batch[l], m_tasks[l][i])'
            /\ Before(m_tasks[l][i], taken[Main][l])' /\ Before(m_tasks[l][i], m_buffer[l])'
            /\ \A j \in 1..Len(m_tasks'[l]) : j < i => Before(m_tasks[l][j], m_tasks[l][i])'
      <3>1. Len(m_tasks'[l]) = q /\ batch'[l] = p
        BY <2>2, <2>4
      <3>2. ASSUME NEW i \in 1..q
            PROVE  /\ Written1(l, m_tasks[l][i])' /\ Before(batch[l], m_tasks[l][i])'
                   /\ Before(m_tasks[l][i], taken[Main][l])' /\ Before(m_tasks[l][i], m_buffer[l])'
        BY <1>1, <2>6, <3>1 DEF Written1, Before
      <3>3. ASSUME NEW i \in 1..q, NEW j \in 1..q, j < i
            PROVE  Before(m_tasks[l][j], m_tasks[l][i])'
        BY <2>6, <3>3 DEF Before
      <3>4. QED BY <3>1, <3>2, <3>3
    <2>9. /\ \A i, j \in 1..Len(disk'[l]) : i < j => disk'[l][i].line < disk'[l][j].line
          /\ Written1(l, m_buffer[l])' /\ Written1(l, taken[Main][l])'
          /\ Before(taken[Main][l], m_buffer[l])'
      BY <1>1, <2>3 DEF Written1, Before
    <2>10. QED BY <2>7, <2>8, <2>9 DEF OrderInv
  <1>4. QED BY <1>2, <1>3

\* What is written comes behind what is on disk and ahead of all the rest.
LEMMA WriteOrder ==
  ASSUME TypeInv, LineInv, NEW k \in Log, Write(k), NEW l \in Log, OrderInv(l)
  PROVE  OrderInv(l)'
  <1>0. /\ batch \in [Log -> Seq(Nat)] /\ disk \in [Log -> Seq([line : Nat, file : File])]
        /\ VectorsOf(l)
    BY TypeParts DEF TypeInv, LineTypes, LineInv
  <1>1. /\ batch' = [batch EXCEPT ![k] = <<>>]
        /\ \A m \in Log : m # k => disk'[m] = disk[m] /\ batch'[m] = batch[m]
        /\ UNCHANGED <<m_buffer, taken, m_tasks>>
    BY <1>0 DEF Write, bufferVars, endVars, queueVars
  <1>2. CASE k # l
    BY <1>1, <1>2, OrderKept
  <1>3. CASE k = l
    <2>1. PICK e \in Nat : Appended(l, e)
      BY <1>0, <1>3, WriteAppends DEF VectorsOf
    <2>2. PICK d \in Nat, b \in Nat : d = Len(disk[l]) /\ b = Len(batch[l])
      BY LogVectors
    <2>3. PICK L : L = [i \in 1..Len(disk'[l]) |-> disk'[l][i].line]
      OBVIOUS
    <2>4. ASSUME NEW i \in 1..Len(disk'[l])
          PROVE  \/ i \in 1..d /\ L[i] = disk[l][i].line
                 \/ \E j \in (e + 1)..b : i = d + j - e /\ L[i] = batch[l][j]
      <3>1. L[i] = disk'[l][i].line
        BY <2>3
      <3>2. Len(disk'[l]) = d + b - e
        <4>1. Len(disk'[l]) = Len(disk[l]) + Len(batch[l]) - e
          BY <2>1, Zenon DEF Appended
        <4>2. QED BY <2>2, <4>1
      <3>3. CASE i \in 1..d
        <4>1. disk'[l][i] = disk[l][i]
          BY <2>1, <2>2, <3>3, Zenon DEF Appended
        <4>2. QED BY <3>1, <3>3, <4>1
      <3>4. CASE i \notin 1..d
        <4>1. PICK j \in (e + 1)..b : i = d + j - e
          <5>1. i \in 1..(d + b - e)
            BY <3>2
          <5>2. i - d + e \in (e + 1)..b /\ i = d + (i - d + e) - e
            BY <3>4, <5>1
          <5>3. QED BY <5>2
        <4>2. disk'[l][d + j - e] = [line |-> batch[l][j], file |-> file'[l]]
          BY <2>1, <2>2, Zenon DEF Appended
        <4>3. L[i] = batch[l][j]
          BY <3>1, <4>1, <4>2
        <4>4. QED BY <4>1, <4>3
      <3>5. QED BY <3>3, <3>4
    <2>5. ASSUME NEW j \in (e + 1)..b
          PROVE  j \in 1..Len(batch[l]) /\ j \in 1..b
      <3>1. j \in 1..b
        OBVIOUS
      <3>2. QED BY <2>2, <3>1
    <2>6. ASSUME NEW u, Written1(l, u), Before(batch[l], u)
          PROVE  \A i \in 1..Len(disk'[l]), j \in 1..Len(u) : L[i] < u[j]
      <3>1. ASSUME NEW i \in 1..Len(disk'[l]), NEW m \in 1..Len(u)
            PROVE  L[i] < u[m]
        <4>1. CASE i \in 1..d /\ L[i] = disk[l][i].line
          BY <2>2, <2>6, <4>1 DEF Written1
        <4>2. CASE \E j \in (e + 1)..b : i = d + j - e /\ L[i] = batch[l][j]
          BY <2>5, <2>6, <4>2 DEF Before
        <4>3. QED BY <2>4, <4>1, <4>2
      <3>2. QED BY <3>1
    <2>7. ASSUME NEW i \in 1..Len(disk'[l]), NEW j \in 1..Len(disk'[l]), i < j
          PROVE  L[i] < L[j]
      <3>1. CASE i \in 1..d /\ L[i] = disk[l][i].line
        <4>1. CASE j \in 1..d /\ L[j] = disk[l][j].line
          BY <2>2, <2>7, <3>1, <4>1 DEF OrderInv
        <4>2. CASE \E m \in (e + 1)..b : j = d + m - e /\ L[j] = batch[l][m]
          BY <2>2, <2>5, <3>1, <4>2 DEF OrderInv, Written1
        <4>3. QED BY <2>4, <4>1, <4>2
      <3>2. CASE \E m \in (e + 1)..b : i = d + m - e /\ L[i] = batch[l][m]
        <4>1. PICK m \in (e + 1)..b : i = d + m - e /\ L[i] = batch[l][m]
          BY <3>2
        <4>2. j \notin 1..d
          BY <2>7, <4>1
        <4>3. PICK n \in (e + 1)..b : j = d + n - e /\ L[j] = batch[l][n]
          BY <2>4, <4>2
        <4>4. m < n
          BY <2>7, <4>1, <4>3
        <4>5. batch[l][m] < batch[l][n]
          BY <1>0, <2>5, <4>4 DEF VectorsOf, Vector
        <4>6. QED BY <4>1, <4>3, <4>5
      <3>3. QED BY <2>4, <3>1, <3>2
    <2>8. \A i \in 1..Len(disk'[l]) : L[i] = disk'[l][i].line
      BY <2>3
    <2>9. /\ Written1(l, taken[Main][l]) /\ Written1(l, m_buffer[l])
          /\ Before(batch[l], taken[Main][l]) /\ Before(batch[l], m_buffer[l])
          /\ Before(taken[Main][l], m_buffer[l])
          /\ \A i \in 1..Len(m_tasks[l]) :
               /\ Written1(l, m_tasks[l][i]) /\ Before(batch[l], m_tasks[l][i])
               /\ Before(m_tasks[l][i], taken[Main][l]) /\ Before(m_tasks[l][i], m_buffer[l])
               /\ \A j \in 1..Len(m_tasks[l]) : j < i => Before(m_tasks[l][j], m_tasks[l][i])
      BY DEF OrderInv
    <2>10. batch'[l] = <<>>
      BY <1>0, <1>1, <1>3
    <2>11. \A u : Written1(l, u) /\ Before(batch[l], u) =>
             \A i \in 1..Len(disk'[l]), j \in 1..Len(u) : disk'[l][i].line < u[j]
      BY <2>6, <2>8
    <2>12. /\ Written1(l, taken[Main][l])' /\ Written1(l, m_buffer[l])'
           /\ \A i \in 1..Len(m_tasks[l]) : Written1(l, m_tasks[l][i])'
      BY <1>1, <2>9, <2>11 DEF Written1
    <2>13. /\ Written1(l, batch[l])'
           /\ Before(batch[l], taken[Main][l])' /\ Before(batch[l], m_buffer[l])'
           /\ \A i \in 1..Len(m_tasks[l]) : Before(batch[l], m_tasks[l][i])'
      BY <2>10 DEF Written1, Before
    <2>14. /\ Before(taken[Main][l], m_buffer[l])'
           /\ \A i \in 1..Len(m_tasks[l]) :
                /\ Before(m_tasks[l][i], taken[Main][l])' /\ Before(m_tasks[l][i], m_buffer[l])'
                /\ \A j \in 1..Len(m_tasks[l]) : j < i => Before(m_tasks[l][j], m_tasks[l][i])'
      BY <1>1, <2>9 DEF Before
    <2>15. \A i, j \in 1..Len(disk'[l]) : i < j => disk'[l][i].line < disk'[l][j].line
      BY <2>7, <2>8
    <2>16. m_tasks' = m_tasks
      BY <1>1
    <2>17. QED BY <2>12, <2>13, <2>14, <2>15, <2>16 DEF OrderInv
  <1>4. QED BY <1>2, <1>3

LEMMA SignalOrder ==
  ASSUME TypeInv, NEW t \in Thread, SignalHandler(t), NEW l \in Log, OrderInv(l)
  PROVE  OrderInv(l)'
  <1>0. taken \in [Thread -> [Log -> Seq(Nat)]] /\ Main \in Thread
    BY TypeParts, LoggerAssumption DEF TypeInv, LineTypes
  <1>1. taken' = [taken EXCEPT ![t] = Empty] /\ UNCHANGED <<m_buffer, m_tasks, batch, disk>>
    BY DEF SignalHandler, bufferVars, queueVars, writerVars
  <1>2. CASE t = Main
    <2>1. taken'[Main][l] = <<>>
      BY <1>0, <1>1, <1>2 DEF Empty
    <2>2. QED BY <1>1, <2>1 DEF OrderInv, Before, Written1
  <1>3. CASE t # Main
    <2>1. taken'[Main][l] = taken[Main][l]
      BY <1>0, <1>1, <1>3
    <2>2. QED BY <1>1, <2>1, OrderKept
  <1>4. QED BY <1>2, <1>3

LEMMA ReadNodeOrder ==
  ASSUME TypeInv, PlaceInv, LineInv, QuietInv, ReadNode, NEW l \in Log, OrderInv(l)
  PROVE  OrderInv(l)'
  <1>0. TakenInv /\ IdleInv /\ LoggerInv /\ Main \in Thread
    BY LoggerAssumption DEF PlaceInv
  <1>1. /\ UNCHANGED <<taken, m_tasks, batch, disk>>
        /\ conf' = conf + 1 /\ at[Main] = "run"
        /\ IF conf' = Len(LogNodes) THEN m_buffer' = [m \in Log |-> <<0>>] ELSE UNCHANGED m_buffer
    BY DEF ReadNode, InMain, InitLogger, endVars, queueVars
  <1>2. CASE conf' = Len(LogNodes)
    <2>1. ~HasLogger
      <3>1. conf < Len(LogNodes)
        BY <1>1, <1>2, NodesLength, TypeParts DEF TypeInv
      <3>2. QED BY <1>0, <1>1, <3>1 DEF LoggerInv
    <2>2. m_tasks[l] = <<>>
      BY <2>1 DEF QuietInv
    <2>3. taken[Main][l] = <<>>
      BY <1>0, <1>1, LogIs DEF TakenInv
    <2>4. batch[l] = <<>>
      <3>1. writer[l] = "none"
        BY <1>0, <2>1, LogIs DEF LoggerInv, HasLogger
      <3>2. QED BY <1>0, <3>1 DEF IdleInv
    <2>5. 1..Len(disk[l]) = {}
      BY <1>0, <2>1 DEF LoggerInv, LineInv, VectorsOf
    <2>6. QED
      BY <1>1, <2>2, <2>3, <2>4, <2>5, SMTT(20) DEF OrderInv, Before, Written1
  <1>3. CASE conf' # Len(LogNodes)
    BY <1>1, <1>3, OrderKept
  <1>4. QED BY <1>2, <1>3

AllInOrder == OnlyMain => \A l \in Log : OrderInv(l)

LEMMA OrderStep ==
  ASSUME KeptInv, QuietInv, OthersInv, AllInOrder, [Next]_vars
  PROVE  AllInOrder'
  <1> SUFFICES ASSUME OnlyMain', NEW l \in Log PROVE OrderInv(l)'
    BY DEF AllInOrder
  <1>0. /\ TypeInv /\ PlaceInv /\ LineInv /\ TakenInv /\ IdleInv /\ Main \in Thread
        /\ ending \in [Thread -> {"none", "Exit", "signal", "~Logger"}]
    BY TypeParts, LoggerAssumption DEF KeptInv, PlaceInv, TypeInv, ControlTypes
  <1>1. OnlyMain
    <2>1. \A t \in Thread : ending[t] # "none" => ending'[t] # "none"
      <3>1. \/ UNCHANGED ending
            \/ \E t \in Thread, how \in {"Exit", "signal", "~Logger"} :
                 ending' = [ending EXCEPT ![t] = how]
        <4>1. CASE MainStep
          BY <1>0, <4>1 DEF MainStep, ReadNode, MissingBeforeLogger, MissingAfterLogger, TextMissing,
             RegisterFails, Register, StartRpcServer, StartEnding, SignalHandler, loggerVars, endVars
        <4>2. ASSUME NEW t \in Thread, LoggingStep(t) PROVE UNCHANGED ending
          BY <4>2 DEF LoggingStep, LogStep, LockBuffer, PushLine, LoopFunc, Swap, Push, EndStep,
             HandlerLogs, Stop, Join, endVars
        <4>3. ASSUME NEW t \in Thread, SignalAt(t)
              PROVE  \E how \in {"Exit", "signal", "~Logger"} : ending' = [ending EXCEPT ![t] = how]
          BY <4>3 DEF SignalAt, SignalHandler
        <4>4. ASSUME NEW k \in Log, WriterStep(k) PROVE UNCHANGED ending
          BY <4>4 DEF WriterStep, FindNothing, Wait, Take, TakeFromEmpty, Write, OpenFails, endVars
        <4>5. TimerFlush \/ UNCHANGED vars => UNCHANGED ending
          BY DEF TimerFlush, vars, loggerVars, endVars
        <4>6. QED BY <4>1, <4>2, <4>3, <4>4, <4>5 DEF Next
      <3>2. QED BY <1>0, <3>1
    <2>2. \A t \in Thread : ending'[t] = "none" => ending[t] = "none"
      BY <2>1
    <2>3. QED BY <2>2 DEF OnlyMain
  <1>2. OrderInv(l)
    BY <1>1 DEF AllInOrder
  <1>3. CASE MainStep
    <2>1. CASE ReadNode
      BY <1>0, <1>2, <2>1, ReadNodeOrder
    <2>2. CASE TextMissing
      BY <1>0, <1>2, <2>2, SignalOrder DEF TextMissing
    <2>3. CASE MissingBeforeLogger \/ MissingAfterLogger \/ RegisterFails \/ Register \/ StartRpcServer
      BY <1>2, <2>3, OrderKept DEF MissingBeforeLogger, MissingAfterLogger, RegisterFails, Register,
         StartRpcServer, StartEnding, loggerVars, bufferVars, endVars, queueVars, writerVars
    <2>4. QED BY <1>3, <2>1, <2>2, <2>3 DEF MainStep
  <1>4. ASSUME NEW t \in Thread, LoggingStep(t)
        PROVE  OrderInv(l)'
    <2>1. CASE LogStep(t)
      <3>1. ASSUME NEW k \in Log, LockBuffer(t, k)
            PROVE  OrderInv(l)'
        BY <1>2, <3>1, OrderKept DEF LockBuffer, endVars, queueVars, writerVars
      <3>2. QED BY <1>0, <1>2, <2>1, <3>1, PushLineOrder DEF LogStep
    <2>2. CASE LoopFunc(t)
      <3>1. t = Main
        <4>1. at[t] # "run" /\ UNCHANGED ending
          BY <2>2 DEF LoopFunc, Swap, Push
        <4>2. QED BY <1>1, <4>1 DEF OthersInv, OnlyMain
      <3>2. CASE Swap(Main, "app", "swap_app", "swap_rpc")
        <4>1. taken[Main]["app"] = <<>>
          BY <1>0, <3>2 DEF Swap, TakenInv
        <4>2. QED BY <1>0, <1>2, <3>2, <4>1, SwapOrder, LogIs
      <3>3. CASE Swap(Main, "rpc", "swap_rpc", "push_rpc")
        <4>1. taken[Main]["rpc"] = <<>>
          BY <1>0, <3>3 DEF Swap, TakenInv
        <4>2. QED BY <1>0, <1>2, <3>3, <4>1, SwapOrder, LogIs
      <3>4. QED BY <1>0, <1>2, <2>2, <3>1, <3>2, <3>3, PushOrder, LogIs DEF LoopFunc
    <2>3. CASE EndStep(t)
      BY <1>2, <2>3, OrderKept DEF EndStep, HandlerLogs, Stop, Join, bufferVars, queueVars, writerVars
    <2>4. QED BY <1>4, <2>1, <2>2, <2>3 DEF LoggingStep
  <1>5. ASSUME NEW t \in Thread, SignalAt(t)
        PROVE  OrderInv(l)'
    BY <1>0, <1>2, <1>5, SignalOrder DEF SignalAt
  <1>6. ASSUME NEW k \in Log, WriterStep(k)
        PROVE  OrderInv(l)'
    <2>1. CASE FindNothing(k) \/ Wait(k) \/ TakeFromEmpty(k) \/ OpenFails(k)
      BY <1>2, <2>1, OrderKept DEF FindNothing, Wait, TakeFromEmpty, OpenFails, bufferVars, endVars,
         queueVars, writerVars
    <2>2. QED BY <1>0, <1>2, <1>6, <2>1, TakeOrder, WriteOrder DEF WriterStep
  <1>7. CASE TimerFlush
    BY <1>2, <1>7, OrderKept DEF TimerFlush, bufferVars, queueVars, writerVars
  <1>8. CASE UNCHANGED vars
    BY <1>2, <1>8, OrderKept DEF vars, loggerVars, bufferVars, endVars, queueVars, writerVars
  <1>9. QED
    BY <1>3, <1>4, <1>5, <1>6, <1>7, <1>8 DEF Next

LEMMA NotAfterTransitive ==
  ASSUME NEW f \in File, NEW g \in File, NEW h \in File, NotAfter(f, g), NotAfter(g, h)
  PROVE  NotAfter(f, h)
  BY DEF NotAfter, File

\* A writer goes on in the file it has or in a later one.
LEMMA FilesStep ==
  ASSUME TypeInv, LineInv, FilesInv, [Next]_vars
  PROVE  FilesInv'
  <1>1. CASE UNCHANGED <<disk, file>>
    BY <1>1 DEF FilesInv
  <1>2. ASSUME NEW k \in Log, Write(k)
        PROVE  FilesInv'
    <2>0. /\ disk \in [Log -> Seq([line : Nat, file : File])] /\ file \in [Log -> File \cup {NULL}]
          /\ VectorsOf(k) /\ TypeOK
      BY TypeParts DEF TypeInv, LineTypes, ControlTypes, LineInv
    <2>1. \A l \in Log : l # k => disk'[l] = disk[l] /\ file'[l] = file[l]
      BY <1>2, <2>0 DEF Write
    <2>2. PICK F \in File : file'[k] = F /\ (file[k] # NULL => NotAfter(file[k], F))
      <3>1. PICK day \in Dates(k) : file' = [file EXCEPT ![k] = FileFor(k, day)]
        BY <1>2 DEF Write
      <3>2. PICK F : F = FileFor(k, day)
        OBVIOUS
      <3>3. F \in File /\ (file[k] # NULL => NotAfter(file[k], F))
        BY <2>0, <3>2, FileForType
      <3>4. QED BY <2>0, <3>1, <3>2, <3>3
    <2>3. PICK e \in Nat : Appended(k, e)
      BY <1>2, <2>0, WriteAppends DEF VectorsOf
    <2>4. PICK d \in Nat, b \in Nat : d = Len(disk[k]) /\ b = Len(batch[k])
      BY LogVectors
    <2>5. PICK G : G = [i \in 1..Len(disk'[k]) |-> disk'[k][i].file]
      OBVIOUS
    <2>6. ASSUME NEW i \in 1..Len(disk'[k])
          PROVE  \/ i \in 1..d /\ G[i] = disk[k][i].file
                 \/ i \notin 1..d /\ G[i] = F
      <3>1. G[i] = disk'[k][i].file
        BY <2>5
      <3>2. Len(disk'[k]) = d + b - e
        <4>1. Len(disk'[k]) = Len(disk[k]) + Len(batch[k]) - e
          BY <2>3, Zenon DEF Appended
        <4>2. QED BY <2>4, <4>1
      <3>3. CASE i \in 1..d
        <4>1. disk'[k][i] = disk[k][i]
          BY <2>3, <2>4, <3>3, Zenon DEF Appended
        <4>2. QED BY <3>1, <3>3, <4>1
      <3>4. CASE i \notin 1..d
        <4>1. PICK j \in (e + 1)..b : i = d + j - e
          <5>1. i \in 1..(d + b - e)
            BY <3>2
          <5>2. i - d + e \in (e + 1)..b /\ i = d + (i - d + e) - e
            BY <3>4, <5>1
          <5>3. QED BY <5>2
        <4>2. disk'[k][d + j - e] = [line |-> batch[k][j], file |-> file'[k]]
          BY <2>3, <2>4, Zenon DEF Appended
        <4>3. G[i] = F
          BY <2>2, <3>1, <4>1, <4>2
        <4>4. QED BY <3>4, <4>3
      <3>5. QED BY <3>3, <3>4
    <2>7. \A i \in 1..d : disk[k][i].file \in File
      BY <2>4, LogVectors
    <2>8. /\ \A i \in 1..d : file[k] # NULL /\ NotAfter(disk[k][i].file, file[k])
          /\ \A i, j \in 1..d : i < j => NotAfter(disk[k][i].file, disk[k][j].file)
      BY <2>4 DEF FilesInv
    <2>9. NotAfter(F, F)
      BY DEF NotAfter, File
    <2>10. \A i \in 1..d : NotAfter(disk[k][i].file, F)
      <3>1. ASSUME NEW i \in 1..d
            PROVE  NotAfter(disk[k][i].file, F)
        <4>1. file[k] \in File
          BY <2>0, <2>8
        <4>2. QED BY <2>2, <2>7, <2>8, <4>1, NotAfterTransitive
      <3>2. QED BY <3>1
    <2>11. \A i \in 1..Len(disk'[k]) : NotAfter(G[i], F)
      BY <2>6, <2>9, <2>10
    <2>12. \A i, j \in 1..Len(disk'[k]) : i < j => NotAfter(G[i], G[j])
      <3>1. ASSUME NEW i \in 1..Len(disk'[k]), NEW j \in 1..Len(disk'[k]), i < j
            PROVE  NotAfter(G[i], G[j])
        <4>1. CASE j \in 1..d
          <5>1. i \in 1..d
            BY <3>1, <4>1
          <5>2. QED BY <2>6, <2>8, <3>1, <4>1, <5>1
        <4>2. CASE j \notin 1..d
          BY <2>6, <2>11, <4>2
        <4>3. QED BY <4>1, <4>2
      <3>2. QED BY <3>1
    <2>13. \A i \in 1..Len(disk'[k]) : G[i] = disk'[k][i].file
      BY <2>5
    <2>14. F # NULL
      BY LoggerAssumption
    <2>15. /\ \A i \in 1..Len(disk'[k]) : file'[k] # NULL /\ NotAfter(disk'[k][i].file, file'[k])
           /\ \A i, j \in 1..Len(disk'[k]) : i < j => NotAfter(disk'[k][i].file, disk'[k][j].file)
      BY <2>2, <2>11, <2>12, <2>13, <2>14
    <2>16. ASSUME NEW l \in Log
           PROVE  /\ \A i \in 1..Len(disk'[l]) :
                       file'[l] # NULL /\ NotAfter(disk'[l][i].file, file'[l])
                  /\ \A i, j \in 1..Len(disk'[l]) :
                       i < j => NotAfter(disk'[l][i].file, disk'[l][j].file)
      <3>1. CASE l = k
        BY <2>15, <3>1
      <3>2. CASE l # k
        <4>1. disk'[l] = disk[l] /\ file'[l] = file[l]
          BY <2>1, <3>2
        <4>2. /\ \A i \in 1..Len(disk[l]) : file[l] # NULL /\ NotAfter(disk[l][i].file, file[l])
              /\ \A i, j \in 1..Len(disk[l]) : i < j => NotAfter(disk[l][i].file, disk[l][j].file)
          BY DEF FilesInv
        <4>3. QED BY <4>1, <4>2, Zenon
      <3>3. QED BY <3>1, <3>2
    <2>17. QED
      BY <2>16 DEF FilesInv, NotAfter
  <1>3. UNCHANGED <<disk, file>> \/ \E k \in Log : Write(k)
    <2>1. MainStep => UNCHANGED <<disk, file>>
      BY DEF MainStep, ReadNode, MissingBeforeLogger, MissingAfterLogger, TextMissing,
         RegisterFails, Register, StartRpcServer, StartEnding, SignalHandler, loggerVars, writerVars
    <2>2. ASSUME NEW t \in Thread, LoggingStep(t) \/ SignalAt(t)
          PROVE  UNCHANGED <<disk, file>>
      BY <2>2 DEF LoggingStep, LogStep, LockBuffer, PushLine, LoopFunc, Swap, Push, EndStep,
         HandlerLogs, Stop, Join, SignalAt, SignalHandler, writerVars
    <2>3. ASSUME NEW k \in Log, WriterStep(k)
          PROVE  UNCHANGED <<disk, file>> \/ Write(k)
      BY <2>3 DEF WriterStep, FindNothing, Wait, Take, TakeFromEmpty, OpenFails, writerVars
    <2>4. TimerFlush \/ UNCHANGED vars => UNCHANGED <<disk, file>>
      BY DEF TimerFlush, vars, loggerVars, writerVars
    <2>5. QED BY <2>1, <2>2, <2>3, <2>4 DEF Next
  <1>4. QED BY <1>1, <1>2, <1>3

\* For any threads, lines, days and sizes of a file, the files of a log have its lines in
\* order, as long as loopFunc runs in the main thread.
THEOREM SpecFilesInOrder == Spec => []FilesInOrder
  <1> DEFINE I == KeptInv /\ QuietInv /\ OthersInv /\ AllInOrder /\ FilesInv
  <1>1. Init => I
    <2> SUFFICES ASSUME Init PROVE I
      OBVIOUS
    <2>1. KeptInv
      BY InitType, InitPlace, InitLine DEF KeptInv
    <2>2. QuietInv /\ OthersInv
      BY DEF Init, LoggerInit, Empty, QuietInv, OthersInv
    <2>3. AllInOrder /\ FilesInv
      <3>1. ASSUME NEW l \in Log
            PROVE  m_buffer[l] = <<>> /\ taken[Main][l] = <<>> /\ m_tasks[l] = <<>>
                   /\ batch[l] = <<>> /\ disk[l] = <<>>
        BY LoggerAssumption DEF Init, LoggerInit, Empty
      <3>2. FilesInv
        BY <3>1 DEF FilesInv
      <3>3. ASSUME NEW l \in Log PROVE OrderInv(l)
        BY <3>1 DEF OrderInv, Before, Written1
      <3>4. QED BY <3>2, <3>3 DEF AllInOrder
    <2>4. QED BY <2>1, <2>2, <2>3
  <1>2. I /\ [Next]_vars => I'
    BY KeptStep, QuietStep, OthersStep, OrderStep, FilesStep DEF KeptInv
  <1>3. I => FilesInOrder
    <2> SUFFICES ASSUME I, OnlyMain, NEW l \in Log, NEW i \in DOMAIN disk[l],
                        NEW j \in DOMAIN disk[l], i < j
                 PROVE  /\ disk[l][i].line < disk[l][j].line
                        /\ \/ disk[l][i].file = disk[l][j].file
                           \/ disk[l][i].file.day < disk[l][j].file.day
                           \/ /\ disk[l][i].file.day = disk[l][j].file.day
                              /\ disk[l][i].file.no < disk[l][j].file.no
      BY DEF FilesInOrder, OnlyMain
    <2>1. i \in 1..Len(disk[l]) /\ j \in 1..Len(disk[l])
      <3>1. disk[l] \in Seq([line : Nat, file : File])
        BY LogVectors DEF KeptInv
      <3>2. ASSUME NEW R, NEW s \in Seq(R) PROVE DOMAIN s = 1..Len(s)
        OBVIOUS
      <3>3. QED BY <3>1, <3>2
    <2>2. disk[l][i].line < disk[l][j].line
      BY <2>1 DEF AllInOrder, OrderInv
    <2>3. NotAfter(disk[l][i].file, disk[l][j].file)
      BY <2>1 DEF FilesInv
    <2>4. disk[l][i].file \in File /\ disk[l][j].file \in File
      BY <2>1, LogVectors DEF KeptInv
    <2>5. ASSUME NEW f \in File, NEW g \in File, NotAfter(f, g)
          PROVE  f = g \/ f.day < g.day \/ (f.day = g.day /\ f.no < g.no)
      BY <2>5 DEF NotAfter, File
    <2>6. QED BY <2>2, <2>3, <2>4, <2>5
  <1>4. QED
    BY <1>1, <1>2, <1>3, PTL DEF Spec

-----------------------------------------------------------------------------
(* What flush() promises                                                   *)

Ending == {"error_log", "stop_rpc"} \cup After("rpc")

LEMMA EndKept ==
  ASSUME EndInv, UNCHANGED <<ending, m_stop, is_stop>>,
         process' = "ended" => process = "ended",
         \A l \in Log : writer'[l] = "ended" <=> writer[l] = "ended",
         \A t \in Thread : \/ at'[t] = at[t]
                           \/ /\ at[t] \notin After("rpc") /\ at'[t] \notin After("rpc")
                              /\ at'[t] \in Ending => ending[t] # "none"
  PROVE  EndInv'
  <1>1. \A t, u \in Thread : ending'[t] # "none" /\ ending'[u] # "none" => t = u
    BY DEF EndInv
  <1>2. ASSUME NEW t \in Thread
        PROVE  /\ at'[t] \in Ending => ending'[t] # "none"
               /\ at'[t] = "join_app" => writer'["rpc"] = "ended"
               /\ process' = "ended" /\ ending'[t] # "none" =>
                    writer'["rpc"] = "ended" /\ (ending'[t] # "Exit" => writer'["app"] = "ended")
    BY LogIs DEF EndInv, Ending, After
  <1>3. ASSUME NEW l \in Log
        PROVE  /\ m_stop'[l] => \E t \in Thread : ending'[t] # "none" /\ at'[t] \in After(l)
               /\ is_stop'[l] => m_stop'[l]
               /\ writer'[l] = "ended" => is_stop'[l]
    BY DEF EndInv, Ending, After
  <1>4. QED BY <1>1, <1>2, <1>3 DEF EndInv, Ending, After

\* The end begins: nobody has stopped a writer yet.
LEMMA BeginEnd ==
  ASSUME TypeInv, EndInv, NEW t \in Thread, NEW how \in {"Exit", "signal", "~Logger"},
         NEW pc \in {"swap_app", "error_log"}, process # "ended",
         \A u \in Thread : ending[u] = "none",
         ending' = [ending EXCEPT ![t] = how], at' = [at EXCEPT ![t] = pc],
         UNCHANGED <<m_stop, is_stop, writer, process>>
  PROVE  EndInv'
  <1>0. /\ at \in [Thread -> Places]
        /\ ending \in [Thread -> {"none", "Exit", "signal", "~Logger"}]
    BY TypeParts DEF TypeInv, ControlTypes
  <1>1. \A u \in Thread : /\ ending'[u] # "none" <=> u = t
                          /\ at[u] \notin Ending /\ at[u] # "join_app"
    BY <1>0 DEF EndInv, Ending, After
  <1>2. \A l \in Log : ~m_stop[l] /\ ~is_stop[l] /\ writer[l] # "ended"
    BY DEF EndInv
  <1>3. \A u \in Thread : (at'[u] \in Ending => u = t) /\ at'[u] # "join_app"
    BY <1>0, <1>1
  <1>4. \A u \in Thread : at'[u] \in Ending => ending'[u] # "none"
    BY <1>1, <1>3
  <1>5. QED
    BY <1>1, <1>2, <1>3, <1>4 DEF EndInv, Ending

LEMMA StopEnd ==
  ASSUME TypeInv, EndInv, NEW t \in Thread, NEW k \in Log, NEW from, NEW to,
         Stop(t, k, from, to),
         \/ k = "rpc" /\ from = "stop_rpc" /\ to = "stop_app"
         \/ k = "app" /\ from = "stop_app" /\ to = "join_rpc"
  PROVE  EndInv'
  <1>0. /\ at \in [Thread -> Places] /\ m_stop \in [Log -> BOOLEAN] /\ writer \in [Log -> WriterPc]
    BY TypeParts DEF TypeInv, ControlTypes
  <1>1. /\ process # "ended" /\ at[t] = from /\ at' = [at EXCEPT ![t] = to]
        /\ m_stop' = [m_stop EXCEPT ![k] = TRUE]
        /\ writer' = writer \/ writer' = Signal(k)
        /\ UNCHANGED <<ending, is_stop, process>>
    BY DEF Stop, Stopped, Goto, Up
  <1>2. /\ at'[t] = to /\ \A u \in Thread : u # t => at'[u] = at[u]
        /\ ending[t] # "none" /\ to \in After(k) /\ to # "join_app"
    BY <1>0, <1>1 DEF EndInv, Ending, After
  <1>3. \A l \in Log : writer'[l] = "ended" <=> writer[l] = "ended"
    BY <1>0, <1>1 DEF Signal
  <1>4. \A l \in Log : (l # k => m_stop'[l] = m_stop[l]) /\ (m_stop[l] => m_stop'[l])
    BY <1>0, <1>1
  <1>5. ASSUME NEW l \in Log, m_stop'[l]
        PROVE  \E u \in Thread : ending[u] # "none" /\ at'[u] \in After(l)
    <2>1. CASE l = k
      BY <1>2, <2>1
    <2>2. CASE l # k
      <3>1. PICK u \in Thread : ending[u] # "none" /\ at[u] \in After(l)
        BY <1>4, <1>5, <2>2 DEF EndInv
      <3>2. u = t
        BY <1>2, <3>1 DEF EndInv
      <3>3. l = "rpc" /\ k = "app"
        BY <1>1, <2>2, <3>1, <3>2, LogIs DEF After
      <3>4. QED BY <1>2, <3>3 DEF After
    <2>3. QED BY <2>1, <2>2
  <1>6. ASSUME NEW u \in Thread
        PROVE  /\ at'[u] \in Ending => ending[u] # "none"
               /\ at'[u] = "join_app" => writer'["rpc"] = "ended"
    BY <1>2, <1>3, LogIs DEF EndInv, Ending
  <1>7. \A u, v \in Thread : ending[u] # "none" /\ ending[v] # "none" => u = v
    BY DEF EndInv
  <1>8. \A l \in Log : (is_stop[l] => m_stop'[l]) /\ (writer'[l] = "ended" => is_stop[l])
    BY <1>3, <1>4 DEF EndInv
  <1>9. QED
    BY <1>1, <1>5, <1>6, <1>7, <1>8 DEF EndInv, Ending, After

LEMMA JoinEnd ==
  ASSUME TypeInv, EndInv, NEW t \in Thread, NEW k \in Log, NEW from, Join(t, k, from),
         (k = "rpc" /\ from = "join_rpc") \/ (k = "app" /\ from = "join_app")
  PROVE  EndInv'
  <1>0. at \in [Thread -> Places]
    BY TypeParts DEF TypeInv, ControlTypes
  <1>1. /\ at[t] = from /\ writer[k] = "ended"
        /\ UNCHANGED <<ending, is_stop, m_stop, writer>>
        /\ \/ k = "rpc" /\ ending[t] # "Exit" /\ at' = [at EXCEPT ![t] = "join_app"]
              /\ UNCHANGED process
           \/ ~(k = "rpc" /\ ending[t] # "Exit") /\ at' = [at EXCEPT ![t] = "gone"]
    BY DEF Join, JoinDone, Goto, queueVars, writerVars
  <1>2. /\ at'[t] \in {"join_app", "gone"} /\ \A u \in Thread : u # t => at'[u] = at[u]
        /\ at'[t] = "join_app" => k = "rpc" /\ process' = process
        /\ at'[t] = "gone" => k = "app" \/ ending[t] = "Exit"
        /\ ending[t] # "none"
    BY <1>0, <1>1, LogIs DEF EndInv, Ending, After
  <1>3. \A u, v \in Thread : ending[u] # "none" /\ ending[v] # "none" => u = v
    BY DEF EndInv
  <1>4. ASSUME NEW u \in Thread
        PROVE  /\ at'[u] \in Ending => ending[u] # "none"
               /\ at'[u] = "join_app" => writer["rpc"] = "ended"
    BY <1>1, <1>2 DEF EndInv, Ending
  <1>5. ASSUME NEW u \in Thread, process' = "ended", ending[u] # "none"
        PROVE  writer["rpc"] = "ended" /\ (ending[u] # "Exit" => writer["app"] = "ended")
    <2>1. u = t
      BY <1>2, <1>3, <1>5
    <2>2. CASE at'[t] = "join_app"
      BY <1>2, <1>5, <2>2 DEF EndInv
    <2>3. CASE at'[t] = "gone"
      <3>1. k = "app" => writer["rpc"] = "ended"
        BY <1>1 DEF EndInv
      <3>2. QED BY <1>1, <1>2, <2>1, <2>3, <3>1, LogIs
    <2>4. QED BY <1>2, <2>2, <2>3
  <1>6. ASSUME NEW l \in Log
        PROVE  /\ m_stop[l] => \E u \in Thread : ending[u] # "none" /\ at'[u] \in After(l)
               /\ is_stop[l] => m_stop[l]
               /\ writer[l] = "ended" => is_stop[l]
    <2>1. at'[t] \in After(l)
      BY <1>2 DEF After
    <2>2. QED BY <1>2, <2>1 DEF EndInv
  <1>7. QED
    BY <1>1, <1>3, <1>4, <1>5, <1>6 DEF EndInv, Ending, After

LEMMA WriterEnd ==
  ASSUME TypeInv, EndInv, NEW k \in Log, Take(k) \/ TakeFromEmpty(k) \/ Write(k)
  PROVE  EndInv'
  <1>0. /\ is_stop \in [Log -> BOOLEAN] /\ m_stop \in [Log -> BOOLEAN]
        /\ writer \in [Log -> WriterPc]
    BY TypeParts DEF TypeInv, ControlTypes
  <1>1. /\ UNCHANGED <<ending, at, m_stop>> /\ process' # "ended"
        /\ \A l \in Log : /\ writer[l] = "ended" => writer'[l] = "ended"
                          /\ is_stop'[l] => m_stop[l]
                          /\ writer'[l] = "ended" => is_stop'[l]
    <2>1. CASE Take(k)
      BY <1>0, <2>1 DEF Take, Up, endVars, EndInv
    <2>2. CASE TakeFromEmpty(k)
      BY <1>0, <2>2 DEF TakeFromEmpty, Up, endVars, queueVars, EndInv
    <2>3. CASE Write(k)
      BY <1>0, <2>3 DEF Write, Up, endVars, queueVars, EndInv
    <2>4. QED BY <2>1, <2>2, <2>3
  <1>2. QED
    BY <1>1, LogIs DEF EndInv, Ending, After

LEMMA EndInvStep == TypeInv /\ PlaceInv /\ EndInv /\ [Next]_vars => EndInv'
  <1> SUFFICES ASSUME TypeInv, PlaceInv, EndInv, [Next]_vars PROVE EndInv'
    OBVIOUS
  <1>0. /\ at \in [Thread -> Places] /\ writer \in [Log -> WriterPc] /\ Main \in Thread
        /\ LoggerInv /\ conf \in 0..Len(Nodes)
    BY TypeParts, LoggerAssumption DEF TypeInv, ControlTypes, PlaceInv
  <1>1. CASE MainStep
    <2>1. CASE ReadNode
      <3>1. /\ UNCHANGED <<ending, at, m_stop, is_stop, process>>
            /\ conf' # Len(LogNodes) => UNCHANGED writer
            /\ conf' = Len(LogNodes) => writer' = [l \in Log |-> "test"]
            /\ conf' = conf + 1 /\ at[Main] = "run"
        BY <2>1 DEF ReadNode, InMain, InitLogger, endVars, queueVars
      <3>2. conf' = Len(LogNodes) => ~HasLogger
        BY <1>0, <3>1, NodesLength DEF LoggerInv
      <3>3. \A l \in Log : writer'[l] = "ended" <=> writer[l] = "ended"
        BY <1>0, <3>1, <3>2, LogIs DEF LoggerInv, HasLogger
      <3>4. QED BY <3>1, <3>3, EndKept
    <2>2. CASE Register \/ StartRpcServer
      <3>1. /\ UNCHANGED <<ending, at, m_stop, is_stop, writer>>
            /\ process' = "ended" => process = "ended"
        BY <2>2 DEF Register, StartRpcServer, loggerVars, endVars, queueVars, writerVars
      <3>2. QED BY <3>1, EndKept
    <2>3. CASE MissingBeforeLogger
      <3>1. UNCHANGED <<ending, at, m_stop, is_stop, writer>> /\ ~HasLogger
        BY <2>3 DEF MissingBeforeLogger, endVars, queueVars, writerVars
      <3>2. \A t \in Thread : ending[t] = "none"
        BY <1>0, <3>1 DEF LoggerInv
      <3>3. QED BY <3>1, <3>2 DEF EndInv, After
    <2>4. ASSUME NEW how \in {"Exit", "~Logger"}, InMain, StartEnding(how)
          PROVE  EndInv'
      <3>1. /\ process # "ended" /\ \A u \in Thread : ending[u] = "none"
            /\ ending' = [ending EXCEPT ![Main] = how] /\ at' = [at EXCEPT ![Main] = "swap_app"]
            /\ UNCHANGED <<m_stop, is_stop, writer, process>>
        BY <2>4 DEF StartEnding, InMain, Goto, queueVars, writerVars
      <3>2. QED BY <1>0, <3>1, BeginEnd
    <2>5. CASE TextMissing
      <3>1. /\ process # "ended" /\ \A u \in Thread : ending[u] = "none"
            /\ ending' = [ending EXCEPT ![Main] = "signal"]
            /\ at' = [at EXCEPT ![Main] = "error_log"]
            /\ UNCHANGED <<m_stop, is_stop, writer, process>>
        BY <2>5 DEF TextMissing, SignalHandler, Up, Goto, queueVars, writerVars
      <3>2. QED BY <1>0, <3>1, BeginEnd
    <2>6. QED
      BY <1>1, <2>1, <2>2, <2>3, <2>4, <2>5 DEF MainStep, MissingAfterLogger, RegisterFails
  <1>2. ASSUME NEW t \in Thread, LoggingStep(t)
        PROVE  EndInv'
    <2>1. CASE LogStep(t)
      <3>1. UNCHANGED <<ending, at, m_stop, is_stop, writer, process>>
        BY <2>1 DEF LogStep, LockBuffer, PushLine, endVars, queueVars, writerVars
      <3>2. QED BY <3>1, EndKept
    <2>2. CASE LoopFunc(t) \/ HandlerLogs(t)
      <3>1. /\ at[t] \in {"swap_app", "swap_rpc", "push_rpc", "push_app", "error_log"}
            /\ \E to \in {"swap_app", "swap_rpc", "push_rpc", "push_app", "run", "stop_rpc"} :
                 /\ at' = [at EXCEPT ![t] = to]
                 /\ to = "stop_rpc" => ending[t] # "none"
            /\ UNCHANGED <<ending, m_stop, is_stop, process>>
            /\ writer' = writer \/ \E l \in Log : writer' = Signal(l)
        BY <2>2, LogIs DEF LoopFunc, Swap, Push, HandlerLogs, Goto, AfterLoopFunc, queueVars, writerVars
      <3>2. \A l \in Log : writer'[l] = "ended" <=> writer[l] = "ended"
        BY <1>0, <3>1 DEF Signal
      <3>3. \A u \in Thread : \/ at'[u] = at[u]
                              \/ /\ at[u] \notin After("rpc") /\ at'[u] \notin After("rpc")
                                 /\ at'[u] \in Ending => ending[u] # "none"
        BY <1>0, <3>1 DEF After, Ending
      <3>4. QED BY <3>1, <3>2, <3>3, EndKept
    <2>3. CASE EndStep(t) /\ ~HandlerLogs(t)
      BY <2>3, StopEnd, JoinEnd, LogIs DEF EndStep
    <2>4. QED BY <1>2, <2>1, <2>2, <2>3 DEF LoggingStep
  <1>3. ASSUME NEW t \in Thread, SignalAt(t)
        PROVE  EndInv'
    <2>1. /\ process # "ended" /\ \A u \in Thread : ending[u] = "none"
          /\ ending' = [ending EXCEPT ![t] = "signal"] /\ at' = [at EXCEPT ![t] = "error_log"]
          /\ UNCHANGED <<m_stop, is_stop, writer, process>>
      BY <1>3 DEF SignalAt, SignalHandler, Up, Goto, queueVars, writerVars
    <2>2. QED BY <2>1, BeginEnd
  <1>4. ASSUME NEW k \in Log, WriterStep(k)
        PROVE  EndInv'
    <2>1. CASE FindNothing(k) \/ Wait(k) \/ OpenFails(k)
      <3>1. /\ UNCHANGED <<ending, at, m_stop, is_stop>> /\ process' = "ended" => process = "ended"
            /\ UNCHANGED writer \/ (\E pc \in {"to_wait", "wait"} :
                 writer[k] # "ended" /\ writer' = [writer EXCEPT ![k] = pc])
        BY <2>1 DEF FindNothing, Wait, OpenFails, endVars, queueVars, writerVars
      <3>2. \A l \in Log : writer'[l] = "ended" <=> writer[l] = "ended"
        BY <1>0, <3>1
      <3>3. UNCHANGED <<ending, at, m_stop, is_stop>> /\ (process' = "ended" => process = "ended")
        BY <2>1 DEF FindNothing, Wait, OpenFails, endVars, queueVars, writerVars
      <3>4. QED BY <3>2, <3>3, EndKept
    <2>2. QED BY <1>4, <2>1, WriterEnd DEF WriterStep
  <1>5. CASE TimerFlush
    <2>1. /\ UNCHANGED <<ending, m_stop, is_stop, writer, process>> /\ at[Main] = "run"
          /\ at' = [at EXCEPT ![Main] = "swap_app"]
      BY <1>5 DEF TimerFlush, Goto, queueVars, writerVars
    <2>2. \A u \in Thread : \/ at'[u] = at[u]
                            \/ /\ at[u] \notin After("rpc") /\ at'[u] \notin After("rpc")
                               /\ at'[u] \notin Ending
      BY <1>0, <2>1 DEF After, Ending
    <2>3. QED BY <2>1, <2>2, EndKept
  <1>6. CASE UNCHANGED vars
    <2>1. UNCHANGED <<ending, at, m_stop, is_stop, writer, process>>
      BY <1>6 DEF vars, loggerVars, endVars, queueVars, writerVars
    <2>2. QED BY <2>1, EndKept
  <1>7. QED
    BY <1>1, <1>2, <1>3, <1>4, <1>5, <1>6 DEF Next

\* A line of a log to which nothing happens, or which only gets nearer to the disk.
LEMMA PromiseKept ==
  ASSUME PromiseInv, UNCHANGED promised,
         \A l \in Log : \A n : Safe(l, n) => Safe(l, n)'
  PROVE  PromiseInv'
  BY DEF PromiseInv

LEMMA SafeKept ==
  ASSUME UNCHANGED <<m_tasks, batch, disk, is_stop>>,
         NEW l, writer[l] = "write" => writer'[l] = "write", NEW n, Safe(l, n)
  PROVE  Safe(l, n)'
  <1>1. OnDisk(l, n)' = OnDisk(l, n) /\ At(batch[l], n)' = At(batch[l], n)
        /\ At(m_tasks[l][1], n)' = At(m_tasks[l][1], n)
    BY DEF OnDisk, At
  <1>2. QED BY <1>1 DEF Safe

LEMMA PushPromise ==
  ASSUME TypeInv, EndInv, PromiseInv, NEW t \in Thread, NEW k \in Log,
         NEW from \in {"push_rpc", "push_app"}, NEW to, Push(t, k, from, to)
  PROVE  PromiseInv'
  <1>0. /\ m_tasks \in [Log -> Seq(Seq(Nat))] /\ taken \in [Thread -> [Log -> Seq(Nat)]]
        /\ writer \in [Log -> WriterPc] /\ promised \in [Log -> Seq(Nat)]
    BY TypeParts DEF TypeInv, LineTypes, ControlTypes
  <1>1. /\ at[t] = from
        /\ IF taken[t][k] = <<>> THEN UNCHANGED <<m_tasks, writer>>
           ELSE /\ m_tasks' = [m_tasks EXCEPT ![k] = Append(m_tasks[k], taken[t][k])]
                /\ writer' = Signal(k)
        /\ promised' = IF ending[t] # "none" /\ m_tasks[k] = <<>>
                       THEN [promised EXCEPT ![k] = taken[t][k]] ELSE promised
        /\ UNCHANGED <<batch, disk, is_stop>>
    BY DEF Push
  <1>2. \A l \in Log : writer[l] = "write" => writer'[l] = "write"
    BY <1>0, <1>1 DEF Signal
  <1>3. \A l \in Log : m_tasks[l] # <<>> => m_tasks'[l] # <<>> /\ m_tasks'[l][1] = m_tasks[l][1]
    <2>1. CASE taken[t][k] = <<>>
      BY <1>1, <2>1
    <2>2. CASE taken[t][k] # <<>>
      <3>1. /\ m_tasks'[k] = Append(m_tasks[k], taken[t][k])
            /\ \A l \in Log : l # k => m_tasks'[l] = m_tasks[l]
        BY <1>0, <1>1, <2>2
      <3>2. m_tasks[k] \in Seq(Seq(Nat)) /\ taken[t][k] \in Seq(Nat)
        BY <1>0
      <3>3. m_tasks[k] # <<>> => 1 \in 1..Len(m_tasks[k])
        BY <3>2
      <3>4. /\ m_tasks'[k] # <<>>
            /\ \A i \in 1..Len(m_tasks[k]) : m_tasks'[k][i] = m_tasks[k][i]
        BY <3>1, <3>2, AppendProperties
      <3>5. m_tasks[k] # <<>> => m_tasks'[k][1] = m_tasks[k][1]
        BY <3>3, <3>4
      <3>6. QED BY <3>1, <3>4, <3>5
    <2>3. QED BY <2>1, <2>2
  <1>4. ASSUME NEW l \in Log, NEW n, Safe(l, n)
        PROVE  Safe(l, n)'
    <2>1. OnDisk(l, n)' = OnDisk(l, n) /\ At(batch[l], n)' = At(batch[l], n)
      BY <1>1 DEF OnDisk, At
    <2>2. m_tasks[l] # <<>> => m_tasks'[l] # <<>> /\ At(m_tasks[l][1], n)' = At(m_tasks[l][1], n)
      BY <1>3 DEF At
    <2>3. QED BY <1>1, <1>2, <1>4, <2>1, <2>2 DEF Safe
  <1>5. CASE UNCHANGED promised
    BY <1>4, <1>5, PromiseKept
  <1>6. CASE ending[t] # "none" /\ m_tasks[k] = <<>>
    <2>1. promised'[k] = taken[t][k] /\ \A l \in Log : l # k => promised'[l] = promised[l]
      BY <1>0, <1>1, <1>6
    <2>2. ~is_stop[k]
      <3>1. \A u \in Thread : ending[u] # "none" => u = t
        BY <1>6 DEF EndInv
      <3>2. at[t] \notin After(k)
        BY <1>1 DEF After
      <3>3. QED BY <3>1, <3>2 DEF EndInv
    <2>3. ASSUME NEW n, NEW i \in 1..Len(taken[t][k]), n = taken[t][k][i]
          PROVE  Safe(k, n)'
      <3>1. taken[t][k] # <<>>
        BY <1>0, <2>3
      <3>2. m_tasks'[k] = Append(<<>>, taken[t][k])
        BY <1>0, <1>1, <1>6, <3>1
      <3>3. m_tasks'[k] # <<>> /\ m_tasks'[k][1] = taken[t][k]
        BY <1>0, <3>2
      <3>4. At(m_tasks[k][1], n)' # {}
        BY <2>3, <3>3 DEF At
      <3>5. QED BY <1>1, <2>2, <3>3, <3>4 DEF Safe
    <2>4. ASSUME NEW l \in Log, NEW i \in 1..Len(promised'[l]), promised'[l][i] # 0
          PROVE  Safe(l, promised[l][i])'
      <3>1. PICK n : n = promised'[l][i]
        OBVIOUS
      <3>2. Safe(l, n)'
        <4>1. CASE l = k
          <5>1. PICK m \in 1..Len(taken[t][k]) : n = taken[t][k][m]
            BY <2>1, <2>4, <3>1, <4>1
          <5>2. QED BY <2>3, <4>1, <5>1
        <4>2. CASE l # k
          <5>1. Safe(l, n)
            BY <2>1, <2>4, <3>1, <4>2 DEF PromiseInv
          <5>2. QED BY <1>4, <5>1
        <4>3. QED BY <4>1, <4>2
      <3>3. QED BY <3>1, <3>2
    <2>5. QED BY <2>4 DEF PromiseInv
  <1>7. QED BY <1>1, <1>5, <1>6

LEMMA WriterPromise ==
  ASSUME TypeInv, LineInv, PromiseInv, NEW k \in Log, Take(k) \/ TakeFromEmpty(k) \/ Write(k)
  PROVE  PromiseInv'
  <1>0. /\ m_tasks \in [Log -> Seq(Seq(Nat))] /\ batch \in [Log -> Seq(Nat)]
        /\ writer \in [Log -> WriterPc] /\ promised \in [Log -> Seq(Nat)]
        /\ is_stop \in [Log -> BOOLEAN] /\ disk \in [Log -> Seq([line : Nat, file : File])]
        /\ VectorsOf(k)
    BY TypeParts DEF TypeInv, LineTypes, ControlTypes, LineInv
  <1>1. /\ UNCHANGED promised
        /\ \A l \in Log : l # k => /\ m_tasks'[l] = m_tasks[l] /\ batch'[l] = batch[l]
                                   /\ writer'[l] = writer[l] /\ is_stop'[l] = is_stop[l]
                                   /\ disk'[l] = disk[l]
    BY <1>0 DEF Take, TakeFromEmpty, Write, endVars, queueVars
  <1>2. ASSUME NEW l \in Log, l # k, NEW n, Safe(l, n)
        PROVE  Safe(l, n)'
    <2>1. /\ OnDisk(l, n)' = OnDisk(l, n) /\ At(batch[l], n)' = At(batch[l], n)
          /\ At(m_tasks[l][1], n)' = At(m_tasks[l][1], n)
      BY <1>1, <1>2 DEF OnDisk, At
    <2>2. QED BY <1>1, <1>2, <2>1 DEF Safe
  <1>3. ASSUME NEW n, n # 0, Safe(k, n)
        PROVE  Safe(k, n)'
    <2>1. CASE Take(k)
      <3>1. /\ batch'[k] = Head(m_tasks[k]) /\ writer[k] = "test" /\ writer'[k] = "write"
            /\ m_tasks[k] # <<>> /\ UNCHANGED disk
        BY <1>0, <2>1 DEF Take, Oldest
      <3>2. batch'[k] = m_tasks[k][1]
        BY <1>0, <3>1
      <3>3. OnDisk(k, n)' = OnDisk(k, n) /\ At(batch[k], n)' = At(m_tasks[k][1], n)
        BY <3>1, <3>2 DEF OnDisk, At
      <3>4. QED BY <1>3, <3>1, <3>3 DEF Safe
    <2>2. CASE TakeFromEmpty(k)
      <3>1. /\ m_tasks[k] = <<>> /\ writer[k] = "test" /\ UNCHANGED <<disk, batch>>
        BY <2>2 DEF TakeFromEmpty
      <3>2. OnDisk(k, n)' = OnDisk(k, n)
        BY <3>1 DEF OnDisk
      <3>3. QED BY <1>3, <3>1, <3>2 DEF Safe
    <2>3. CASE Write(k)
      <3>1. PICK e \in Nat : Appended(k, e)
        BY <1>0, <2>3, WriteAppends DEF VectorsOf
      <3>2. PICK d \in Nat, b \in Nat : d = Len(disk[k]) /\ b = Len(batch[k])
        BY LogVectors
      <3>3. Len(disk'[k]) = d + b - e /\ e <= b
        <4>1. Len(disk'[k]) = Len(disk[k]) + Len(batch[k]) - e /\ e <= Len(batch[k])
          BY <3>1, Zenon DEF Appended
        <4>2. QED BY <3>2, <4>1
      <3>4. CASE OnDisk(k, n) # {}
        <4>1. PICK i \in 1..d : disk[k][i].line = n
          BY <3>2, <3>4 DEF OnDisk
        <4>2. disk'[k][i] = disk[k][i]
          BY <3>1, <3>2, Zenon DEF Appended
        <4>3. i \in 1..(d + b - e)
          BY <3>3
        <4>4. OnDisk(k, n)' # {}
          BY <3>3, <4>1, <4>2, <4>3 DEF OnDisk
        <4>5. QED BY <4>4 DEF Safe
      <3>5. CASE At(batch[k], n) # {}
        <4>1. PICK i \in 1..b : batch[k][i] = n
          BY <3>2, <3>5 DEF At
        <4>2. i \notin 1..e
          BY <1>3, <3>1, <4>1, Zenon DEF Appended
        <4>3. i \in (e + 1)..b /\ d + i - e \in 1..(d + b - e)
          BY <4>2
        <4>4. disk'[k][d + i - e] = [line |-> batch[k][i], file |-> file'[k]]
          BY <3>1, <3>2, <4>3, Zenon DEF Appended
        <4>5. disk'[k][d + i - e].line = n
          BY <4>1, <4>4
        <4>6. OnDisk(k, n)' # {}
          BY <3>3, <4>3, <4>5 DEF OnDisk
        <4>7. QED BY <4>6 DEF Safe
      <3>6. CASE m_tasks[k] # <<>> /\ At(m_tasks[k][1], n) # {} /\ ~is_stop[k]
        <4>1. UNCHANGED <<m_tasks, is_stop>>
          BY <2>3 DEF Write, queueVars
        <4>2. At(m_tasks[k][1], n)' = At(m_tasks[k][1], n)
          BY <4>1 DEF At
        <4>3. QED BY <3>6, <4>1, <4>2 DEF Safe
      <3>7. QED BY <1>3, <3>4, <3>5, <3>6 DEF Safe
    <2>4. QED BY <2>1, <2>2, <2>3
  <1>4. ASSUME NEW l \in Log, NEW i \in 1..Len(promised[l]), promised[l][i] # 0
        PROVE  Safe(l, promised[l][i])'
    <2>1. PICK n : n = promised[l][i]
      OBVIOUS
    <2>2. Safe(l, n) /\ n # 0
      BY <1>4, <2>1 DEF PromiseInv
    <2>3. Safe(l, n)'
      BY <1>2, <1>3, <2>2
    <2>4. n = promised'[l][i]
      BY <1>1, <2>1
    <2>5. QED BY <2>3, <2>4
  <1>5. QED BY <1>1, <1>4 DEF PromiseInv

\* A step that moves no line between the queue, a writer and the disk.
LEMMA PromiseIdle ==
  ASSUME PromiseInv, UNCHANGED <<promised, m_tasks, batch, disk, is_stop>>,
         \A l \in Log : writer[l] = "write" => writer'[l] = "write"
  PROVE  PromiseInv'
  BY PromiseKept, SafeKept

LEMMA PromiseStep ==
  KeptInv /\ EndInv /\ PromiseInv /\ [Next]_vars => PromiseInv'
  <1> SUFFICES ASSUME KeptInv, EndInv, PromiseInv, [Next]_vars PROVE PromiseInv'
    OBVIOUS
  <1>0. TypeInv /\ LineInv /\ LoggerInv /\ writer \in [Log -> WriterPc]
    BY TypeParts DEF KeptInv, PlaceInv, TypeInv, LineTypes, ControlTypes
  <1>1. CASE MainStep
    <2>1. CASE ReadNode
      <3>1. /\ InMain /\ UNCHANGED <<promised, m_tasks, batch, disk, is_stop>>
            /\ IF conf' = Len(LogNodes) THEN InitLogger ELSE UNCHANGED writer
            /\ conf' = conf + 1
        BY <2>1 DEF ReadNode, endVars, queueVars
      <3>2. \A l \in Log : writer[l] = "write" => writer'[l] = "write"
        <4>1. CASE UNCHANGED writer
          BY <4>1
        <4>2. CASE conf' = Len(LogNodes) /\ InitLogger
          <5>1. conf < Len(LogNodes)
            BY <1>0, <3>1, <4>2, TypeParts, NodesLength DEF TypeInv, TypeOK
          <5>2. ~HasLogger
            BY <1>0, <3>1, <5>1, LoggerAssumption DEF LoggerInv, InMain
          <5>3. \A l \in Log : writer[l] = "none"
            BY <1>0, <5>2, LogIs DEF LoggerInv, HasLogger
          <5>4. QED BY <5>3
        <4>3. QED BY <3>1, <4>1, <4>2
      <3>3. QED BY <3>1, <3>2, PromiseIdle
    <2>2. CASE MissingBeforeLogger \/ Register \/ StartRpcServer
      <3>1. UNCHANGED <<promised, m_tasks, batch, disk, is_stop, writer>>
        BY <2>2 DEF MissingBeforeLogger, Register, StartRpcServer, loggerVars, endVars,
           queueVars, writerVars
      <3>2. QED BY <3>1, PromiseIdle
    <2>3. CASE MissingAfterLogger \/ RegisterFails \/ TextMissing
      <3>1. UNCHANGED <<promised, m_tasks, batch, disk, is_stop, writer>>
        BY <2>3 DEF MissingAfterLogger, RegisterFails, TextMissing, StartEnding, SignalHandler,
           queueVars, writerVars
      <3>2. QED BY <3>1, PromiseIdle
    <2>4. QED BY <1>1, <2>1, <2>2, <2>3 DEF MainStep
  <1>2. ASSUME NEW t \in Thread, LoggingStep(t)
        PROVE  PromiseInv'
    <2>1. CASE LogStep(t)
      <3>1. UNCHANGED <<promised, m_tasks, batch, disk, is_stop, writer>>
        BY <2>1 DEF LogStep, LockBuffer, PushLine, endVars, queueVars, writerVars
      <3>2. QED BY <3>1, PromiseIdle
    <2>2. CASE LoopFunc(t)
      <3>1. ASSUME NEW l \in Log, NEW from, NEW to, Swap(t, l, from, to)
            PROVE  PromiseInv'
        <4>1. UNCHANGED <<promised, m_tasks, batch, disk, is_stop, writer>>
          BY <3>1 DEF Swap, queueVars, writerVars
        <4>2. QED BY <4>1, PromiseIdle
      <3>2. CASE Push(t, "rpc", "push_rpc", "push_app")
        BY <1>0, <3>2, PushPromise, LogIs
      <3>3. CASE Push(t, "app", "push_app", AfterLoopFunc(t))
        <4>1. PICK to : to = AfterLoopFunc(t)
          OBVIOUS
        <4>2. Push(t, "app", "push_app", to)
          BY <3>3, <4>1, Zenon
        <4>3. QED BY <1>0, <4>2, PushPromise, LogIs
      <3>4. QED BY <2>2, <3>1, <3>2, <3>3, LogIs DEF LoopFunc
    <2>3. CASE EndStep(t)
      <3>1. /\ UNCHANGED <<promised, m_tasks, batch, disk, is_stop>>
            /\ UNCHANGED writer \/ \E l \in Log : writer' = Signal(l)
        BY <2>3, LogIs DEF EndStep, HandlerLogs, Stop, Join, queueVars, writerVars
      <3>2. \A l \in Log : writer[l] = "write" => writer'[l] = "write"
        BY <1>0, <3>1 DEF Signal
      <3>3. QED BY <3>1, <3>2, PromiseIdle
    <2>4. QED BY <1>2, <2>1, <2>2, <2>3 DEF LoggingStep
  <1>3. ASSUME NEW t \in Thread, SignalAt(t)
        PROVE  PromiseInv'
    <2>1. UNCHANGED <<promised, m_tasks, batch, disk, is_stop, writer>>
      BY <1>3 DEF SignalAt, SignalHandler, queueVars, writerVars
    <2>2. QED BY <2>1, PromiseIdle
  <1>4. ASSUME NEW k \in Log, WriterStep(k)
        PROVE  PromiseInv'
    <2>1. CASE FindNothing(k) \/ Wait(k) \/ OpenFails(k)
      <3>1. /\ UNCHANGED <<promised, m_tasks, batch, disk, is_stop>>
            /\ UNCHANGED writer \/ (\E pc \in {"to_wait", "wait"} :
                 writer[k] # "write" /\ writer' = [writer EXCEPT ![k] = pc])
        BY <2>1 DEF FindNothing, Wait, OpenFails, endVars, queueVars, writerVars
      <3>2. \A l \in Log : writer[l] = "write" => writer'[l] = "write"
        BY <1>0, <3>1
      <3>3. QED BY <3>1, <3>2, PromiseIdle
    <2>2. QED BY <1>0, <1>4, <2>1, WriterPromise DEF WriterStep
  <1>5. CASE TimerFlush \/ UNCHANGED vars
    <2>1. UNCHANGED <<promised, m_tasks, batch, disk, is_stop, writer>>
      BY <1>5 DEF TimerFlush, vars, loggerVars, endVars, queueVars, writerVars
    <2>2. QED BY <2>1, PromiseIdle
  <1>6. QED
    BY <1>1, <1>2, <1>3, <1>4, <1>5 DEF Next

\* For any threads and lines: what a flush() at the end of the process pushed to an
\* empty queue is on disk when the writer has been joined.
THEOREM SpecFlushReachesDisk == Spec => []FlushReachesDisk
  <1> DEFINE I == KeptInv /\ EndInv /\ PromiseInv
  <1>1. Init => I
    <2> SUFFICES ASSUME Init PROVE I
      OBVIOUS
    <2>1. KeptInv
      BY InitType, InitPlace, InitLine DEF KeptInv
    <2>2. EndInv
      BY LogIs DEF Init, LoggerInit, EndInv, After
    <2>3. PromiseInv
      BY DEF Init, LoggerInit, Empty, PromiseInv
    <2>4. QED BY <2>1, <2>2, <2>3
  <1>2. I /\ [Next]_vars => I'
    BY KeptStep, EndInvStep, PromiseStep DEF KeptInv
  <1>3. I => FlushReachesDisk
    <2> SUFFICES ASSUME I, NEW t \in Thread, NEW l \in Log, process = "ended",
                        ending[t] # "none", l = "rpc" \/ ending[t] # "Exit",
                        NEW i \in DOMAIN promised[l], promised[l][i] # 0
                 PROVE  \E j \in DOMAIN disk[l] : disk[l][j].line = promised[l][i]
      BY DEF FlushReachesDisk
    <2>1. promised[l] \in Seq(Nat) /\ disk[l] \in Seq([line : Nat, file : File])
      BY TypeParts DEF KeptInv, TypeInv, LineTypes
    <2>2. DOMAIN promised[l] = 1..Len(promised[l]) /\ DOMAIN disk[l] = 1..Len(disk[l])
      <3>1. ASSUME NEW R, NEW s \in Seq(R) PROVE DOMAIN s = 1..Len(s)
        OBVIOUS
      <3>2. QED BY <2>1, <3>1
    <2>3. writer[l] = "ended" /\ is_stop[l]
      BY LogIs DEF EndInv
    <2>4. PICK n : n = promised[l][i]
      OBVIOUS
    <2>5. Safe(l, n)
      BY <2>2, <2>4 DEF PromiseInv
    <2>6. OnDisk(l, n) # {}
      BY <2>3, <2>5 DEF Safe
    <2>7. QED BY <2>2, <2>4, <2>6 DEF OnDisk
  <1>4. QED
    BY <1>1, <1>2, <1>3, PTL DEF Spec
=============================================================================
