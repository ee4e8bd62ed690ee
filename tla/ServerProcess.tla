---------------------------- MODULE ServerProcess ----------------------------
(***************************************************************************)
(* The main thread of a server: InitConfig reads the configuration, which  *)
(* creates the logger half way and the TcpServer, with its IO threads, at  *)
(* the end; services are registered; StartRpcServer starts the flush timer *)
(* and the server.  A configuration that is not right ends the process in  *)
(* one of three ways.  The logger is that of AsyncLogger; an IO thread may *)
(* log as soon as it exists.                                               *)
(***************************************************************************)
EXTENDS AsyncLogger

VARIABLES
  conf,       \* nodes of the configuration read so far, 0 when the reading has ended early
  registered  \* REGISTER_SERVICE or REGISTER_HTTP_SERVLET has been passed

vars == <<loggerVars, conf, registered>>

-----------------------------------------------------------------------------
(* The configuration                                                       *)

Element(n) == [node |-> n, checks |-> "element"]
Text(n)    == [node |-> n, checks |-> "text"]
Unsafe(n)  == [node |-> n, checks |-> "nothing"]

\* readLogConfig, with the node it is given.
LogNodes ==
  <<Element("log"), Text("log_path"), Text("log_prefix"), Text("log_max_file_size"),
    Text("rpc_log_level"), Text("app_log_level"), Text("log_sync_inteval")>>

\* The rest of readConf.  The elements ip, port and protocal are looked for together;
\* that they have a text is not checked, only that the port is not 0.
ServerNodes ==
  <<Element("time_wheel"), Element("coroutine"), Text("coroutine_stack_size"),
    Text("coroutine_pool_size"), Text("msg_req_len"), Text("max_connect_timeout"),
    Text("iothread_num"), Text("bucket_num"), Text("inteval"), Element("server"),
    Element("ip, port, protocal"), Unsafe("ip"), Unsafe("port"), Text("port"),
    Unsafe("protocal")>>

Nodes == LogNodes \o ServerNodes

\* readDBConfig is compiled with DECLARE_MYSQL_PLUGIN only; without it the optional
\* database node changes nothing.
ConfigRead == conf = Len(Nodes)

TypeOK ==
  /\ LoggerTypeOK
  /\ conf \in 0..Len(Nodes)
  /\ registered \in BOOLEAN

Init == LoggerInit /\ conf = 0 /\ registered = FALSE

InMain == process = "starting" /\ at[Main] = "run" /\ logging[Main] = NULL

\* The next node is as it should be; after the last one of readLogConfig the logger
\* is created.
ReadNode ==
  /\ InMain /\ conf < Len(Nodes)
  /\ conf' = conf + 1
  /\ IF conf' = Len(LogNodes) THEN InitLogger ELSE UNCHANGED <<m_buffer, writer>>
  /\ UNCHANGED <<logging, logged, endVars, queueVars, batch, is_stop, file, disk,
                 process, registered>>

\* What is missing is printed, and exit(0) runs the destructors of the globals: there
\* is no logger yet,
MissingBeforeLogger ==
  /\ InMain /\ ~HasLogger /\ Nodes[conf + 1].checks # "nothing"
  /\ process' = "ended"
  /\ UNCHANGED <<bufferVars, endVars, queueVars, writerVars, conf, registered>>

\* or ~Logger flushes and joins.
MissingAfterLogger ==
  /\ InMain /\ HasLogger /\ ~ConfigRead /\ Nodes[conf + 1].checks # "nothing"
  /\ StartEnding("~Logger")
  /\ conf' = 0
  /\ UNCHANGED registered

\* std::string or atoi of a null text: the process gets SIGABRT or SIGSEGV.
TextMissing ==
  /\ InMain /\ ~ConfigRead /\ Nodes[conf + 1].checks = "nothing"
  /\ SignalHandler(Main)
  /\ conf' = 0
  /\ UNCHANGED registered

-----------------------------------------------------------------------------
(* Registering, and StartRpcServer                                         *)

\* registerService or registerHttpServlet says no: the wrong protocol, or a nullptr.
RegisterFails ==
  /\ InMain /\ ConfigRead /\ ~registered
  /\ StartEnding("Exit")
  /\ UNCHANGED <<conf, registered>>

Register ==
  /\ InMain /\ ConfigRead /\ ~registered
  /\ registered' = TRUE
  /\ UNCHANGED <<loggerVars, conf>>

\* Logger::start adds the flush timer; TcpServer::start does not return.
StartRpcServer ==
  /\ InMain /\ registered
  /\ process' = "running"
  /\ UNCHANGED <<bufferVars, endVars, queueVars, writerVars, conf, registered>>

-----------------------------------------------------------------------------

\* The constructor of TcpServer creates the IO threads.
Exists(t) == t = Main \/ ConfigRead

MainStep ==
  \/ ReadNode \/ MissingBeforeLogger \/ MissingAfterLogger \/ TextMissing
  \/ RegisterFails \/ Register \/ StartRpcServer

LoggingStep(t) ==
  /\ Exists(t) /\ (LogStep(t) \/ LoopFunc(t) \/ EndStep(t))
  /\ UNCHANGED <<conf, registered>>

SignalAt(t) ==
  /\ Exists(t) /\ SignalHandler(t)
  /\ conf' = IF ConfigRead THEN conf ELSE 0
  /\ UNCHANGED registered

Next ==
  \/ MainStep
  \/ \E t \in Thread : LoggingStep(t) \/ SignalAt(t)
  \/ /\ (\E l \in Log : WriterStep(l)) \/ TimerFlush
     /\ UNCHANGED <<conf, registered>>

Spec == Init /\ [][Next]_vars

\* Threads that have begun a call go on, and the flush timer is a repeated event.
\* Nothing is assumed of who logs, and of signals.
Fairness ==
  /\ \A t \in Thread :
       WF_vars(((\E l \in Log : PushLine(t, l)) \/ LoopFunc(t) \/ EndStep(t))
               /\ UNCHANGED <<conf, registered>>)
  /\ \A l \in Log : WF_vars(WriterStep(l) /\ UNCHANGED <<conf, registered>>)
  /\ WF_vars(TimerFlush /\ UNCHANGED <<conf, registered>>)

FairSpec == Spec /\ Fairness
=============================================================================
