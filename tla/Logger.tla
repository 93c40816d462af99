------------------------------- MODULE Logger -------------------------------
(***************************************************************************)
(* The asynchronous logger: RunLoggerThread, WriteLog, the Worker thread   *)
(* with its two events, and StopLoggerThread, called by clients that each  *)
(* start the logger, log and stop it.  WriteLog may come before the thread *)
(* is there: in this repository nobody calls RunLoggerThread at all.       *)
(*                                                                         *)
(* Abstracted: the text of a log, the file and the console.  WriteLog      *)
(* signals under logQueueLock, so it is one step.                          *)
(* External: WaitForMultipleObjects prefers the first event that is set;   *)
(* SetEvent on a null handle does nothing.                                 *)
(***************************************************************************)
EXTENDS Naturals, Sequences

CONSTANTS Clients,
          MaxLogs      \* bound: logs per client

ASSUME LoggerAssumption == MaxLogs \in Nat

VARIABLES currentConnectedClientCount,
          clientAt,           \* where each client is
          logs,               \* logs[c]: how many it has written
          joined,             \* clients whose StopLoggerThread joined
          hasEvents,          \* both events have been created
          logHandle,          \* auto-reset
          stopHandle,         \* manual-reset
          workerAt, result,   \* the worker and what woke it
          logWaitingQueue, copyLogWaitingQueue,
          written,            \* what is in the file
          logged,             \* history: every log, in the order of the queue
          unsignalled         \* history: logs written before the events were

client == <<currentConnectedClientCount, clientAt, joined>>
handles == <<hasEvents, logHandle, stopHandle>>
queues == <<logWaitingQueue, copyLogWaitingQueue, written>>
logHistory == <<logged, unsignalled>>
loggerVars == <<client, logs, handles, workerAt, result, queues, logHistory>>

LoggerInit ==
  /\ currentConnectedClientCount = 0
  /\ clientAt = [c \in Clients |-> "run"]
  /\ logs = [c \in Clients |-> 0]
  /\ joined = {}
  /\ hasEvents = FALSE
  /\ logHandle = FALSE
  /\ stopHandle = FALSE
  /\ workerAt = "none"
  /\ result = "none"
  /\ logWaitingQueue = << >>
  /\ copyLogWaitingQueue = << >>
  /\ written = << >>
  /\ logged = << >>
  /\ unsignalled = 0

ClientTo(c, pc) == clientAt' = [clientAt EXCEPT ![c] = pc]

----------------------------------------------------------------------------
(* RunLoggerThread: the first client to come creates the events ...        *)
RunLoggerThread(c) ==
  /\ clientAt[c] = "run"
  /\ currentConnectedClientCount' = currentConnectedClientCount + 1
  /\ ClientTo(c, IF currentConnectedClientCount > 0 THEN "running" ELSE "events")
  /\ UNCHANGED <<logs, joined, handles, workerAt, result, queues, logHistory>>

CreateEvents(c) ==
  /\ clientAt[c] = "events"
  /\ hasEvents' = TRUE
  /\ ClientTo(c, "thread")
  /\ UNCHANGED <<currentConnectedClientCount, joined, logs, logHandle, stopHandle,
                 workerAt, result, queues, logHistory>>

(* ... and the thread.                                                     *)
CreateThread(c) ==
  /\ clientAt[c] = "thread"
  /\ workerAt' = "wait"
  /\ ClientTo(c, "running")
  /\ UNCHANGED <<currentConnectedClientCount, joined, logs, handles, result, queues,
                 logHistory>>

(* Mutant of WriteLog: the event is set only for the first in the queue.   *)
WriteLogFirst(c) ==
  LET log == <<c, logs[c] + 1>> IN
  /\ clientAt[c] \in {"run", "running"}
  /\ logs[c] < MaxLogs
  /\ logs' = [logs EXCEPT ![c] = @ + 1]
  /\ logWaitingQueue' = Append(logWaitingQueue, log)
  /\ logged' = Append(logged, log)
  /\ logHandle' = (logHandle \/ (hasEvents /\ logWaitingQueue = << >>))
  /\ unsignalled' = IF hasEvents THEN unsignalled ELSE Len(logged')
  /\ UNCHANGED <<client, hasEvents, stopHandle, workerAt, result,
                 copyLogWaitingQueue, written>>

(* WriteLog, before or after the logger runs.                              *)
WriteLog(c) ==
  LET log == <<c, logs[c] + 1>> IN
  /\ clientAt[c] \in {"run", "running"}
  /\ logs[c] < MaxLogs
  /\ logs' = [logs EXCEPT ![c] = @ + 1]
  /\ logWaitingQueue' = Append(logWaitingQueue, log)
  /\ logged' = Append(logged, log)
  /\ logHandle' = (logHandle \/ hasEvents)
  /\ unsignalled' = IF hasEvents THEN unsignalled ELSE Len(logged')
  /\ UNCHANGED <<client, hasEvents, stopHandle, workerAt, result,
                 copyLogWaitingQueue, written>>

(* StopLoggerThread: fetch_sub(0) leaves the count as it is; only where one *)
(* client ever came is the thread stopped ...                              *)
StopLoggerThread(c) ==
  /\ clientAt[c] = "running"
  /\ IF currentConnectedClientCount = 1
     THEN stopHandle' = TRUE /\ ClientTo(c, "join")
     ELSE UNCHANGED stopHandle /\ ClientTo(c, "stopped")
  /\ UNCHANGED <<currentConnectedClientCount, joined, logs, hasEvents, logHandle,
                 workerAt, result, queues, logHistory>>

(* ... and waited for.                                                     *)
Join(c) ==
  /\ clientAt[c] = "join"
  /\ workerAt = "ended"
  /\ joined' = joined \cup {c}
  /\ ClientTo(c, "stopped")
  /\ UNCHANGED <<currentConnectedClientCount, logs, handles, workerAt, result,
                 queues, logHistory>>

----------------------------------------------------------------------------
(* Worker: the log event, which resets itself, comes first ...             *)
WorkerWakes ==
  /\ workerAt = "wait"
  /\ logHandle \/ stopHandle
  /\ result' = IF logHandle THEN "LOG_HANDLE" ELSE "STOP_HANDLE"
  /\ logHandle' = FALSE
  /\ workerAt' = "swap"
  /\ UNCHANGED <<client, logs, hasEvents, stopHandle, queues, logHistory>>

(* Mutant of WorkerSwaps: the queue is copied, not swapped.                *)
WorkerCopies ==
  /\ workerAt = "swap"
  /\ copyLogWaitingQueue' = logWaitingQueue
  /\ workerAt' = "write"
  /\ UNCHANGED <<client, logs, handles, result, logWaitingQueue, written, logHistory>>

(* Mutant of WorkerSwaps: nothing is taken when the thread is to stop.     *)
WorkerSwapsLogs ==
  /\ workerAt = "swap"
  /\ IF result = "LOG_HANDLE"
     THEN /\ copyLogWaitingQueue' = logWaitingQueue
          /\ logWaitingQueue' = copyLogWaitingQueue
     ELSE UNCHANGED <<copyLogWaitingQueue, logWaitingQueue>>
  /\ workerAt' = "write"
  /\ UNCHANGED <<client, logs, handles, result, written, logHistory>>

(* ... the queue is swapped for the empty copy under the lock ...          *)
WorkerSwaps ==
  /\ workerAt = "swap"
  /\ copyLogWaitingQueue' = logWaitingQueue
  /\ logWaitingQueue' = copyLogWaitingQueue
  /\ workerAt' = "write"
  /\ UNCHANGED <<client, logs, handles, result, written, logHistory>>

(* ... and written.  A thread that is to stop sleeps for ten seconds first, *)
(* writes what it had taken before the sleep, and ends.                    *)
WriteLogImpl ==
  /\ workerAt = "write"
  /\ written' = written \o copyLogWaitingQueue
  /\ copyLogWaitingQueue' = << >>
  /\ workerAt' = IF result = "LOG_HANDLE" THEN "wait" ELSE "ended"
  /\ UNCHANGED <<client, logs, handles, result, logWaitingQueue, logHistory>>

----------------------------------------------------------------------------
Worker == WorkerWakes \/ WorkerSwaps \/ WriteLogImpl

ClientStep(c) == CreateEvents(c) \/ CreateThread(c) \/ Join(c)

LoggerNext ==
  \/ \E c \in Clients : RunLoggerThread(c) \/ WriteLog(c) \/ StopLoggerThread(c)
  \/ \E c \in Clients : ClientStep(c)
  \/ Worker

(* The worker and a client inside a call run on; nobody has to call.       *)
LoggerSpec ==
  /\ LoggerInit
  /\ [][LoggerNext]_loggerVars
  /\ WF_loggerVars(Worker)
  /\ \A c \in Clients : WF_loggerVars(ClientStep(c))

----------------------------------------------------------------------------
(* x is in the sequence s.                                                 *)
In(x, s) == \E i \in 1 .. Len(s) : s[i] = x

(* A client that has come, one that starts the worker, and one that has    *)
(* stopped it.                                                             *)
Came(c) == clientAt[c] # "run"
Starts(c) == clientAt[c] \in {"events", "thread"}
Waits(c) == clientAt[c] = "join" \/ c \in joined

LoggerTypeOK ==
  /\ currentConnectedClientCount \in Nat
  /\ clientAt \in [Clients -> {"run", "events", "thread", "running", "join", "stopped"}]
  /\ logs \in [Clients -> Nat]
  /\ joined \subseteq Clients
  /\ hasEvents \in BOOLEAN /\ logHandle \in BOOLEAN /\ stopHandle \in BOOLEAN
  /\ workerAt \in {"none", "wait", "swap", "write", "ended"}
  /\ result \in {"none", "LOG_HANDLE", "STOP_HANDLE"}
  /\ logWaitingQueue \in Seq(Clients \X Nat)
  /\ copyLogWaitingQueue \in Seq(Clients \X Nat)
  /\ written \in Seq(Clients \X Nat)
  /\ unsignalled \in 0 .. Len(logged)

(* Every log is in the file, the worker's copy or the queue, once and in   *)
(* the order of WriteLog, through every swap.                              *)
QueuesInPlace ==
  /\ logged \in Seq(Clients \X Nat)
  /\ written \o copyLogWaitingQueue \o logWaitingQueue = logged
  /\ workerAt # "write" => copyLogWaitingQueue = << >>
  /\ \A c \in Clients : \A n \in 1 .. logs[c] : In(<<c, n>>, logged)

(* The count says how many have come: the first alone makes the worker,    *)
(* and who stops it is the only one that ever came.                        *)
CountInPlace ==
  /\ \A c \in Clients : Came(c) => currentConnectedClientCount >= 1
  /\ \A c, d \in Clients :
       Came(c) /\ Came(d) /\ c # d => currentConnectedClientCount >= 2
  /\ \A c \in Clients : Starts(c) => workerAt = "none"
  /\ \A c, d \in Clients : Starts(c) /\ Starts(d) => c = d
  /\ workerAt # "none" \/ stopHandle => currentConnectedClientCount >= 1

(* Who has stopped the worker finds, where it is on its last write, all it *)
(* has logged in what it holds.                                            *)
StopInPlace ==
  /\ result = "STOP_HANDLE" => stopHandle
  /\ workerAt \in {"none", "wait"} => result # "STOP_HANDLE"
  /\ workerAt \in {"swap", "write"} => result # "none"
  /\ workerAt = "ended" => result = "STOP_HANDLE"
  /\ stopHandle => \E c \in Clients : Waits(c)
  /\ \A c \in Clients : Waits(c) => clientAt[c] \in {"join", "stopped"}
  /\ joined # {} => workerAt = "ended"
  /\ \A c \in Clients : Waits(c) /\ result = "STOP_HANDLE" =>
       /\ workerAt = "write" =>
            \A n \in 1 .. logs[c] : In(<<c, n>>, written \o copyLogWaitingQueue)
       /\ workerAt = "ended" => \A n \in 1 .. logs[c] : In(<<c, n>>, written)

(* Types, and what the clients, the worker and the queues owe each other   *)
(* (Logger::RunLoggerThread, Worker, WriteLog, StopLoggerThread).          *)
LoggerInv == LoggerTypeOK /\ QueuesInPlace /\ CountInPlace /\ StopInPlace

(* A client that stopped the worker and waited for it finds in the file    *)
(* all it has logged, although the last write is of what was taken before  *)
(* the sleep (Logger::Worker, Logger::StopLoggerThread).                   *)
StopFlushes ==
  \A c \in joined : \A n \in 1 .. logs[c] : In(<<c, n>>, written)

(* A log of a client that found the worker running is written, unless it   *)
(* comes so late that the worker has taken its last copy; one written      *)
(* before the events existed waits for the next (Logger::WriteLog).        *)
Signalled == unsignalled < Len(logged)

SignalledIsWritten ==
  \A c \in Clients : \A n \in 1 .. MaxLogs :
    (logs[c] = n /\ Signalled /\ logged[Len(logged)] = <<c, n>>)
      ~> \/ In(<<c, n>>, written)
         \/ workerAt = "ended"
============================================================================
