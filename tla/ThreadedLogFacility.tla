-------------------------- MODULE ThreadedLogFacility --------------------------
(***************************************************************************)
(* gpcc::log::ThreadedLogFacility with the Logger in front of it: any      *)
(* thread logs messages into a queue; a thread of the facility takes all   *)
(* of them at once and hands them to the back-ends one by one; clients     *)
(* wait in Flush() until nothing is left.                                  *)
(*                                                                         *)
(* The queue is guarded by msgListMutex, the delivery by mutex.  An action *)
(* is the code between two points at which its thread does not hold        *)
(* msgListMutex, and one action is the delivery of one message: meanwhile  *)
(* others may log and flush.  That a text cannot be built or that a        *)
(* back-end throws is a choice.                                            *)
(***************************************************************************)
EXTENDS Naturals, Sequences, FiniteSets

CONSTANTS
  Messages, \* LogMessage objects
  Limited,  \* those of a type other than Error and Fatal
  Capacity, \* of the constructor
  MaxCount, \* largest value of the counters of type uint8_t
  Clients,  \* threads that call Flush
  MaxLogs   \* bound: calls that log or report a failure

(* The constructor insists on 8 at least; 1 is enough. *)
ASSUME ConstantsAssumption ==
  /\ Limited \subseteq Messages
  /\ Capacity \in Nat \ {0} /\ MaxCount \in Nat \ {0} /\ MaxLogs \in Nat

VARIABLES
  queue,                     \* pMsgQueueHead .. pMsgQueueTail
  remainingCapacity,         \* how many more limited messages are accepted
  droppedMessages,           \* refused messages
  messageCreationFailureCnt, \* messages that could not be created
  busy,                      \* the thread delivers
  thread,                    \* where the thread is
  cancelled,                 \* Stop() has requested cancellation
  messages,                  \* what the thread has taken from the queue,
  localDropped,              \* and from the two counters
  localFailures,
  notProperlyDelivered,      \* losses to be reported
  pc,                        \* of the clients in Flush()
  logs,                      \* bounds the calls
  written                    \* history: messages and reports at the back-ends

queueVars == <<queue, droppedMessages, messageCreationFailureCnt>>
localVars == <<messages, localDropped, localFailures>>
logVars == <<queueVars, remainingCapacity, busy, thread, cancelled, localVars,
             notProperlyDelivered, pc, logs, written>>

Elements(s) == {s[i] : i \in 1 .. Len(s)}

(* Counters stop at their limit. *)
Limit(n) == IF n < MaxCount THEN n ELSE MaxCount

LogInit ==
  /\ queue = <<>> /\ droppedMessages = 0 /\ messageCreationFailureCnt = 0
  /\ remainingCapacity = Capacity
  /\ busy = FALSE /\ thread = "none" /\ cancelled = FALSE
  /\ messages = <<>> /\ localDropped = 0 /\ localFailures = 0
  /\ notProperlyDelivered = 0
  /\ pc = [c \in Clients |-> "idle"]
  /\ logs = 0 /\ written = 0

-----------------------------------------------------------------------------
(* Deviation: the counters are forgotten. *)
NothingToLog_QueueOnly == queue = <<>>

NothingToLog == queue = <<>> /\ messageCreationFailureCnt = 0 /\ droppedMessages = 0

(* msgListNotEmptyCV.Signal() *)
SignalThread == thread' = IF thread = "waiting" THEN "woken" ELSE thread

(* A new object is logged.  An addition to an empty queue signals. *)
Log(m) ==
  /\ logs < MaxLogs /\ m \notin Elements(queue) \cup Elements(messages)
  /\ m \in Limited => remainingCapacity # 0
  /\ IF queue = <<>> THEN SignalThread ELSE UNCHANGED thread
  /\ queue' = Append(queue, m)
  /\ remainingCapacity' = remainingCapacity - (IF m \in Limited THEN 1 ELSE 0)
  /\ logs' = logs + 1
  /\ UNCHANGED <<droppedMessages, messageCreationFailureCnt, busy, cancelled, localVars,
                 notProperlyDelivered, pc, written>>

(* A limited message is dropped, and nobody is signalled. *)
LogDropped ==
  /\ logs < MaxLogs /\ Limited # {} /\ remainingCapacity = 0
  /\ droppedMessages' = Limit(droppedMessages + 1)
  /\ logs' = logs + 1
  /\ UNCHANGED <<queue, remainingCapacity, messageCreationFailureCnt, busy, thread, cancelled,
                 localVars, notProperlyDelivered, pc, written>>

(* Logger::Log() fails, or Logger::LogFailed() is called. *)
ReportLogMessageCreationFailed ==
  /\ logs < MaxLogs
  /\ IF messageCreationFailureCnt = 0 THEN SignalThread ELSE UNCHANGED thread
  /\ messageCreationFailureCnt' = Limit(messageCreationFailureCnt + 1)
  /\ logs' = logs + 1
  /\ UNCHANGED <<queue, remainingCapacity, droppedMessages, busy, cancelled, localVars,
                 notProperlyDelivered, pc, written>>

-----------------------------------------------------------------------------
(* Deviation: what is being delivered does not count. *)
Flushed_NotBusy == NothingToLog

Flushed == ~busy /\ NothingToLog

(* Flush() that does not return at once waits for notBusyAndEmptyCV. *)
Flush(c) ==
  /\ pc[c] = "idle" /\ ~Flushed
  /\ pc' = [pc EXCEPT ![c] = "waiting"]
  /\ UNCHANGED <<queueVars, remainingCapacity, busy, thread, cancelled, localVars,
                 notProperlyDelivered, logs, written>>

FlushWakes(c) ==
  /\ pc[c] = "woken"
  /\ pc' = [pc EXCEPT ![c] = IF Flushed THEN "idle" ELSE "waiting"]
  /\ UNCHANGED <<queueVars, remainingCapacity, busy, thread, cancelled, localVars,
                 notProperlyDelivered, logs, written>>

Start ==
  /\ thread = "none"
  /\ thread' = "locking"
  /\ UNCHANGED <<queueVars, remainingCapacity, busy, cancelled, localVars,
                 notProperlyDelivered, pc, logs, written>>

(* Stop() requests cancellation, signals, *)
Stop ==
  /\ thread # "none" /\ ~cancelled
  /\ cancelled' = TRUE
  /\ SignalThread
  /\ UNCHANGED <<queueVars, remainingCapacity, busy, localVars,
                 notProperlyDelivered, pc, logs, written>>

(* and returns from thread.Join(). *)
StopReturns ==
  /\ thread = "ended" /\ cancelled
  /\ thread' = "none" /\ cancelled' = FALSE
  /\ UNCHANGED <<queueVars, remainingCapacity, busy, localVars,
                 notProperlyDelivered, pc, logs, written>>

-----------------------------------------------------------------------------
(* InternalThreadEntry: the loop, from its top or from a wait to the next   *)
(* wait, to the delivery or to the end.                                     *)
(* Deviation: cancellation is examined after waits only. *)
LoopTop_NoCheck ==
  IF NothingToLog
  THEN /\ thread' = IF thread = "woken" /\ cancelled THEN "ended" ELSE "waiting"
       /\ busy' = FALSE
       /\ UNCHANGED <<queueVars, localVars>>
  ELSE /\ thread' = "fetched" /\ busy' = TRUE
       /\ messages' = queue /\ queue' = <<>>
       /\ localFailures' = messageCreationFailureCnt /\ messageCreationFailureCnt' = 0
       /\ localDropped' = droppedMessages /\ droppedMessages' = 0

LoopTop ==
  IF cancelled \/ NothingToLog
  THEN /\ thread' = IF cancelled THEN "ended" ELSE "waiting"
       /\ busy' = FALSE
       /\ UNCHANGED <<queueVars, localVars>>
  ELSE /\ thread' = "fetched" /\ busy' = TRUE
       /\ messages' = queue /\ queue' = <<>>
       /\ localFailures' = messageCreationFailureCnt /\ messageCreationFailureCnt' = 0
       /\ localDropped' = droppedMessages /\ droppedMessages' = 0

EnterLoop ==
  /\ thread \in {"locking", "woken"}
  /\ LoopTop
  /\ UNCHANGED <<remainingCapacity, cancelled, notProperlyDelivered, pc, logs, written>>

(* DeliverMessages: mutex is locked, the dropped messages are added. *)
BeginDelivery ==
  /\ thread = "fetched"
  /\ thread' = "delivering"
  /\ notProperlyDelivered' = Limit(localDropped + notProperlyDelivered)
  /\ localDropped' = 0
  /\ UNCHANGED <<queueVars, remainingCapacity, busy, cancelled, messages, localFailures,
                 pc, logs, written>>

(* Something reaches all back-ends, or it does not and that is counted. *)
Delivered(n) ==
  \/ notProperlyDelivered' = n /\ written' = written + 1
  \/ notProperlyDelivered' = Limit(n + 1) /\ UNCHANGED written

(* One message is taken from the chain, and its capacity is given back. *)
DeliverMessage ==
  /\ thread = "delivering" /\ messages # <<>>
  /\ messages' = Tail(messages)
  /\ remainingCapacity' = remainingCapacity + (IF Head(messages) \in Limited THEN 1 ELSE 0)
  /\ Delivered(notProperlyDelivered)
  /\ UNCHANGED <<queueVars, busy, thread, cancelled, localDropped, localFailures, pc, logs>>

(* The report about losses: the counter is cleared before the delivery, but *)
(* it is kept if the text cannot be built.                                  *)
ReportLosses ==
  /\ thread = "delivering" /\ messages = <<>>
  /\ thread' = "reporting"
  /\ IF notProperlyDelivered = 0
     THEN UNCHANGED <<notProperlyDelivered, written>>
     ELSE Delivered(0) \/ UNCHANGED <<notProperlyDelivered, written>>
  /\ UNCHANGED <<queueVars, remainingCapacity, busy, cancelled, localVars, pc, logs>>

(* The report about messages that could not be created. *)
ReportFailures ==
  /\ thread = "reporting"
  /\ thread' = "relocking"
  /\ localFailures' = 0
  /\ IF localFailures = 0
     THEN UNCHANGED <<notProperlyDelivered, written>>
     ELSE Delivered(notProperlyDelivered)
  /\ UNCHANGED <<queueVars, remainingCapacity, busy, cancelled, messages, localDropped, pc, logs>>

(* notBusyAndEmptyCV.Broadcast() if there is nothing more to do. *)
Relock ==
  /\ thread = "relocking"
  /\ pc' = IF NothingToLog
           THEN [c \in Clients |-> IF pc[c] = "waiting" THEN "woken" ELSE pc[c]]
           ELSE pc
  /\ LoopTop
  /\ UNCHANGED <<remainingCapacity, cancelled, notProperlyDelivered, logs, written>>

SpuriousWakeup ==
  /\ \/ thread = "waiting" /\ thread' = "woken" /\ UNCHANGED pc
     \/ \E c \in Clients : pc[c] = "waiting" /\ pc' = [pc EXCEPT ![c] = "woken"]
        /\ UNCHANGED thread
  /\ UNCHANGED <<queueVars, remainingCapacity, busy, cancelled, localVars,
                 notProperlyDelivered, logs, written>>

-----------------------------------------------------------------------------
ThreadStep ==
  \/ EnterLoop \/ BeginDelivery \/ DeliverMessage \/ ReportLosses \/ ReportFailures \/ Relock

LogNext ==
  \/ \E m \in Messages : Log(m)
  \/ LogDropped \/ ReportLogMessageCreationFailed
  \/ \E c \in Clients : Flush(c) \/ FlushWakes(c)
  \/ Start \/ Stop \/ StopReturns \/ ThreadStep \/ SpuriousWakeup

LogSpec == LogInit /\ [][LogNext]_logVars

(* Threads that can run do so, and back-ends return. *)
FairSpec ==
  /\ LogSpec /\ WF_logVars(ThreadStep) /\ WF_logVars(StopReturns)
  /\ \A c \in Clients : WF_logVars(FlushWakes(c))

-----------------------------------------------------------------------------
LogTypeOK ==
  /\ queue \in Seq(Messages) /\ messages \in Seq(Messages)
  /\ remainingCapacity \in 0 .. Capacity
  /\ droppedMessages \in 0 .. MaxCount /\ messageCreationFailureCnt \in 0 .. MaxCount
  /\ localDropped \in 0 .. MaxCount /\ localFailures \in 0 .. MaxCount
  /\ notProperlyDelivered \in 0 .. MaxCount
  /\ busy \in BOOLEAN /\ cancelled \in BOOLEAN
  /\ thread \in {"none", "locking", "waiting", "woken", "fetched", "delivering",
                 "reporting", "relocking", "ended"}
  /\ pc \in [Clients -> {"idle", "waiting", "woken"}]
  /\ logs \in 0 .. MaxLogs /\ written \in Nat

(* Neither the thread nor a client in Flush() sleeps when it is its turn,   *)
(* though a dropped message wakes nobody: it is dropped only while limited  *)
(* messages are on their way, and these have woken the thread.              *)
NobodyOversleeps ==
  /\ thread = "waiting" =>
       /\ ~cancelled /\ queue = <<>>
       /\ messageCreationFailureCnt = 0 /\ droppedMessages = 0
  /\ \A c \in Clients : pc[c] = "waiting" =>
       busy \/ queue # <<>> \/ messageCreationFailureCnt # 0 \/ droppedMessages # 0

(* Messages are written in the order of acceptance, the limit is exact, no  *)
(* loss is forgotten unless a report about it has been written, and Flush() *)
(* returns only when nothing is on its way.                                 *)
Untold ==
  {k \in {"message", "creation"} :
     IF k = "message"
     THEN notProperlyDelivered # 0 \/ droppedMessages # 0 \/ localDropped # 0
     ELSE messageCreationFailureCnt # 0 \/ localFailures # 0}

Abstract == INSTANCE MessageLog WITH
  pending <- messages \o queue, untold <- Untold, flushing <- {c \in Clients : pc[c] # "idle"}

ImplementsMessageLog == Abstract!Spec

(* Stop() returns.  Flush() returns, provided that the facility has been    *)
(* started and nobody stops it.                                             *)
CallsReturn ==
  /\ cancelled ~> ~cancelled
  /\ \A c \in Clients :
       pc[c] # "idle" /\ thread # "none" ~> pc[c] = "idle" \/ cancelled
=============================================================================
