------------------------------ MODULE Program ------------------------------
(***************************************************************************)
(* The start of the program in main.c and the logging of both targets.     *)
(*                                                                         *)
(* main() prepares the logging, logs directly, creates the TCP/IP task and *)
(* starts the scheduler.  When the network comes up for the first time the *)
(* TCP/IP task's hook creates the task that becomes the MQTT agent.  Every *)
(* log is two calls: xLoggingPrintMetadata() takes a mutex that            *)
(* vLoggingPrintf() gives back; the TCP/IP stack logs with one call.       *)
(*                                                                         *)
(* On QEMU the task with the mutex writes.  On Windows it puts the text    *)
(* into a stream buffer that a Win32 thread prints, woken by an event;     *)
(* until this thread has set xDirectPrint to pdFALSE the task prints the   *)
(* stream buffer itself.  The thread does not use the mutex: while both    *)
(* are in prvLoggingFlushBuffer() the stream buffer is read without        *)
(* protection, and what happens then is undefined (corrupt).               *)
(*                                                                         *)
(* A text is the log it belongs to and its length; the characters, the     *)
(* levels and the addresses are left out.                                  *)
(***************************************************************************)
EXTENDS Integers, SequencesExt

CONSTANTS
    Main, Ip, Agent,    \* main(), the TCP/IP task, the connection manager task
    NoTask,             \* no holder of the mutex
    StreamSpace,        \* dlLOGGING_STREAM_BUFFER_SIZE, in units of text
    MaxLogs,            \* bounds of the model: logs,
    MaxNetworkUps       \* and times the network comes up

ASSUME ProgramAssumption ==
    /\ Cardinality({Main, Ip, Agent}) = 3 /\ NoTask \notin {Main, Ip, Agent}
    /\ StreamSpace \in Nat /\ MaxLogs \in Nat /\ MaxNetworkUps \in Nat

Tasks == {Main, Ip, Agent}
LengthUnits == 1        \* iMessageLengthBytes, the length before every text

VARIABLES
    target,             \* the build: "windows" or "qemu"
    started,            \* the tasks that run; Main until the scheduler does
    pc,                 \* where each task is in a log
    number,             \* the number of each task's log
    logs,               \* logs begun
    holder,             \* the holder of xStreamBufferMutex, xMutex
    stream,             \* xLogStreamBuffer: texts, each with its length before it
    thread,             \* prvWin32LoggingThread()
    event,              \* pvLoggingThreadEvent is signalled
    xDirectPrint,
    hook,               \* where vApplicationIPNetworkEventHook() is
    xTasksAlreadyCreated, networkUps,
    output,             \* history: the texts printed
    corrupt             \* the stream buffer was read by two at once

startVars == <<started, hook, xTasksAlreadyCreated, networkUps>>
printVars == <<stream, event, output>>
threadVars == <<thread, xDirectPrint, corrupt>>
logVars == <<number, logs>>
programVars == <<target, startVars, pc, logVars, holder, printVars, threadVars>>

Windows == target = "windows"

ProgramInit ==
    /\ target \in {"windows", "qemu"}
    /\ started = {Main}
    /\ pc = [t \in Tasks |-> IF t = Main THEN "init" ELSE "idle"]
    /\ number = [t \in Tasks |-> 0]
    /\ logs = 0
    /\ holder = NoTask
    /\ stream = <<>>
    /\ thread = "none"
    /\ event = FALSE
    /\ xDirectPrint = TRUE
    /\ hook = "none"
    /\ xTasksAlreadyCreated = FALSE
    /\ networkUps = 0
    /\ output = <<>>
    /\ corrupt = FALSE

\* The program runs until a failed assertion or corrupt memory stops it.
Runs == ~corrupt /\ \A t \in Tasks : pc[t] # "halted"

At(t, place) == Runs /\ t \in started /\ pc[t] = place
Goto(t, place) == pc' = [pc EXCEPT ![t] = place]

----------------------------------------------------------------------------
(* The stream buffer.                                                      *)

Text(t, part, length) == [log |-> number[t], part |-> part, length |-> length]

Used == FoldLeft(LAMBDA n, text : n + LengthUnits + text.length, 0, stream)

\* The tasks and the thread that are in prvLoggingFlushBuffer().
Flushers ==
    {t \in Tasks : pc[t] \in {"flushMetadata", "flushMessage", "flushTcp"}}
    \cup (IF thread = "flush" THEN {"thread"} ELSE {})

\* A bug to check the properties with: the loop ends with a text left.
MoreThanOne == Len(stream) > 1

\* The loop's condition: more than a length is in the stream buffer.
MoreToPrint == Used > LengthUnits

\* One turn of the loop.  Another reader at the same time may spoil it.
PrintFirst ==
    /\ MoreToPrint
    /\ stream' = Tail(stream)
    /\ output' = Append(output, stream[1])
    /\ corrupt' \in IF Cardinality(Flushers) > 1 THEN BOOLEAN ELSE {FALSE}
    /\ UNCHANGED <<event, thread, xDirectPrint>>

\* A text that does not fit is dropped.  One that does is printed by the
\* task itself (the next step) or by the thread.
PutText(t, text, flush, next) ==
    IF Used + LengthUnits + text.length <= StreamSpace
    THEN /\ stream' = Append(stream, text)
         /\ event' = (event \/ ~xDirectPrint)
         /\ Goto(t, IF xDirectPrint THEN flush ELSE next)
    ELSE Goto(t, next) /\ UNCHANGED <<stream, event>>

\* What a task with the mutex does with a text on either target.
Output(t, text, flush, next) ==
    IF Windows
    THEN PutText(t, text, flush, next) /\ UNCHANGED output
    ELSE /\ output' = Append(output, text)
         /\ Goto(t, next)
         /\ UNCHANGED <<stream, event>>

----------------------------------------------------------------------------
(* Logging.                                                                *)

\* The mutex, and on Windows the event, signalled, and the thread.
vLoggingInit ==
    /\ thread' = IF Windows THEN "created" ELSE "none"
    /\ event' = Windows

\* The logging is ready before main() logs for the first time.
prvMiscInitialisation ==
    /\ At(Main, "init")
    /\ vLoggingInit
    /\ Goto(Main, "idle")
    /\ UNCHANGED <<target, startVars, logVars, holder, stream, output, xDirectPrint, corrupt>>

BeginLog(t, place) ==
    /\ logs < MaxLogs
    /\ logs' = logs + 1
    /\ number' = [number EXCEPT ![t] = logs + 1]
    /\ Goto(t, place)

\* A log of any of the levels.
Log(t) ==
    /\ At(t, "idle")
    /\ hook = "none" \/ t # Ip
    /\ BeginLog(t, "metadata")
    /\ UNCHANGED <<target, startVars, holder, printVars, threadVars>>

\* FreeRTOS_printf() in the TCP/IP stack, which the tasks call too.
TcpLog(t) ==
    /\ At(t, "idle")
    /\ hook = "none" \/ t # Ip
    /\ BeginLog(t, "tcp")
    /\ UNCHANGED <<target, startVars, holder, printVars, threadVars>>

xLoggingPrintMetadata(t) ==
    /\ At(t, "metadata")
    /\ holder = NoTask
    /\ holder' = t
    /\ Output(t, Text(t, "metadata", 1), "flushMetadata", "message")
    /\ UNCHANGED <<target, startVars, logVars, threadVars>>

\* The wait for the mutex times out; vLoggingPrintf() is called nevertheless.
MetadataTimesOut(t) ==
    /\ At(t, "metadata")
    /\ holder \notin {NoTask, t}
    /\ Goto(t, "message")
    /\ UNCHANGED <<target, startVars, logVars, holder, printVars, threadVars>>

\* A bug to check the properties with: the message is printed in any case.
PrintWithoutMutex(t) ==
    /\ At(t, "message")
    /\ \E length \in 1..2 : Output(t, Text(t, "message", length), "flushMessage", "give")
    /\ UNCHANGED <<target, startVars, logVars, holder, threadVars>>

\* A message of its own length, and only if the mutex was obtained.
vLoggingPrintf(t) ==
    /\ At(t, "message")
    /\ IF holder = t
       THEN \E length \in 1..2 : Output(t, Text(t, "message", length), "flushMessage", "give")
       ELSE Goto(t, "end") /\ UNCHANGED printVars
    /\ UNCHANGED <<target, startVars, logVars, holder, threadVars>>

\* The text of the TCP/IP stack may be empty.
vTCPLoggingPrintf(t) ==
    /\ At(t, "tcp")
    /\ holder = NoTask
    /\ holder' = t
    /\ \E length \in 0..1 : Output(t, Text(t, "tcp", length), "flushTcp", "giveTcp")
    /\ UNCHANGED <<target, startVars, logVars, threadVars>>

TcpLogTimesOut(t) ==
    /\ At(t, "tcp")
    /\ holder \notin {NoTask, t}
    /\ Goto(t, "idle")
    /\ UNCHANGED <<target, startVars, logVars, holder, printVars, threadVars>>

AfterFlush == [place \in {"flushMetadata", "flushMessage", "flushTcp"} |->
                 CASE place = "flushMetadata" -> "message"
                   [] place = "flushMessage" -> "give"
                   [] place = "flushTcp" -> "giveTcp"]

\* prvLoggingFlushBuffer() in a task, while xDirectPrint was still set.
DirectPrint(t) ==
    /\ Runs /\ pc[t] \in DOMAIN AfterFlush
    /\ \/ PrintFirst /\ UNCHANGED pc
       \/ ~MoreToPrint /\ Goto(t, AfterFlush[pc[t]]) /\ UNCHANGED <<printVars, threadVars>>
    /\ UNCHANGED <<target, startVars, logVars, holder>>

xSemaphoreGive(t) ==
    /\ At(t, "give") \/ At(t, "giveTcp")
    /\ holder' = NoTask
    /\ Goto(t, IF pc[t] = "give" THEN "end" ELSE "idle")
    /\ UNCHANGED <<target, startVars, logVars, printVars, threadVars>>

----------------------------------------------------------------------------
(* The Win32 thread.                                                       *)

ThreadStarts ==
    /\ thread = "created"
    /\ thread' = "wait"
    /\ xDirectPrint' = FALSE
    /\ UNCHANGED <<printVars, corrupt>>

\* The event, which is reset, or a second without it.
ThreadWakes ==
    /\ thread = "wait"
    /\ thread' = "flush"
    /\ event' = FALSE
    /\ UNCHANGED <<stream, output, xDirectPrint, corrupt>>

ThreadFlushes ==
    /\ thread = "flush"
    /\ \/ PrintFirst
       \/ ~MoreToPrint /\ thread' = "wait" /\ UNCHANGED <<printVars, xDirectPrint, corrupt>>

\* The thread does not stop with the tasks.
prvWin32LoggingThread ==
    /\ ~corrupt
    /\ ThreadStarts \/ ThreadWakes \/ ThreadFlushes
    /\ UNCHANGED <<target, startVars, pc, logVars, holder>>

----------------------------------------------------------------------------
(* main.c.                                                                 *)

\* FreeRTOS_IPInit() and vTaskStartScheduler(): main() does not go on.
StartScheduler ==
    /\ At(Main, "idle")
    /\ started' = {Ip}
    /\ UNCHANGED <<target, hook, xTasksAlreadyCreated, networkUps, pc, logVars, holder, printVars, threadVars>>

\* The network comes up: the first time "STARTING DEMO" is logged and the
\* task created, every time the addresses are logged.
vApplicationIPNetworkEventHook ==
    /\ At(Ip, "idle")
    /\ hook = "none"
    /\ networkUps < MaxNetworkUps
    /\ networkUps' = networkUps + 1
    /\ hook' = IF xTasksAlreadyCreated THEN "addresses" ELSE "start"
    /\ BeginLog(Ip, "metadata")
    /\ UNCHANGED <<target, started, xTasksAlreadyCreated, holder, printVars, threadVars>>

\* vStartMQTTAgentDemo(): the task that is created may run at once.
vStartMQTTAgentDemo ==
    /\ At(Ip, "end")
    /\ hook = "start"
    /\ started' = started \cup {Agent}
    /\ hook' = "created"
    /\ UNCHANGED <<target, xTasksAlreadyCreated, networkUps, pc, logVars, holder, printVars, threadVars>>

TasksCreated ==
    /\ At(Ip, "end")
    /\ hook = "created"
    /\ xTasksAlreadyCreated' = TRUE
    /\ hook' = "addresses"
    /\ BeginLog(Ip, "metadata")
    /\ UNCHANGED <<target, started, networkUps, holder, printVars, threadVars>>

EndLog(t) ==
    /\ At(t, "end")
    /\ t # Ip \/ hook \in {"none", "addresses"}
    /\ hook' = IF t = Ip THEN "none" ELSE hook
    /\ Goto(t, "idle")
    /\ UNCHANGED <<target, started, xTasksAlreadyCreated, networkUps, logVars, holder, printVars, threadVars>>

\* vAssertCalled(): after its log the task loops with interrupts disabled.
vAssertCalled(t) ==
    /\ At(t, "end")
    /\ Goto(t, "halted")
    /\ UNCHANGED <<target, startVars, logVars, holder, printVars, threadVars>>

ProgramNext ==
    \/ prvMiscInitialisation \/ StartScheduler
    \/ \E t \in Tasks :
         \/ Log(t) \/ xLoggingPrintMetadata(t) \/ MetadataTimesOut(t) \/ vLoggingPrintf(t)
         \/ TcpLog(t) \/ vTCPLoggingPrintf(t) \/ TcpLogTimesOut(t)
         \/ DirectPrint(t) \/ xSemaphoreGive(t) \/ EndLog(t) \/ vAssertCalled(t)
    \/ prvWin32LoggingThread
    \/ vApplicationIPNetworkEventHook \/ vStartMQTTAgentDemo \/ TasksCreated

ProgramSpec == ProgramInit /\ [][ProgramNext]_programVars

\* Windows schedules the thread, of the lowest priority but on another core.
FairSpec == ProgramSpec /\ WF_programVars(prvWin32LoggingThread)

----------------------------------------------------------------------------
(* Properties.                                                             *)

\* Metadata and message of a log are printed consecutively, as the comment
\* in xLoggingPrintMetadata() has it, unless one of them was dropped:
\* neither another task nor the TCP/IP stack gets in between, on either
\* target, whoever prints.
PrintedTogether ==
    ~corrupt =>
      \A i, j \in DOMAIN output :
        (/\ output[i].log = output[j].log
         /\ output[i].part = "metadata"
         /\ output[j].part = "message") => j = i + 1

\* The texts of log n in the stream buffer.
Waiting(n) == \E i \in DOMAIN stream : stream[i].log = n /\ stream[i].length > 0
Done(n) == corrupt \/ ~Waiting(n)

\* Whatever is put into the stream buffer is printed, the last message
\* before a failed assertion included: the event is never missed for good.
AllPrinted == \A n \in 1..MaxLogs : Waiting(n) ~> Done(n)

\* "From now on, prvLoggingFlushBuffer() will only be called from this
\* Windows thread": nobody reads the stream buffer together with the thread.
OneFlusher == Cardinality(Flushers) <= 1
=============================================================================
