------------------------------- MODULE AppLogger -------------------------------
(***************************************************************************)
(* The event logger of the MK66 firmware: MK66_Firmware/App/App_logger.c.  *)
(*                                                                         *)
(* Any task may call LOG.  Under the semaphore log_sem the caller copies   *)
(* its message twice: into a heap record queued for the file task, and     *)
(* into the ring app_log.  Task_file_log (lowest priority of the tasks     *)
(* that log) drains the queue into AppLog.txt, saves the parameter file    *)
(* when asked to, and logs itself.  AppLogg_monitor_output shows the ring  *)
(* on a terminal without taking the semaphore.                             *)
(*                                                                         *)
(* MQX schedules by fixed priorities with preemption: a task takes a step  *)
(* only when no task of higher priority is ready (CanRun).  A step is one  *)
(* access to shared state, so every preemption point is explicit.  Records *)
(* are represented by the order in which their writers got log_sem.        *)
(***************************************************************************)
EXTENDS Integers, Sequences, FiniteSets

SeqExt == INSTANCE SequencesExt

CONSTANTS
  Writers,              \* tasks that call LOG and stand above the file task
  Mzts,                 \* the writer that also appends sensor ids (MZTS_task)
  FileTask,             \* Task_file_log
  Viewer,               \* the VT100 task inside AppLogg_monitor_output
  Prio,                 \* MQX priority of each task, a lower number runs first
  EVENT_LOG_SIZE,       \* slots of the ring
  FILE_LOG_MSG_CNT,     \* capacity of the queue to the file task
  MaxCalls,             \* bound: LOG calls of the writers
  MaxChanges,           \* bound: sensor ids appended
  MaxViews,             \* bound: sessions of the viewer
  MaxFails              \* bound: failed allocations and file operations

Loggers == Writers \cup {FileTask}
Tasks   == Loggers \cup {Viewer}

ASSUME TaskAssumption ==
  /\ Mzts \in Writers
  /\ FileTask \notin Writers
  /\ Viewer \notin Loggers

ASSUME PrioAssumption ==
  /\ Prio \in [Tasks -> Nat]
  /\ \A t \in Tasks \ {FileTask} : Prio[t] < Prio[FileTask]

ASSUME SizeAssumption ==
  /\ EVENT_LOG_SIZE \in Nat \ {0, 1}
  /\ FILE_LOG_MSG_CNT \in Nat \ {0}
  /\ MaxCalls \in Nat
  /\ MaxChanges \in Nat
  /\ MaxViews \in Nat
  /\ MaxFails \in Nat

VARIABLES
  lpc,        \* where each logging task is inside LOG
  log_sem,    \* value of the access semaphore
  semq,       \* tasks blocked on log_sem, first come first served
  sync_err,   \* calls given up after the timeout, as the code counts them
  tmp,        \* sync_err as loaded by a task about to store it back
  held,       \* heap blocks allocated for the logger and not yet freed
  queue,      \* file_log_queue
  err,        \* the file log's error counters: alloc_err and queue_err
  slot, head, tail, overl_err,      \* app_log and its control block
  rec,        \* number of the record each logging task is writing
  fpc,        \* where Task_file_log is
  cur,        \* the record it holds (plrec)
  tstr,       \* whether its line buffer exists
  pend,       \* pend_params_saving
  params,     \* version of the parameters in RAM
  saved,      \* version in the parameter file, -1 while it is truncated
  fs_ready,   \* g_fs_free_space_val_ready
  vpc, vidx,  \* the viewer and its index into the ring
  \* history, read by no code
  calls, accepted, views, fails, skips,
  raced,      \* skips counted in the middle of the count of another one
  file,       \* records written to AppLog.txt
  unwritten,  \* records taken from the queue that did not get into the file
  dropped,    \* records that never reached the queue
  reported,   \* drops announced in AppLog.txt
  shown,      \* the record at which the viewer's last line begins ...
  ends,       \* ... and the one at which it ends, in this session
  leaked,     \* blocks Save_Params_to_file never gives back
  saveFailed  \* the last save ended with an error

semVars  == <<log_sem, semq>>
skipVars == <<sync_err, tmp, skips, raced>>
recVars  == <<rec, calls, accepted>>
callVars == <<semVars, skipVars, recVars>>
heapVars == <<held, fails>>
sinkVars == <<queue, err, dropped>>
ringVars == <<slot, head, tail, overl_err>>
viewVars == <<vpc, vidx, shown, ends, views>>
logSide  == <<callVars, ringVars, viewVars>>
lineVars == <<cur, tstr, file, unwritten, reported>>
fileVars == <<fpc, lineVars, fs_ready>>
savedVars == <<saved, saveFailed, leaked>>
saveVars == <<pend, params, savedVars>>
fileSide == <<fileVars, saveVars, viewVars>>
bodyVars == <<sinkVars, ringVars, fileSide>>

vars == <<lpc, callVars, heapVars, sinkVars, ringVars, fileSide>>

NoRec == 0
Slots == 0 .. EVENT_LOG_SIZE - 1
Succ(i) == (i + 1) % EVENT_LOG_SIZE
Errors == {"alloc", "queue"}
ReportPc == [alloc |-> "report_alloc", queue |-> "report_queue"]
ResetPc  == [alloc |-> "reset_alloc", queue |-> "reset_queue"]
AfterPc  == [alloc |-> "report_queue", queue |-> "more"]

\* The steps of a call that are made while holding log_sem.
Locked == {"record", "store", "publish", "fixtail", "post"}

Init ==
  /\ lpc = [t \in Loggers |-> "idle"]
  /\ log_sem = 1 /\ semq = <<>>
  /\ sync_err = 0 /\ tmp = [t \in Loggers |-> 0] /\ skips = 0 /\ raced = 0
  /\ rec = [t \in Loggers |-> NoRec] /\ calls = 0 /\ accepted = 0
  /\ held = 0 /\ fails = 0
  /\ queue = <<>> /\ err = [e \in Errors |-> 0] /\ dropped = 0
  /\ slot = [i \in Slots |-> NoRec] /\ head = 0 /\ tail = 0 /\ overl_err = 0
  /\ fpc = "start" /\ cur = NoRec /\ tstr = FALSE
  /\ file = <<>> /\ unwritten = 0 /\ reported = 0 /\ fs_ready = 0
  /\ pend = FALSE /\ params = 0 /\ saved = 0 /\ saveFailed = FALSE /\ leaked = 0
  /\ vpc = "off" /\ vidx = 0 /\ shown = NoRec /\ ends = NoRec /\ views = 0

-------------------------------------------------------------------------------
(* Scheduling.  A ready task of higher priority keeps every other one from  *)
(* running; blocked tasks and tasks outside the logger do not.              *)

Ready(t) ==
  IF t = Viewer THEN vpc \in {"check", "stamp", "text"}
                ELSE lpc[t] \notin {"idle", "blocked"}

CanRun(t) ==
  /\ fpc # "fault"
  /\ \A u \in Tasks \ {t, FileTask} : Prio[u] < Prio[t] => ~Ready(u)

At(t, from) == lpc[t] = from /\ CanRun(t)
Goto(t, to) == lpc' = [lpc EXCEPT ![t] = to]

\* The heap serves the whole firmware: any allocation may find it exhausted.
Failures(n) == fails' = fails + n /\ fails' <= MaxFails

\* A call of LOG, in a step that met n failures and allocated d blocks.  The
\* message is formatted into a heap block; without one LOG does nothing.
EnterLog(t, n, d) ==
  \/ Failures(n) /\ held' = held + d + 1 /\ Goto(t, "wait")
  \/ Failures(n + 1) /\ held' = held + d /\ UNCHANGED lpc

-------------------------------------------------------------------------------
(* LOG, LOG1, LOG2, LOG3, LOGs and _applog_write                            *)

Log(t) ==
  /\ t \in Writers
  /\ At(t, "idle")
  /\ calls < MaxCalls
  /\ calls' = calls + 1
  /\ EnterLog(t, 0, 0)
  /\ UNCHANGED <<semVars, skipVars, rec, accepted, bodyVars>>

\* _lwsem_wait_ticks(&log_sem, 4)
Wait(t) ==
  /\ At(t, "wait")
  /\ IF log_sem > 0
       THEN /\ log_sem' = log_sem - 1
            /\ Goto(t, "record")
            /\ UNCHANGED semq
       ELSE /\ semq' = Append(semq, t)
            /\ Goto(t, "blocked")
            /\ UNCHANGED log_sem
  /\ UNCHANGED <<skipVars, recVars, heapVars, bodyVars>>

\* Faulty: the result of the wait is ignored.
TimeoutIgnored(t) ==
  /\ lpc[t] = "blocked"
  /\ fpc # "fault"
  /\ \E i \in 1 .. Len(semq) : semq[i] = t /\ semq' = SeqExt!RemoveAt(semq, i)
  /\ Goto(t, "record")
  /\ UNCHANGED <<log_sem, skipVars, recVars, heapVars, bodyVars>>

\* Faulty: a task that gave up is still in line for the semaphore.
TimeoutStaysQueued(t) ==
  /\ lpc[t] = "blocked"
  /\ fpc # "fault"
  /\ Goto(t, "skip")
  /\ UNCHANGED <<semVars, skipVars, recVars, heapVars, bodyVars>>

\* The tick interrupt ends the wait of a blocked task, which gives up.
Timeout(t) ==
  /\ lpc[t] = "blocked"
  /\ fpc # "fault"
  /\ \E i \in 1 .. Len(semq) : semq[i] = t /\ semq' = SeqExt!RemoveAt(semq, i)
  /\ Goto(t, "skip")
  /\ UNCHANGED <<log_sem, skipVars, recVars, heapVars, bodyVars>>

\* sync_err++ outside the semaphore: a load, then a store.
Counting == {t \in Loggers : lpc[t] = "skipstore"}

SkipLoad(t) ==
  /\ At(t, "skip")
  /\ tmp' = [tmp EXCEPT ![t] = sync_err]
  /\ skips' = skips + 1
  /\ raced' = IF Counting = {} THEN raced ELSE raced + 1
  /\ Goto(t, "skipstore")
  /\ UNCHANGED <<sync_err, semVars, recVars, heapVars, bodyVars>>

\* Faulty: the skipped call is not counted.
SkipStoreForgotten(t) ==
  /\ At(t, "skipstore")
  /\ tmp' = [tmp EXCEPT ![t] = 0]
  /\ Goto(t, "free")
  /\ UNCHANGED <<sync_err, skips, raced, semVars, recVars, heapVars, bodyVars>>

SkipStore(t) ==
  /\ At(t, "skipstore")
  /\ sync_err' = tmp[t] + 1
  /\ tmp' = [tmp EXCEPT ![t] = 0]
  /\ Goto(t, "free")
  /\ UNCHANGED <<skips, raced, semVars, recVars, heapVars, bodyVars>>

\* _write_log_to_file: the copy for the file task finds no block, finds no
\* place in the queue (and its block is given back), or is queued.
CountError(e) ==
  /\ err' = [err EXCEPT ![e] = @ + 1]
  /\ dropped' = dropped + 1
  /\ UNCHANGED <<held, queue>>

WriteLogToFile(t) ==
  /\ At(t, "record")
  /\ accepted' = accepted + 1
  /\ rec' = [rec EXCEPT ![t] = accepted']
  /\ \/ Failures(1) /\ CountError("alloc")
     \/ Len(queue) = FILE_LOG_MSG_CNT /\ Failures(0) /\ CountError("queue")
     \/ /\ Len(queue) < FILE_LOG_MSG_CNT
        /\ Failures(0)
        /\ held' = held + 1
        /\ queue' = Append(queue, accepted')
        /\ UNCHANGED <<err, dropped>>
  /\ Goto(t, "store")
  /\ UNCHANGED <<semVars, skipVars, calls, ringVars, fileSide>>

\* The copy in the ring, the new head, and the tail when the head caught it.
\* The fields are copied one by one, but nobody reads the slot at the head in
\* between: a viewer below the writer does not run, and one above it stops at
\* a head that does not move while it runs.
Store(t) ==
  /\ At(t, "store")
  /\ slot' = [slot EXCEPT ![head] = rec[t]]
  /\ Goto(t, "publish")
  /\ UNCHANGED <<head, tail, overl_err, callVars, heapVars, sinkVars,
                 fileSide>>

\* Faulty: the head does not wrap.
PublishNoWrap(t) ==
  /\ At(t, "publish")
  /\ head' = head + 1
  /\ Goto(t, "fixtail")
  /\ UNCHANGED <<slot, tail, overl_err, callVars, heapVars, sinkVars,
                 fileSide>>

Publish(t) ==
  /\ At(t, "publish")
  /\ head' = Succ(head)
  /\ Goto(t, "fixtail")
  /\ UNCHANGED <<slot, tail, overl_err, callVars, heapVars, sinkVars,
                 fileSide>>

\* Faulty: the tail is moved one record early.
FixTailEarly(t) ==
  /\ At(t, "fixtail")
  /\ IF Succ(head) = tail
       THEN tail' = Succ(tail) /\ overl_err' = overl_err + 1
       ELSE UNCHANGED <<tail, overl_err>>
  /\ Goto(t, "post")
  /\ UNCHANGED <<slot, head, callVars, heapVars, sinkVars, fileSide>>

FixTail(t) ==
  /\ At(t, "fixtail")
  /\ IF head = tail
       THEN tail' = Succ(tail) /\ overl_err' = overl_err + 1
       ELSE UNCHANGED <<tail, overl_err>>
  /\ Goto(t, "post")
  /\ UNCHANGED <<slot, head, callVars, heapVars, sinkVars, fileSide>>

\* Faulty: the semaphore is counted up and nobody is woken.
PostWakesNobody(t) ==
  /\ At(t, "post")
  /\ log_sem' = log_sem + 1
  /\ Goto(t, "free")
  /\ UNCHANGED <<semq, skipVars, recVars, heapVars, bodyVars>>

\* _lwsem_post(&log_sem): the first waiter gets the semaphore, if there is one.
Post(t) ==
  /\ At(t, "post")
  /\ IF semq = <<>>
       THEN /\ log_sem' = log_sem + 1
            /\ Goto(t, "free")
            /\ UNCHANGED semq
       ELSE /\ semq' = Tail(semq)
            /\ lpc' = [lpc EXCEPT ![t] = "free", ![Head(semq)] = "record"]
            /\ UNCHANGED log_sem
  /\ UNCHANGED <<skipVars, recVars, heapVars, bodyVars>>

\* LOG frees the message block and returns.
Free(t) ==
  /\ At(t, "free")
  /\ held' = held - 1
  /\ rec' = [rec EXCEPT ![t] = NoRec]
  /\ Goto(t, "idle")
  /\ UNCHANGED <<semVars, skipVars, calls, accepted, fails, bodyVars>>

LogStep(t) ==
  \/ Wait(t) \/ SkipLoad(t) \/ SkipStore(t) \/ WriteLogToFile(t)
  \/ Store(t) \/ Publish(t) \/ FixTail(t) \/ Post(t) \/ Free(t)

-------------------------------------------------------------------------------
(* AppLogg_monitor_output                                                   *)

ViewAt(from) == vpc = from /\ CanRun(Viewer)
otherThanView ==
  <<lpc, callVars, heapVars, sinkVars, ringVars, fileVars, saveVars>>

\* The index starts at the tail.
OpenView ==
  /\ ViewAt("off") /\ views < MaxViews
  /\ views' = views + 1 /\ vpc' = "poll" /\ vidx' = tail
  /\ UNCHANGED <<shown, ends, otherThanView>>

\* WAIT_CHAR(&b, 10): a key leaves the view, the timeout shows what is new.
Poll ==
  /\ ViewAt("poll")
  /\ \/ vpc' = "check" /\ UNCHANGED <<vidx, shown, ends>>
     \/ vpc' = "off" /\ vidx' = 0 /\ shown' = NoRec /\ ends' = NoRec
  /\ UNCHANGED <<views, otherThanView>>

\* Faulty: the index is not compared with the head.
CheckHeadMissing ==
  /\ ViewAt("check")
  /\ vpc' = "stamp"
  /\ UNCHANGED <<vidx, shown, ends, views, otherThanView>>

CheckHead ==
  /\ ViewAt("check")
  /\ vpc' = IF vidx # head THEN "stamp" ELSE "poll"
  /\ UNCHANGED <<vidx, shown, ends, views, otherThanView>>

\* The line is formatted from the slot itself, field after field, and a writer
\* above the viewer may come in between: the first access (the line number) and
\* the last one.  The others see a record between these two.
ReadStamp ==
  /\ ViewAt("stamp")
  /\ shown' = slot[vidx] /\ vpc' = "text"
  /\ UNCHANGED <<vidx, ends, views, otherThanView>>

\* Then the task blocks until the terminal took the line.
ReadText ==
  /\ ViewAt("text")
  /\ ends' = slot[vidx] /\ vidx' = Succ(vidx) /\ vpc' = "output"
  /\ UNCHANGED <<shown, views, otherThanView>>

OutputDone ==
  /\ ViewAt("output")
  /\ vpc' = "check"
  /\ UNCHANGED <<vidx, shown, ends, views, otherThanView>>

ViewStep == CheckHead \/ ReadStamp \/ ReadText \/ OutputDone

-------------------------------------------------------------------------------
(* Task_file_log.  Its own LOG calls run to completion before it goes on.   *)

FileAt(from) == fpc = from /\ lpc[FileTask] = "idle" /\ CanRun(FileTask)
FileGoto(to) == fpc' = to

\* The line buffer.  Without it the task logs "Task stopped." and goes on.
FileStart ==
  /\ FileAt("start")
  /\ \/ Failures(0) /\ held' = held + 1 /\ tstr' = TRUE /\ UNCHANGED lpc
     \/ EnterLog(FileTask, 1, 0) /\ UNCHANGED tstr
  /\ FileGoto("recv")
  /\ UNCHANGED <<cur, file, unwritten, reported, fs_ready, logSide, sinkVars, saveVars>>

\* The first receive blocks for up to two ticks, the second one does not.
Dequeue == queue # <<>> /\ cur' = Head(queue) /\ queue' = Tail(queue)

\* Faulty: the wait for a record has no timeout.
ReceiveForEver ==
  /\ FileAt("recv")
  /\ Dequeue /\ FileGoto("open")
  /\ UNCHANGED <<lpc, heapVars, err, dropped, tstr, file, unwritten, reported,
                 fs_ready, logSide, saveVars>>

Receive ==
  /\ FileAt("recv")
  /\ \/ Dequeue /\ FileGoto("open")
     \/ queue = <<>> /\ FileGoto("idle") /\ UNCHANGED <<cur, queue>>
  /\ UNCHANGED <<lpc, heapVars, err, dropped, tstr, file, unwritten, reported,
                 fs_ready, logSide, saveVars>>

More ==
  /\ FileAt("more")
  /\ \/ Dequeue /\ FileGoto("write")
     \/ queue = <<>> /\ FileGoto("recv") /\ UNCHANGED <<cur, queue>>
  /\ UNCHANGED <<lpc, heapVars, err, dropped, tstr, file, unwritten, reported,
                 fs_ready, logSide, saveVars>>

\* Faulty: after a failed open the record is not freed.
OpenLeaks ==
  /\ FileAt("open")
  /\ \/ FileGoto("write") /\ UNCHANGED <<lpc, heapVars, cur, unwritten>>
     \/ /\ FileGoto("dead") /\ EnterLog(FileTask, 1, 0)
        /\ cur' = NoRec /\ unwritten' = unwritten + 1
  /\ UNCHANGED <<tstr, file, reported, fs_ready, logSide, sinkVars, saveVars>>

\* _io_fopen; when it fails the task logs that, frees the record and ends.
Open ==
  /\ FileAt("open")
  /\ \/ FileGoto("write") /\ UNCHANGED <<lpc, heapVars, cur, unwritten>>
     \/ /\ FileGoto("dead") /\ EnterLog(FileTask, 1, -1)
        /\ cur' = NoRec /\ unwritten' = unwritten + 1
  /\ UNCHANGED <<tstr, file, reported, fs_ready, logSide, sinkVars, saveVars>>

\* Faulty: a record that could not be written is kept for another attempt,
\* and the next one received takes its place.
WriteKeeps ==
  /\ FileAt("write")
  /\ tstr
  /\ FileGoto("report_alloc")
  /\ \/ /\ Failures(0) /\ file' = Append(file, cur)
        /\ cur' = NoRec /\ held' = held - 1
     \/ Failures(1) /\ UNCHANGED <<file, cur, held>>
  /\ UNCHANGED <<lpc, tstr, unwritten, reported, fs_ready, logSide, sinkVars,
                 saveVars>>

\* One record is written in three pieces and freed, whatever _io_write returns:
\* one that fails is lost, and nothing counts it.  snprintf into a missing
\* buffer faults.
Write ==
  /\ FileAt("write")
  /\ \/ /\ tstr
        /\ FileGoto("report_alloc")
        /\ \/ Failures(0) /\ file' = Append(file, cur) /\ UNCHANGED unwritten
           \/ Failures(1) /\ unwritten' = unwritten + 1 /\ UNCHANGED file
        /\ cur' = NoRec /\ held' = held - 1
     \/ /\ ~tstr
        /\ FileGoto("fault")
        /\ UNCHANGED <<file, unwritten, cur, heapVars>>
  /\ UNCHANGED <<lpc, tstr, reported, fs_ready, logSide, sinkVars, saveVars>>

\* A non-zero error counter is printed, as far as the card takes it, then
\* cleared, whatever a writer added to it in between.
Report(e) ==
  /\ FileAt(ReportPc[e])
  /\ \/ /\ err[e] # 0
        /\ FileGoto(ResetPc[e])
        /\ \/ Failures(0) /\ reported' = reported + err[e]
           \/ Failures(1) /\ UNCHANGED reported
     \/ /\ err[e] = 0
        /\ FileGoto(AfterPc[e])
        /\ UNCHANGED <<reported, fails>>
  /\ UNCHANGED <<lpc, held, cur, tstr, file, unwritten, fs_ready, logSide,
                 sinkVars, saveVars>>

\* Faulty: the counter is not cleared.
ResetForgotten(e) ==
  /\ FileAt(ResetPc[e])
  /\ FileGoto(AfterPc[e])
  /\ UNCHANGED <<lpc, heapVars, sinkVars, lineVars, fs_ready, logSide,
                 saveVars>>

Reset(e) ==
  /\ FileAt(ResetPc[e])
  /\ err' = [err EXCEPT ![e] = 0]
  /\ FileGoto(AfterPc[e])
  /\ UNCHANGED <<lpc, heapVars, queue, dropped, lineVars, fs_ready, logSide,
                 saveVars>>

\* Nothing to write: take up a pending request to save the parameters ...
IdleBranch ==
  /\ FileAt("idle")
  /\ FileGoto(IF pend THEN "save" ELSE "space")
  /\ pend' = FALSE
  /\ UNCHANGED <<lpc, heapVars, params, savedVars, lineVars, fs_ready,
                 logSide, sinkVars>>

\* Faulty: the task waits for the free space to be measured.
FreeSpaceWaits ==
  /\ FileAt("space")
  /\ FileGoto("recv")
  /\ fs_ready = 1 /\ fs_ready' = 2 /\ EnterLog(FileTask, 0, 0)
  /\ UNCHANGED <<lineVars, logSide, sinkVars, saveVars>>

\* ... and log the free space of the card once it has been measured.
FreeSpace ==
  /\ FileAt("space")
  /\ FileGoto("recv")
  /\ \/ fs_ready = 1 /\ fs_ready' = 2 /\ EnterLog(FileTask, 0, 0)
     \/ fs_ready # 1 /\ UNCHANGED <<fs_ready, lpc, heapVars>>
  /\ UNCHANGED <<lineVars, logSide, sinkVars, saveVars>>

-------------------------------------------------------------------------------
(* Save_Params_to_file, called by the file task                             *)

\* Two buffers; when there is none for the second one, the first one is never
\* freed.
SaveAlloc ==
  /\ FileAt("save")
  /\ \/ /\ FileGoto("save_open")
        /\ Failures(0) /\ held' = held + 2
        /\ UNCHANGED <<lpc, saveFailed, leaked>>
     \/ /\ FileGoto("space") /\ saveFailed' = TRUE
        /\ \/ EnterLog(FileTask, 1, 0) /\ UNCHANGED leaked
           \/ EnterLog(FileTask, 1, 1) /\ leaked' = leaked + 1
  /\ UNCHANGED <<pend, params, saved, lineVars, fs_ready, logSide, sinkVars>>

\* Opening with "w+" empties the file.  On failure only one buffer is freed.
SaveOpen ==
  /\ FileAt("save_open")
  /\ \/ /\ FileGoto("save_write") /\ saved' = -1
        /\ UNCHANGED <<lpc, heapVars, saveFailed, leaked>>
     \/ /\ FileGoto("space") /\ saveFailed' = TRUE /\ leaked' = leaked + 1
        /\ EnterLog(FileTask, 1, -1)
        /\ UNCHANGED saved
  /\ UNCHANGED <<pend, params, lineVars, fs_ready, logSide, sinkVars>>

\* The parameters are formatted and written one after the other; a short write
\* leaves the file incomplete and is logged.
SaveWrite ==
  /\ FileAt("save_write")
  /\ \/ /\ FileGoto("save_close")
        /\ saved' = params /\ saveFailed' = FALSE
        /\ UNCHANGED <<lpc, heapVars>>
     \/ /\ FileGoto("save_abort")
        /\ saveFailed' = TRUE /\ UNCHANGED saved
        /\ EnterLog(FileTask, 1, 0)
  /\ UNCHANGED <<pend, params, leaked, lineVars, fs_ready, logSide, sinkVars>>

\* Faulty: the request is cleared after the save instead of before it.
SaveCloseClears ==
  /\ \/ FileAt("save_close") /\ EnterLog(FileTask, 0, -2)
     \/ /\ FileAt("save_abort")
        /\ Failures(0) /\ held' = held - 2 /\ UNCHANGED lpc
  /\ FileGoto("space")
  /\ pend' = FALSE
  /\ UNCHANGED <<params, savedVars, lineVars, fs_ready, logSide, sinkVars>>

\* The file is closed and both buffers are freed; success is logged.
SaveClose ==
  /\ \/ FileAt("save_close") /\ EnterLog(FileTask, 0, -2)
     \/ /\ FileAt("save_abort")
        /\ Failures(0) /\ held' = held - 2 /\ UNCHANGED lpc
  /\ FileGoto("space")
  /\ UNCHANGED <<saveVars, lineVars, fs_ready, logSide, sinkVars>>

FileStep ==
  \/ FileStart \/ Receive \/ More \/ Open \/ Write
  \/ \E e \in Errors : Report(e) \/ Reset(e)
  \/ IdleBranch \/ FreeSpace
  \/ SaveAlloc \/ SaveOpen \/ SaveWrite \/ SaveClose

-------------------------------------------------------------------------------
(* The rest of the firmware, as far as it asks the logger for something     *)

\* Append_new_sensors_id: a sensor id is copied, then the save requested.
ChangeParams ==
  /\ At(Mzts, "idle")
  /\ params < MaxChanges
  /\ params' = params + 1
  /\ Goto(Mzts, "request")
  /\ UNCHANGED <<pend, savedVars, heapVars, fileVars, logSide, sinkVars>>

\* AppLog_pend_saving_params
RequestSave ==
  /\ At(Mzts, "request")
  /\ pend' = TRUE
  /\ Goto(Mzts, "idle")
  /\ UNCHANGED <<params, savedVars, heapVars, fileVars, logSide, sinkVars>>

\* The background task, lowest of all, has measured the free space of the card.
SpaceMeasured ==
  /\ fs_ready = 0 /\ fs_ready' = 1
  /\ \A t \in Tasks : ~Ready(t)
  /\ fpc \in {"recv", "dead"} /\ queue = <<>>
  /\ UNCHANGED <<lpc, fpc, heapVars, lineVars, logSide, sinkVars, saveVars>>

-------------------------------------------------------------------------------
Next ==
  \/ \E t \in Loggers : Log(t) \/ LogStep(t) \/ Timeout(t)
  \/ OpenView \/ Poll \/ ViewStep
  \/ FileStep
  \/ ChangeParams \/ RequestSave \/ SpaceMeasured

Spec == Init /\ [][Next]_vars

(* The scheduler runs a ready task that nothing of higher priority keeps    *)
(* out.  Nothing is assumed of timeouts, of new calls or of the terminal.   *)
FairSpec ==
  /\ Spec
  /\ \A t \in Loggers : WF_vars(LogStep(t))
  /\ WF_vars(ViewStep)
  /\ WF_vars(RequestSave)
  /\ WF_vars(FileStep)
===============================================================================
