---------------------------- MODULE AppLoggerProps ----------------------------
(***************************************************************************)
(* What the event logger must guarantee, and its refinement of EventLog.   *)
(***************************************************************************)
EXTENDS AppLogger

(* Type correctness of the logger's own state.                             *)
LogPcs  == {"idle", "wait", "blocked", "skip", "skipstore", "free", "request"}
           \cup Locked
FilePcs == {"start", "recv", "open", "write", "report_alloc", "reset_alloc",
            "report_queue", "reset_queue", "more", "idle", "space", "save",
            "save_open", "save_write", "save_close", "save_abort", "dead",
            "fault"}

CallTypes ==
  /\ lpc \in [Loggers -> LogPcs]
  /\ log_sem \in Nat
  /\ semq \in Seq(Loggers)
  /\ sync_err \in Nat /\ tmp \in [Loggers -> Nat] /\ skips \in Nat
  /\ raced \in Nat
  /\ rec \in [Loggers -> Nat] /\ calls \in Nat /\ accepted \in Nat

QueueTypes ==
  /\ held \in Int /\ fails \in Nat
  /\ queue \in Seq(Nat)
  /\ err \in [Errors -> Nat] /\ dropped \in Nat

RingTypes ==
  /\ slot \in [Slots -> Nat] /\ head \in Slots /\ tail \in Slots
  /\ overl_err \in Nat
  /\ vpc \in {"off", "poll", "check", "stamp", "text", "output"}
  /\ vidx \in Slots /\ shown \in Nat /\ ends \in Nat /\ views \in Nat

FileTypes ==
  /\ fpc \in FilePcs /\ cur \in Nat /\ tstr \in BOOLEAN
  /\ file \in Seq(Nat) /\ unwritten \in Nat /\ reported \in Nat
  /\ fs_ready \in 0 .. 2

SaveTypes ==
  /\ pend \in BOOLEAN /\ params \in Nat /\ saved \in Nat \cup {-1}
  /\ saveFailed \in BOOLEAN /\ leaked \in Nat

TypeOK == CallTypes /\ QueueTypes /\ RingTypes /\ FileTypes /\ SaveTypes

(* log_sem lets one task at a time write the ring, the queue's error        *)
(* counters and the tail (App_logger.c:110, 148).                           *)
MutualExclusion ==
  \A t, u \in Loggers : lpc[t] \in Locked /\ lpc[u] \in Locked => t = u

(* The semaphore never goes astray: it is free or held once, it is never    *)
(* free while a task waits for it, and its queue holds each waiting task    *)
(* exactly once, however posts, timeouts and new calls interleave           *)
(* (App_logger.c:110, 148, 152).                                            *)
SemaphoreSound ==
  /\ log_sem \in {0, 1}
  /\ log_sem = 1 => \A t \in Loggers : lpc[t] \notin Locked \cup {"blocked"}
  /\ \A t \in Loggers : lpc[t] = "blocked" <=> SeqExt!Contains(semq, t)
  /\ SeqExt!IsInjective(semq)

(* Every block the logger allocated is in exactly one place: a message      *)
(* being logged, a record queued or being written, the file task's line     *)
(* buffer, a buffer of the save under way, or one Save_Params_to_file       *)
(* leaked.  Nothing is freed twice or forgotten on any of the error paths   *)
(* of App_logger.c.                                                         *)
HoldsMessage == {t \in Loggers : lpc[t] \notin {"idle", "request"}}
SaveBuffers  ==
  IF fpc \in {"save_open", "save_write", "save_close", "save_abort"} THEN 2 ELSE 0

HeapAccounted ==
  held = Cardinality(HoldsMessage) + Len(queue)
         + (IF cur # NoRec THEN 1 ELSE 0) + (IF tstr THEN 1 ELSE 0)
         + SaveBuffers + leaked

(* The way of a record to the file: what was written, is being written and  *)
(* is queued are the accepted records in the order of acceptance, and each  *)
(* gap is a drop that an error counter saw or a record that the card did    *)
(* not take: the code ignores what _io_write returns and frees the record   *)
(* all the same (App_logger.c:550-555), and there are no more of these than *)
(* failures of the card.  No record is lost otherwise, none is duplicated   *)
(* or reordered.                                                            *)
InHand == IF cur = NoRec THEN <<>> ELSE <<cur>>
Pipeline == file \o InHand \o queue

FileOrder ==
  /\ \A i, j \in 1 .. Len(Pipeline) : i < j => Pipeline[i] < Pipeline[j]
  /\ accepted = Len(Pipeline) + dropped + unwritten
  /\ unwritten <= fails

(* The drops announced in AppLog.txt and the ones still to be announced     *)
(* never exceed the drops that happened: a counter cleared while a writer   *)
(* adds to it may lose counts, but never invents any (App_logger.c:557-577).*)
ReportsAreDrops ==
  LET pending == (IF fpc = "reset_alloc" THEN 0 ELSE err["alloc"])
                 + (IF fpc = "reset_queue" THEN 0 ELSE err["queue"])
  IN reported + pending <= dropped

(* The "Skipped n." shown to the user is never above the calls that gave up *)
(* on log_sem, and once no task is counting it misses exactly those that    *)
(* were counted in the middle of another's load and store                   *)
(* (App_logger.c:152 increments sync_err outside the semaphore).            *)
SkipsCounted ==
  /\ sync_err <= skips
  /\ Counting = {} => sync_err = skips - raced

(* A request to save the parameters is never lost, whatever is changed      *)
(* while a save is running: when nothing is pending or under way, the file  *)
(* holds the parameters in RAM, unless a save failed (App_logger.c:587-591, *)
(* MZTS_task.c:152-153).                                                    *)
Saving == {"save", "save_open", "save_write"}
SaveNotLost ==
  \/ pend
  \/ lpc[Mzts] = "request"
  \/ fpc \in Saving \cup {"fault"}
  \/ saveFailed
  \/ saved = params

-------------------------------------------------------------------------------
(* The ring implements EventLog.  Publishing the head is the moment a record *)
(* enters the log; until the tail is moved as well, a full ring looks empty, *)
(* and the oldest record counts as forgotten already.                        *)

Unpublished == {t \in Loggers : lpc[t] \in {"store", "publish"}}
Overrun     == head = tail /\ \E t \in Loggers : lpc[t] = "fixtail"
Oldest      == IF Overrun THEN Succ(tail) ELSE tail
Used        == (head - Oldest + EVENT_LOG_SIZE) % EVENT_LOG_SIZE

Published == accepted - Cardinality(Unpublished)
Kept      == [i \in 1 .. Used |-> slot[(Oldest + i - 1) % EVENT_LOG_SIZE]]
Forgotten == overl_err + (IF Overrun THEN 1 ELSE 0)

Ring == INSTANCE EventLog WITH
  Capacity  <- EVENT_LOG_SIZE - 1,
  count     <- Published,
  kept      <- Kept,
  forgotten <- Forgotten

(* The ring, its indices and the overflow counter behave as the log of the  *)
(* most recent records, in order of acceptance (App_logger.c:115-134).      *)
RefinesEventLog == Ring!Spec

(* The viewer reads the ring without the semaphore, field after field, yet  *)
(* within a session it never goes back in time and never shows a slot       *)
(* nobody has written: every line begins with a newer record than the one   *)
(* before ended with.  A line may mix two records, if a writer comes in     *)
(* between: then it ends with the newer one, and the other has already been *)
(* forgotten and counted in overl_err (App_logger.c:467-499).               *)
ViewerGoesForward ==
  [][/\ vpc = "stamp" /\ vpc' = "text" => shown' > ends
     /\ vpc = "text" /\ vpc' = "output" =>
          ends' = shown \/ (ends' > shown /\ shown <= Forgotten)]_vars

-------------------------------------------------------------------------------
(* Every LOG call returns, and the semaphore reaches each waiter: no task   *)
(* that the scheduler runs stays inside the logger for ever.                *)
CallsReturn ==
  \A t \in Loggers : lpc[t] # "idle" ~> (lpc[t] = "idle" \/ fpc = "fault")

(* A queued record is taken from the queue as long as the file task lives.  *)
QueueDrained == (queue # <<>>) ~> (queue = <<>> \/ fpc \in {"dead", "fault"})

(* A requested save is carried out, or fails and is logged, as long as the  *)
(* file task lives and once the firmware has nothing more to log: the task  *)
(* saves only when two ticks pass without a record (App_logger.c:535, 587), *)
(* and nothing bounds the wait while records keep coming.                   *)
FallsSilent == <>[](queue = <<>>)
SaveServed  == FallsSilent => (pend ~> (~pend \/ fpc \in {"dead", "fault"}))
===============================================================================
