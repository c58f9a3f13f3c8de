---------------------------- MODULE AppLogger_proofs ----------------------------
(***************************************************************************)
(* Proofs about the event logger, for any number of writers, any sizes of  *)
(* ring and queue, and any priorities: its type correctness, its           *)
(* semaphore (sound, exclusive, never astray, first come first served),    *)
(* the absence of deadlock, the announced drops and the requested save.    *)
(***************************************************************************)
EXTENDS AppLoggerProps, SequenceTheorems, WellFoundedInduction, TLAPS

-------------------------------------------------------------------------------
(* Taking a task that gave up out of the semaphore's queue                  *)

(* What RemoveAt returns: a sequence one shorter, the later elements moved  *)
(* up by one.                                                               *)
LEMMA RemoveAtProperties ==
  ASSUME NEW S, NEW s \in Seq(S), NEW i \in 1 .. Len(s)
  PROVE  /\ SeqExt!RemoveAt(s, i) \in Seq(S)
         /\ Len(SeqExt!RemoveAt(s, i)) = Len(s) - 1
         /\ \A j \in 1 .. Len(s) - 1 :
              SeqExt!RemoveAt(s, i)[j] = IF j < i THEN s[j] ELSE s[j + 1]
  <1> DEFINE front == SubSeq(s, 1, i - 1)
             back  == SubSeq(s, i + 1, Len(s))
  <1>0. Len(s) \in Nat /\ i \in Int /\ 1 <= i /\ i <= Len(s)
    BY LenProperties
  <1>1. /\ front \in Seq(S) /\ Len(front) = i - 1
        /\ \A j \in 1 .. i - 1 : front[j] = s[j]
    <2>1. \A j \in 1 .. i - 1 : s[j] \in S
      BY <1>0, ElementOfSeq
    <2>2. QED
      BY <1>0, <2>1, SubSeqProperties, SMT
  <1>2. /\ back \in Seq(S) /\ Len(back) = Len(s) - i
        /\ \A j \in 1 .. Len(s) - i : back[j] = s[i + j]
    <2>1. \A j \in i + 1 .. Len(s) : s[j] \in S
      BY <1>0, ElementOfSeq
    <2>2. QED
      BY <1>0, <2>1, SubSeqProperties, SMT
  <1>3. SeqExt!RemoveAt(s, i) = front \o back
    BY DEF SeqExt!RemoveAt
  <1> HIDE DEF front, back
  <1>4. /\ front \o back \in Seq(S)
        /\ Len(front \o back) = Len(front) + Len(back)
        /\ \A j \in 1 .. Len(front) + Len(back) : (front \o back)[j] =
             IF j <= Len(front) THEN front[j] ELSE back[j - Len(front)]
    BY <1>1, <1>2, ConcatProperties
  <1>5. QED
    BY <1>0, <1>1, <1>2, <1>3, <1>4

-------------------------------------------------------------------------------
(* Queues of distinct tasks                                                 *)

(* Joining a queue at its end.                                              *)
LEMMA JoinQueue ==
  ASSUME NEW S, NEW s \in Seq(S), NEW e \in S
  PROVE  /\ \A u \in S : SeqExt!Contains(Append(s, e), u)
                           <=> u = e \/ SeqExt!Contains(s, u)
         /\ SeqExt!IsInjective(s) /\ ~SeqExt!Contains(s, e)
              => SeqExt!IsInjective(Append(s, e))
  <1> DEFINE r == Append(s, e)
             n == Len(s)
  <1>1. /\ n \in Nat /\ Len(r) = n + 1 /\ r[n + 1] = e
        /\ DOMAIN s = 1 .. n /\ DOMAIN r = 1 .. n + 1
        /\ \A i \in 1 .. n : r[i] = s[i]
    BY AppendProperties, LenProperties
  <1> HIDE DEF r, n
  <1>2. \A u \in S : SeqExt!Contains(r, u)
                       <=> u = e \/ \E i \in 1 .. n : s[i] = u
    BY <1>1 DEF SeqExt!Contains
  <1>3. (\A i, j \in 1 .. n : s[i] = s[j] => i = j)
        /\ (\A i \in 1 .. n : s[i] # e) => SeqExt!IsInjective(r)
    BY <1>1 DEF SeqExt!IsInjective
  <1> QED
    BY <1>1, <1>2, <1>3 DEF r, n, SeqExt!Contains, SeqExt!IsInjective

(* Leaving a queue of distinct tasks from any place.                        *)
LEMMA LeaveQueue ==
  ASSUME NEW S, NEW s \in Seq(S), NEW k \in 1 .. Len(s),
         SeqExt!IsInjective(s)
  PROVE  /\ \A u \in S : SeqExt!Contains(SeqExt!RemoveAt(s, k), u)
                           <=> u # s[k] /\ SeqExt!Contains(s, u)
         /\ SeqExt!IsInjective(SeqExt!RemoveAt(s, k))
  <1> DEFINE r == SeqExt!RemoveAt(s, k)
             n == Len(s)
             from(i) == IF i < k THEN i ELSE i + 1
  <1>1. /\ n \in Nat /\ k \in 1 .. n /\ Len(r) = n - 1
        /\ DOMAIN s = 1 .. n /\ DOMAIN r = 1 .. n - 1
        /\ \A i \in 1 .. n - 1 : r[i] = s[from(i)]
    BY RemoveAtProperties, LenProperties
  <1>2. \A i, j \in 1 .. n : s[i] = s[j] => i = j
    BY <1>1 DEF SeqExt!IsInjective
  <1> HIDE DEF r, n
  <1>3. SeqExt!IsInjective(r)
    <2> SUFFICES ASSUME NEW i \in 1 .. n - 1, NEW j \in 1 .. n - 1, r[i] = r[j]
                 PROVE  i = j
      BY <1>1 DEF SeqExt!IsInjective
    <2>1. from(i) \in 1 .. n /\ from(j) \in 1 .. n
      BY <1>1
    <2>2. from(i) = from(j)
      <3> HIDE DEF from
      <3> QED
        BY <1>1, <1>2, <2>1
    <2> QED
      BY <1>1, <2>2
  <1>4. ASSUME NEW u \in S, NEW i \in 1 .. n, s[i] = u, u # s[k]
        PROVE  SeqExt!Contains(r, u)
    <2>1. CASE i < k
      BY <1>1, <1>4, <2>1 DEF SeqExt!Contains
    <2>2. CASE i > k
      <3>1. i - 1 \in 1 .. n - 1 /\ r[i - 1] = s[i]
        BY <1>1, <2>2
      <3> QED
        BY <1>1, <1>4, <3>1 DEF SeqExt!Contains
    <2> QED
      BY <1>1, <1>4, <2>1, <2>2
  <1>5. ASSUME NEW u \in S, NEW i \in 1 .. n - 1, r[i] = u
        PROVE  u # s[k] /\ \E j \in 1 .. n : s[j] = u
    BY <1>1, <1>2, <1>5
  <1> QED
    BY <1>1, <1>3, <1>4, <1>5 DEF r, n, SeqExt!Contains

(* Taking the first task of such a queue.                                   *)
LEMMA TakeFirst ==
  ASSUME NEW S, NEW s \in Seq(S), s # <<>>, SeqExt!IsInjective(s)
  PROVE  /\ Head(s) \in S /\ SeqExt!Contains(s, Head(s))
         /\ \A u \in S : SeqExt!Contains(Tail(s), u)
                           <=> u # Head(s) /\ SeqExt!Contains(s, u)
         /\ SeqExt!IsInjective(Tail(s))
  <1> DEFINE r == Tail(s)
             n == Len(s)
  <1>1. /\ n \in Nat /\ n >= 1 /\ Len(r) = n - 1
        /\ DOMAIN s = 1 .. n /\ DOMAIN r = 1 .. n - 1
        /\ Head(s) = s[1] /\ Head(s) \in S
        /\ \A i \in 1 .. n - 1 : r[i] = s[i + 1]
    BY HeadTailProperties, LenProperties, EmptySeq, ElementOfSeq
  <1>2. \A i, j \in 1 .. n : s[i] = s[j] => i = j
    BY <1>1 DEF SeqExt!IsInjective
  <1> HIDE DEF r, n
  <1>3. SeqExt!IsInjective(r)
    BY <1>1, <1>2 DEF SeqExt!IsInjective
  <1>4. ASSUME NEW u \in S, NEW i \in 1 .. n, s[i] = u, u # s[1]
        PROVE  SeqExt!Contains(r, u)
    <2>1. i - 1 \in 1 .. n - 1 /\ r[i - 1] = s[i]
      BY <1>1, <1>4
    <2> QED
      BY <1>1, <1>4, <2>1 DEF SeqExt!Contains
  <1>5. ASSUME NEW u \in S, NEW i \in 1 .. n - 1, r[i] = u
        PROVE  u # s[1] /\ \E j \in 1 .. n : s[j] = u
    BY <1>1, <1>2, <1>5
  <1>6. SeqExt!Contains(s, Head(s))
    BY <1>1 DEF n, SeqExt!Contains
  <1> QED
    BY <1>1, <1>3, <1>4, <1>5, <1>6 DEF r, n, SeqExt!Contains

-------------------------------------------------------------------------------
(* Frames: which part of the state each kind of step leaves alone           *)

(* A step of LOG touches neither the file task, nor the save, nor the       *)
(* viewer.                                                                  *)
LEMMA LogFrame ==
  ASSUME NEW t, Log(t) \/ LogStep(t) \/ Timeout(t)
  PROVE  UNCHANGED fileSide
  BY DEF LogStep, Log, Wait, Timeout, SkipLoad, SkipStore, WriteLogToFile,
     Store, Publish, FixTail, Post, Free, bodyVars

(* A step of the viewer touches nothing else.                               *)
LEMMA ViewFrame ==
  ASSUME OpenView \/ Poll \/ ViewStep
  PROVE  UNCHANGED otherThanView
  BY DEF OpenView, Poll, ViewStep, CheckHead, ReadStamp, ReadText, OutputDone

(* A step of the file task leaves the semaphore, the ring and the viewer    *)
(* alone; of the calls, it can only begin its own.                          *)
LEMMA FileFrame ==
  ASSUME FileStep
  PROVE  /\ UNCHANGED logSide
         /\ \/ UNCHANGED lpc
            \/ lpc[FileTask] = "idle" /\ Goto(FileTask, "wait")
  <1>1. CASE FileStart
    BY <1>1 DEF FileStart, FileAt, EnterLog
  <1>2. CASE Receive \/ More \/ Write \/ IdleBranch
             \/ \E e \in Errors : Report(e) \/ Reset(e)
    BY <1>2 DEF Receive, More, Write, IdleBranch, Report, Reset
  <1>3. CASE Open \/ FreeSpace
    BY <1>3 DEF Open, FreeSpace, FileAt, EnterLog
  <1>4. CASE SaveAlloc \/ SaveOpen \/ SaveWrite \/ SaveClose
    BY <1>4 DEF SaveAlloc, SaveOpen, SaveWrite, SaveClose, FileAt, EnterLog
  <1> QED
    BY <1>1, <1>2, <1>3, <1>4 DEF FileStep

(* The steps of the rest of the firmware.                                   *)
LEMMA OtherFrame ==
  ASSUME ChangeParams \/ RequestSave \/ SpaceMeasured
  PROVE  UNCHANGED <<heapVars, lineVars, fpc, savedVars, logSide, sinkVars>>
  BY DEF ChangeParams, RequestSave, SpaceMeasured, fileVars, saveVars

-------------------------------------------------------------------------------
(* Type correctness                                                         *)

(* What entering LOG does to the heap.                                      *)
LEMMA EnterLogHeap ==
  ASSUME NEW t, NEW n \in Nat, NEW d \in Int, QueueTypes, EnterLog(t, n, d)
  PROVE  held' \in Int /\ fails' \in Nat
  BY DEF EnterLog, Failures, QueueTypes

(* The tasks inside LOG, the semaphore and the skip counter.                *)
LEMMA LogCallTypes ==
  ASSUME TypeOK, NEW t \in Loggers, Log(t) \/ LogStep(t) \/ Timeout(t)
  PROVE  CallTypes'
  <1> USE DEF TypeOK, CallTypes
  <1> USE DEF At, Goto, LogPcs, Locked, callVars, semVars, skipVars, recVars
  <1>1. CASE Log(t)
    <2>1. lpc' \in [Loggers -> LogPcs]
      BY <1>1 DEF Log, EnterLog
    <2>2. calls' \in Nat /\ UNCHANGED <<semVars, skipVars, rec, accepted>>
      BY <1>1 DEF Log
    <2> QED
      BY <2>1, <2>2
  <1>2. CASE Wait(t)
    <2>1. lpc' \in [Loggers -> LogPcs]
      BY <1>2 DEF Wait
    <2>2. log_sem' \in Nat
      BY <1>2 DEF Wait
    <2>3. semq' \in Seq(Loggers)
      <3>1. Append(semq, t) \in Seq(Loggers)
        BY AppendProperties
      <3> QED
        BY <1>2, <3>1 DEF Wait
    <2>4. UNCHANGED <<skipVars, recVars>>
      BY <1>2 DEF Wait
    <2> QED
      BY <2>1, <2>2, <2>3, <2>4
  <1>3. CASE Timeout(t)
    <2>1. lpc' \in [Loggers -> LogPcs]
      BY <1>3 DEF Timeout
    <2>2. semq' \in Seq(Loggers)
      BY <1>3, RemoveAtProperties DEF Timeout
    <2>3. UNCHANGED <<log_sem, skipVars, recVars>>
      BY <1>3 DEF Timeout
    <2> QED
      BY <2>1, <2>2, <2>3
  <1>4. CASE SkipLoad(t) \/ SkipStore(t)
    <2>1. lpc' \in [Loggers -> LogPcs]
      BY <1>4 DEF SkipLoad, SkipStore
    <2>2. tmp' \in [Loggers -> Nat] /\ sync_err' \in Nat
      <3>1. CASE SkipLoad(t)
        BY <3>1 DEF SkipLoad
      <3>2. CASE SkipStore(t)
        <4>1. tmp[t] + 1 \in Nat
          OBVIOUS
        <4> QED
          BY <3>2, <4>1 DEF SkipStore
      <3> QED
        BY <1>4, <3>1, <3>2
    <2>3. skips' \in Nat /\ raced' \in Nat
      BY <1>4 DEF SkipLoad, SkipStore
    <2>4. UNCHANGED <<semVars, recVars>>
      BY <1>4 DEF SkipLoad, SkipStore
    <2> QED
      BY <2>1, <2>2, <2>3, <2>4
  <1>5. CASE WriteLogToFile(t)
    BY <1>5 DEF WriteLogToFile
  <1>6. CASE Store(t) \/ Publish(t) \/ FixTail(t)
    BY <1>6 DEF Store, Publish, FixTail
  <1>7. CASE Post(t)
    <2>1. CASE semq = <<>>
      BY <1>7, <2>1 DEF Post
    <2>2. CASE semq # <<>>
      <3>1. Head(semq) \in Loggers /\ Tail(semq) \in Seq(Loggers)
        BY <2>2, HeadTailProperties
      <3>2. lpc' \in [Loggers -> LogPcs]
        BY <1>7, <2>2, <3>1 DEF Post
      <3> QED
        BY <1>7, <2>2, <3>1, <3>2 DEF Post
    <2> QED
      BY <2>1, <2>2
  <1>8. CASE Free(t)
    BY <1>8 DEF Free, NoRec
  <1> QED
    BY <1>1, <1>2, <1>3, <1>4, <1>5, <1>6, <1>7, <1>8 DEF LogStep

(* CallTypes is kept by every step.                                         *)
LEMMA CallTypesKept ==
  ASSUME TypeOK, [Next]_vars
  PROVE  CallTypes'
  <1> USE DEF TypeOK, CallTypes
  <1> USE DEF callVars, semVars, skipVars, recVars
  <1>1. ASSUME NEW t \in Loggers, Log(t) \/ LogStep(t) \/ Timeout(t)
        PROVE  CallTypes'
    BY <1>1, LogCallTypes
  <1>2. CASE OpenView \/ Poll \/ ViewStep
    BY <1>2, ViewFrame DEF otherThanView
  <1>3. CASE FileStep
    BY <1>3, FileFrame DEF logSide, Goto, LogPcs, Locked
  <1>4. CASE ChangeParams \/ RequestSave \/ SpaceMeasured
    <2>1. lpc' \in [Loggers -> LogPcs]
      BY <1>4, TaskAssumption
      DEF ChangeParams, RequestSave, SpaceMeasured, Goto, LogPcs
    <2> QED
      BY <1>4, <2>1, OtherFrame DEF logSide
  <1>5. CASE UNCHANGED vars
    BY <1>5 DEF vars
  <1> QED
    BY <1>1, <1>2, <1>3, <1>4, <1>5 DEF Next

(* QueueTypes is kept by every step.                                        *)
LEMMA QueueTypesKept ==
  ASSUME TypeOK, [Next]_vars
  PROVE  QueueTypes'
  <1> USE DEF TypeOK
  <1>1. ASSUME NEW t \in Loggers, Log(t) \/ LogStep(t) \/ Timeout(t)
        PROVE  QueueTypes'
    <2>1. CASE Log(t)
      <3>1. EnterLog(t, 0, 0) /\ UNCHANGED sinkVars
        BY <2>1 DEF Log, bodyVars
      <3> QED
        BY <3>1, EnterLogHeap DEF sinkVars, QueueTypes
    <2>2. CASE WriteLogToFile(t)
      <3>1. accepted' \in Nat /\ fails' \in Nat /\ held' \in Int
        BY <2>2 DEF WriteLogToFile, CountError, Failures, QueueTypes, CallTypes
      <3>2. err' \in [Errors -> Nat] /\ dropped' \in Nat
        BY <2>2 DEF WriteLogToFile, CountError, QueueTypes
      <3>3. queue' = queue \/ queue' = Append(queue, accepted')
        BY <2>2 DEF WriteLogToFile, CountError
      <3>4. queue' \in Seq(Nat)
        BY <3>1, <3>3, AppendProperties DEF QueueTypes
      <3> QED
        BY <3>1, <3>2, <3>4 DEF QueueTypes
    <2>3. CASE Free(t)
      BY <2>3 DEF Free, bodyVars, sinkVars, QueueTypes
    <2>4. CASE Timeout(t) \/ Wait(t) \/ SkipLoad(t) \/ SkipStore(t) \/ Store(t)
               \/ Publish(t) \/ FixTail(t) \/ Post(t)
      <3>1. UNCHANGED <<heapVars, sinkVars>>
        BY <2>4 DEF Timeout, Wait, SkipLoad, SkipStore, Store, Publish, FixTail,
           Post, bodyVars
      <3> QED
        BY <3>1 DEF heapVars, sinkVars, QueueTypes
    <2> QED
      BY <1>1, <2>1, <2>2, <2>3, <2>4 DEF LogStep
  <1>2. CASE OpenView \/ Poll \/ ViewStep
    BY <1>2, ViewFrame DEF otherThanView, heapVars, sinkVars, QueueTypes
  <1>3. CASE FileStep
    <2>1. CASE FileStart
      <3>1. /\ \/ Failures(0) /\ held' = held + 1
               \/ EnterLog(FileTask, 1, 0)
            /\ UNCHANGED sinkVars
        BY <2>1 DEF FileStart
      <3> QED
        BY <3>1, EnterLogHeap DEF Failures, sinkVars, QueueTypes
    <2>2. CASE Receive \/ More
      <3>1. queue' = queue \/ (queue # <<>> /\ queue' = Tail(queue))
        BY <2>2 DEF Receive, More, Dequeue
      <3>2. queue' \in Seq(Nat)
        BY <3>1, HeadTailProperties DEF QueueTypes
      <3> QED
        BY <2>2, <3>2 DEF Receive, More, heapVars, QueueTypes
    <2>3. CASE Open
      <3>1. /\ UNCHANGED heapVars \/ EnterLog(FileTask, 1, -1)
            /\ UNCHANGED sinkVars
        BY <2>3 DEF Open
      <3> QED
        BY <3>1, EnterLogHeap DEF heapVars, sinkVars, QueueTypes
    <2>4. CASE Write
      BY <2>4 DEF Write, Failures, heapVars, sinkVars, QueueTypes
    <2>5. ASSUME NEW e \in Errors, Report(e) \/ Reset(e)
          PROVE  QueueTypes'
      <3>1. CASE Report(e)
        BY <3>1 DEF Report, Failures, sinkVars, QueueTypes
      <3>2. CASE Reset(e)
        BY <3>2 DEF Reset, heapVars, QueueTypes
      <3> QED
        BY <2>5, <3>1, <3>2
    <2>6. CASE IdleBranch
      BY <2>6 DEF IdleBranch, heapVars, sinkVars, QueueTypes
    <2>7. CASE FreeSpace
      <3>1. /\ UNCHANGED heapVars \/ EnterLog(FileTask, 0, 0)
            /\ UNCHANGED sinkVars
        BY <2>7 DEF FreeSpace
      <3> QED
        BY <3>1, EnterLogHeap DEF heapVars, sinkVars, QueueTypes
    <2>8. CASE SaveAlloc
      <3>1. /\ \/ Failures(0) /\ held' = held + 2
               \/ EnterLog(FileTask, 1, 0)
               \/ EnterLog(FileTask, 1, 1)
            /\ UNCHANGED sinkVars
        BY <2>8 DEF SaveAlloc
      <3> QED
        BY <3>1, EnterLogHeap DEF Failures, sinkVars, QueueTypes
    <2>9. CASE SaveOpen
      <3>1. /\ UNCHANGED heapVars \/ EnterLog(FileTask, 1, -1)
            /\ UNCHANGED sinkVars
        BY <2>9 DEF SaveOpen
      <3> QED
        BY <3>1, EnterLogHeap DEF heapVars, sinkVars, QueueTypes
    <2>10. CASE SaveWrite
      <3>1. /\ UNCHANGED heapVars \/ EnterLog(FileTask, 1, 0)
            /\ UNCHANGED sinkVars
        BY <2>10 DEF SaveWrite
      <3> QED
        BY <3>1, EnterLogHeap DEF heapVars, sinkVars, QueueTypes
    <2>11. CASE SaveClose
      <3>1. /\ \/ EnterLog(FileTask, 0, -2)
               \/ Failures(0) /\ held' = held - 2
            /\ UNCHANGED sinkVars
        BY <2>11 DEF SaveClose
      <3> QED
        BY <3>1, EnterLogHeap DEF Failures, sinkVars, QueueTypes
    <2> QED
      BY <1>3, <2>1, <2>2, <2>3, <2>4, <2>5, <2>6, <2>7, <2>8, <2>9, <2>10,
         <2>11
      DEF FileStep
  <1>4. CASE ChangeParams \/ RequestSave \/ SpaceMeasured
    BY <1>4, OtherFrame DEF heapVars, sinkVars, QueueTypes
  <1>5. CASE UNCHANGED vars
    BY <1>5 DEF vars, heapVars, sinkVars, QueueTypes
  <1> QED
    BY <1>1, <1>2, <1>3, <1>4, <1>5 DEF Next

(* Indices into the ring stay inside it.                                    *)
LEMMA SlotFacts ==
  /\ 0 \in Slots
  /\ \A i \in Slots : Succ(i) \in Slots
  BY SizeAssumption DEF Slots, Succ

(* RingTypes is kept by every step.                                         *)
LEMMA RingTypesKept ==
  ASSUME TypeOK, [Next]_vars
  PROVE  RingTypes'
  <1> USE DEF TypeOK, RingTypes
  <1>1. ASSUME NEW t \in Loggers, Log(t) \/ LogStep(t) \/ Timeout(t)
        PROVE  RingTypes'
    <2>1. UNCHANGED viewVars
      BY <1>1, LogFrame DEF fileSide
    <2>2. CASE Store(t)
      BY <2>1, <2>2 DEF Store, viewVars, CallTypes
    <2>3. CASE Publish(t)
      BY <2>1, <2>3, SlotFacts DEF Publish, viewVars
    <2>4. CASE FixTail(t)
      BY <2>1, <2>4, SlotFacts DEF FixTail, viewVars
    <2>5. CASE Log(t) \/ Timeout(t) \/ Wait(t) \/ SkipLoad(t) \/ SkipStore(t)
               \/ WriteLogToFile(t) \/ Post(t) \/ Free(t)
      <3>1. UNCHANGED ringVars
        BY <2>5 DEF Log, Timeout, Wait, SkipLoad, SkipStore, WriteLogToFile,
           Post, Free, bodyVars
      <3> QED
        BY <2>1, <3>1 DEF ringVars, viewVars
    <2> QED
      BY <1>1, <2>2, <2>3, <2>4, <2>5 DEF LogStep
  <1>2. CASE OpenView \/ Poll \/ ViewStep
    <2>1. UNCHANGED ringVars
      BY <1>2, ViewFrame DEF otherThanView
    <2> QED
      BY <1>2, <2>1, SlotFacts DEF OpenView, Poll, ViewStep, CheckHead, ReadStamp, ReadText,
         OutputDone, NoRec, ringVars
  <1>3. CASE FileStep
    BY <1>3, FileFrame DEF logSide, ringVars, viewVars
  <1>4. CASE ChangeParams \/ RequestSave \/ SpaceMeasured
    BY <1>4, OtherFrame DEF logSide, ringVars, viewVars
  <1>5. CASE UNCHANGED vars
    BY <1>5 DEF vars, fileSide, ringVars, viewVars
  <1> QED
    BY <1>1, <1>2, <1>3, <1>4, <1>5 DEF Next

(* FileTypes is kept by every step.                                         *)
LEMMA FileTypesKept ==
  ASSUME TypeOK, [Next]_vars
  PROVE  FileTypes'
  <1> USE DEF TypeOK
  <1>1. ASSUME NEW t \in Loggers, Log(t) \/ LogStep(t) \/ Timeout(t)
        PROVE  FileTypes'
    BY <1>1, LogFrame DEF fileSide, fileVars, lineVars, FileTypes
  <1>2. CASE OpenView \/ Poll \/ ViewStep
    BY <1>2, ViewFrame DEF otherThanView, fileVars, lineVars, FileTypes
  <1>3. CASE FileStep
    <2> USE DEF FileGoto, FilePcs
    <2>1. CASE FileStart
      BY <2>1 DEF FileStart, FileTypes
    <2>2. CASE Receive \/ More
      <3>1. cur' \in Nat
        BY <2>2, HeadTailProperties
        DEF Receive, More, Dequeue, FileTypes, QueueTypes
      <3>2. fpc' \in FilePcs /\ UNCHANGED <<tstr, file, unwritten, reported, fs_ready>>
        BY <2>2 DEF Receive, More
      <3> QED
        BY <3>1, <3>2 DEF FileTypes
    <2>3. CASE Open
      BY <2>3 DEF Open, NoRec, FileTypes
    <2>4. CASE Write
      <3>1. cur' \in Nat /\ fpc' \in FilePcs
        BY <2>4 DEF Write, NoRec, FileTypes
      <3>2. file' = file \/ file' = Append(file, cur)
        BY <2>4 DEF Write
      <3>3. file' \in Seq(Nat)
        BY <3>2, AppendProperties DEF FileTypes
      <3> QED
        BY <2>4, <3>1, <3>3 DEF Write, FileTypes
    <2>5. ASSUME NEW e \in Errors, Report(e) \/ Reset(e)
          PROVE  FileTypes'
      <3>1. fpc' \in FilePcs
        BY <2>5 DEF Report, Reset, ReportPc, ResetPc, AfterPc, Errors
      <3>2. reported' \in Nat
        BY <2>5 DEF Report, Reset, lineVars, FileTypes, QueueTypes
      <3> QED
        BY <2>5, <3>1, <3>2 DEF Report, Reset, lineVars, FileTypes
    <2>6. CASE IdleBranch \/ SaveAlloc \/ SaveOpen \/ SaveWrite \/ SaveClose
      BY <2>6 DEF IdleBranch, SaveAlloc, SaveOpen, SaveWrite, SaveClose,
         lineVars, FileTypes
    <2>7. CASE FreeSpace
      BY <2>7 DEF FreeSpace, lineVars, FileTypes
    <2> QED
      BY <1>3, <2>1, <2>2, <2>3, <2>4, <2>5, <2>6, <2>7 DEF FileStep
  <1>4. CASE ChangeParams \/ RequestSave \/ SpaceMeasured
    <2>1. fs_ready' \in 0 .. 2
      BY <1>4 DEF ChangeParams, RequestSave, SpaceMeasured, fileVars, FileTypes
    <2> QED
      BY <1>4, <2>1, OtherFrame DEF lineVars, FileTypes
  <1>5. CASE UNCHANGED vars
    BY <1>5 DEF vars, fileSide, fileVars, lineVars, FileTypes
  <1> QED
    BY <1>1, <1>2, <1>3, <1>4, <1>5 DEF Next

(* SaveTypes is kept by every step.                                         *)
LEMMA SaveTypesKept ==
  ASSUME TypeOK, [Next]_vars
  PROVE  SaveTypes'
  <1> USE DEF TypeOK, SaveTypes
  <1>1. ASSUME NEW t \in Loggers, Log(t) \/ LogStep(t) \/ Timeout(t)
        PROVE  SaveTypes'
    BY <1>1, LogFrame DEF fileSide, saveVars, savedVars
  <1>2. CASE OpenView \/ Poll \/ ViewStep
    BY <1>2, ViewFrame DEF otherThanView, saveVars, savedVars
  <1>3. CASE FileStep
    <2>1. CASE FileStart \/ Receive \/ More \/ Open \/ Write \/ FreeSpace
               \/ SaveClose \/ \E e \in Errors : Report(e) \/ Reset(e)
      <3>1. UNCHANGED saveVars
        BY <2>1 DEF FileStart, Receive, More, Open, Write, FreeSpace, Report,
           Reset, SaveClose
      <3> QED
        BY <3>1 DEF saveVars, savedVars
    <2>2. CASE IdleBranch
      BY <2>2 DEF IdleBranch, savedVars
    <2>3. CASE SaveAlloc
      <3>1. saveFailed' \in BOOLEAN
        BY <2>3 DEF SaveAlloc
      <3>2. leaked' \in Nat
        BY <2>3 DEF SaveAlloc
      <3> QED
        BY <2>3, <3>1, <3>2 DEF SaveAlloc
    <2>4. CASE SaveOpen
      <3>1. saveFailed' \in BOOLEAN
        BY <2>4 DEF SaveOpen
      <3>2. leaked' \in Nat /\ saved' \in Nat \cup {-1}
        BY <2>4 DEF SaveOpen
      <3> QED
        BY <2>4, <3>1, <3>2 DEF SaveOpen
    <2>5. CASE SaveWrite
      BY <2>5 DEF SaveWrite
    <2> QED
      BY <1>3, <2>1, <2>2, <2>3, <2>4, <2>5 DEF FileStep
  <1>4. CASE ChangeParams \/ RequestSave \/ SpaceMeasured
    <2>1. params' \in Nat
      BY <1>4 DEF ChangeParams, RequestSave, SpaceMeasured, saveVars
    <2>2. pend' \in BOOLEAN
      BY <1>4 DEF ChangeParams, RequestSave, SpaceMeasured, saveVars
    <2> QED
      BY <1>4, <2>1, <2>2, OtherFrame DEF savedVars
  <1>5. CASE UNCHANGED vars
    BY <1>5 DEF vars, fileSide, saveVars, savedVars
  <1> QED
    BY <1>1, <1>2, <1>3, <1>4, <1>5 DEF Next

(* The initial state is correctly typed.                                    *)
LEMMA TypeOKInit ==
  ASSUME Init
  PROVE  TypeOK
  <1> USE DEF Init, NoRec
  <1>1. CallTypes
    BY DEF CallTypes, LogPcs
  <1>2. QueueTypes
    BY DEF QueueTypes
  <1>3. RingTypes
    BY SlotFacts DEF RingTypes
  <1>4. FileTypes
    <2>1. tstr \in BOOLEAN
      OBVIOUS
    <2>2. fpc \in FilePcs
      BY DEF FilePcs
    <2> QED
      BY <2>1, <2>2 DEF FileTypes
  <1>5. SaveTypes
    BY DEF SaveTypes
  <1> QED
    BY <1>1, <1>2, <1>3, <1>4, <1>5 DEF TypeOK

(* Every variable of the logger keeps its type, whatever the number of      *)
(* tasks, the sizes and the priorities: in particular the indices of the    *)
(* ring never leave it.                                                     *)
THEOREM TypeCorrect == Spec => []TypeOK
  <1>1. Init => TypeOK
    BY TypeOKInit
  <1>2. TypeOK /\ [Next]_vars => TypeOK'
    BY CallTypesKept, QueueTypesKept, RingTypesKept, FileTypesKept,
       SaveTypesKept DEF TypeOK
  <1> QED
    BY <1>1, <1>2, PTL DEF Spec

-------------------------------------------------------------------------------
(* The semaphore.  The invariant is SemaphoreSound with MutualExclusion: a  *)
(* post hands log_sem to the first waiter, so it keeps exclusion only       *)
(* because no other task is inside and because that waiter is still blocked *)
(* and not queued twice.                                                    *)

SemInv == SemaphoreSound /\ MutualExclusion

(* Initially the semaphore is free and nobody is inside.                    *)
LEMMA SemInvInit ==
  ASSUME Init
  PROVE  SemInv
  BY DEF Init, SemInv, SemaphoreSound, MutualExclusion, Locked,
     SeqExt!Contains, SeqExt!IsInjective

(* A step that leaves the semaphore alone and moves a task from outside the *)
(* lock to outside the lock keeps the invariant.                            *)
LEMMA SemInvOutside ==
  ASSUME CallTypes, SemInv, UNCHANGED semVars, NEW t \in Loggers, NEW to,
         lpc[t] \notin Locked \cup {"blocked"},
         to \notin Locked \cup {"blocked"},
         Goto(t, to)
  PROVE  SemInv'
  BY DEF CallTypes, SemInv, SemaphoreSound, MutualExclusion, semVars, Goto

(* So does a step from one place inside the lock to the next.               *)
LEMMA SemInvInside ==
  ASSUME CallTypes, SemInv, UNCHANGED semVars, NEW t \in Loggers, NEW to,
         lpc[t] \in Locked, to \in Locked, Goto(t, to)
  PROVE  SemInv'
  <1>1. \A u \in Loggers : /\ lpc'[u] \in Locked <=> lpc[u] \in Locked
                           /\ lpc'[u] = "blocked" <=> lpc[u] = "blocked"
    BY DEF CallTypes, Goto, Locked
  <1> QED
    BY <1>1 DEF SemInv, SemaphoreSound, MutualExclusion, semVars

(* A step that moves no task and leaves the semaphore alone keeps it.       *)
LEMMA SemInvSame ==
  ASSUME SemInv, UNCHANGED <<lpc, semVars>>
  PROVE  SemInv'
  BY DEF SemInv, SemaphoreSound, MutualExclusion, semVars

(* Taking the semaphore, or joining its queue.                              *)
LEMMA SemInvWait ==
  ASSUME CallTypes, SemInv, NEW t \in Loggers, Wait(t)
  PROVE  SemInv'
  <1> USE DEF CallTypes
  <1>0. lpc[t] = "wait" /\ lpc[t] \notin Locked /\ lpc[t] # "blocked"
    BY DEF Wait, At, Locked
  <1>1. CASE log_sem > 0
    <2>1. log_sem = 1 /\ log_sem' = 0 /\ semq' = semq
      BY <1>1 DEF Wait, SemInv, SemaphoreSound
    <2>2. \A u \in Loggers : /\ lpc[u] \notin Locked \cup {"blocked"}
                             /\ u # t => lpc'[u] = lpc[u]
      BY <1>1, <2>1 DEF Wait, Goto, SemInv, SemaphoreSound
    <2>3. lpc'[t] = "record"
      BY <1>1 DEF Wait, Goto
    <2>4. MutualExclusion'
      BY <2>2, <2>3 DEF MutualExclusion
    <2>5. \A u \in Loggers : lpc'[u] = "blocked" <=> lpc[u] = "blocked"
      BY <2>2, <2>3
    <2> QED
      BY <2>1, <2>4, <2>5 DEF SemInv, SemaphoreSound
  <1>2. CASE ~(log_sem > 0)
    <2>1. log_sem = 0 /\ log_sem' = 0 /\ semq' = Append(semq, t)
      BY <1>2 DEF Wait, SemInv, SemaphoreSound
    <2>2. /\ lpc'[t] = "blocked"
          /\ \A u \in Loggers : u # t => lpc'[u] = lpc[u]
      BY <1>2 DEF Wait, Goto
    <2>3. MutualExclusion'
      BY <2>2 DEF SemInv, MutualExclusion, Locked
    <2>4. ~SeqExt!Contains(semq, t) /\ SeqExt!IsInjective(semq)
      BY <1>0 DEF SemInv, SemaphoreSound
    <2>5. SeqExt!IsInjective(semq')
      BY <2>1, <2>4, JoinQueue
    <2>6. \A u \in Loggers :
            SeqExt!Contains(semq', u) <=> u = t \/ SeqExt!Contains(semq, u)
      BY <2>1, JoinQueue
    <2>7. \A u \in Loggers : lpc'[u] = "blocked" <=> SeqExt!Contains(semq', u)
      BY <2>2, <2>6 DEF SemInv, SemaphoreSound
    <2> QED
      BY <2>1, <2>3, <2>5, <2>7 DEF SemInv, SemaphoreSound
  <1> QED
    BY <1>1, <1>2

(* Giving up: the task leaves the queue.                                    *)
LEMMA SemInvTimeout ==
  ASSUME CallTypes, SemInv, NEW t \in Loggers, Timeout(t)
  PROVE  SemInv'
  <1> USE DEF CallTypes
  <1>1. PICK k \in 1 .. Len(semq) :
          semq[k] = t /\ semq' = SeqExt!RemoveAt(semq, k)
    BY DEF Timeout
  <1>2. /\ lpc'[t] = "skip" /\ lpc[t] = "blocked"
        /\ \A u \in Loggers : u # t => lpc'[u] = lpc[u]
        /\ log_sem' = log_sem
    BY DEF Timeout, Goto
  <1>3. log_sem' = 0
    BY <1>2 DEF SemInv, SemaphoreSound
  <1>4. MutualExclusion'
    BY <1>2 DEF SemInv, MutualExclusion, Locked
  <1>5. SeqExt!IsInjective(semq)
    BY DEF SemInv, SemaphoreSound
  <1>6. SeqExt!IsInjective(semq')
    BY <1>1, <1>5, LeaveQueue
  <1>7. \A u \in Loggers :
          SeqExt!Contains(semq', u) <=> u # t /\ SeqExt!Contains(semq, u)
    BY <1>1, <1>5, LeaveQueue
  <1> QED
    BY <1>2, <1>3, <1>4, <1>6, <1>7 DEF SemInv, SemaphoreSound

(* Giving the semaphore back, or to the first waiter.                       *)
LEMMA SemInvPost ==
  ASSUME CallTypes, SemInv, NEW t \in Loggers, Post(t)
  PROVE  SemInv'
  <1> USE DEF CallTypes
  <1>0. /\ lpc[t] = "post" /\ log_sem = 0
        /\ \A u \in Loggers : u # t => lpc[u] \notin Locked
    BY DEF Post, At, Locked, SemInv, SemaphoreSound, MutualExclusion
  <1>1. CASE semq = <<>>
    <2>1. /\ log_sem' = 1 /\ semq' = semq /\ lpc'[t] = "free"
          /\ \A u \in Loggers : u # t => lpc'[u] = lpc[u]
      BY <1>0, <1>1 DEF Post, Goto
    <2>2. \A u \in Loggers : lpc[u] # "blocked"
      <3>1. \A u \in Loggers : ~SeqExt!Contains(semq, u)
        BY <1>1 DEF SeqExt!Contains
      <3> QED
        BY <3>1 DEF SemInv, SemaphoreSound
    <2>3. \A u \in Loggers : lpc'[u] \notin Locked \cup {"blocked"}
      BY <1>0, <2>1, <2>2 DEF Locked
    <2>4. MutualExclusion'
      BY <2>3 DEF MutualExclusion
    <2>5. \A u \in Loggers : lpc'[u] = "blocked" <=> lpc[u] = "blocked"
      BY <2>2, <2>3
    <2> QED
      BY <2>1, <2>3, <2>4, <2>5 DEF SemInv, SemaphoreSound
  <1>2. CASE semq # <<>>
    <2> DEFINE h == Head(semq)
    <2>1. SeqExt!IsInjective(semq)
      BY DEF SemInv, SemaphoreSound
    <2>2. /\ h \in Loggers /\ SeqExt!Contains(semq, h)
          /\ \A u \in Loggers : SeqExt!Contains(Tail(semq), u)
                                  <=> u # h /\ SeqExt!Contains(semq, u)
          /\ SeqExt!IsInjective(Tail(semq))
      BY <1>2, <2>1, TakeFirst
    <2>3. lpc[h] = "blocked" /\ h # t
      BY <1>0, <2>2 DEF SemInv, SemaphoreSound
    <2>4. /\ lpc'[t] = "free" /\ lpc'[h] = "record" /\ log_sem' = 0
          /\ semq' = Tail(semq)
          /\ \A u \in Loggers : u # t /\ u # h => lpc'[u] = lpc[u]
      BY <1>0, <1>2, <2>2, <2>3 DEF Post
    <2> HIDE DEF h
    <2>5. MutualExclusion'
      BY <1>0, <2>4 DEF MutualExclusion, Locked
    <2>6. \A u \in Loggers : lpc'[u] = "blocked" <=> u # h /\ lpc[u] = "blocked"
      BY <1>0, <2>4
    <2>7. \A u \in Loggers : lpc'[u] = "blocked" <=> SeqExt!Contains(semq', u)
      BY <2>2, <2>4, <2>6 DEF SemInv, SemaphoreSound
    <2> QED
      BY <2>2, <2>4, <2>5, <2>7 DEF SemInv, SemaphoreSound
  <1> QED
    BY <1>1, <1>2

(* Every step keeps the invariant.                                          *)
LEMMA SemInvKept ==
  ASSUME TypeOK, SemInv, [Next]_vars
  PROVE  SemInv'
  <1> USE DEF TypeOK
  <1>1. ASSUME NEW t \in Loggers, Log(t) \/ LogStep(t) \/ Timeout(t)
        PROVE  SemInv'
    <2>1. CASE Log(t)
      <3>1. UNCHANGED semVars /\ lpc[t] = "idle"
            /\ (UNCHANGED lpc \/ Goto(t, "wait"))
        BY <2>1 DEF Log, At, EnterLog
      <3> QED
        BY <3>1, SemInvSame, SemInvOutside DEF Locked
    <2>2. CASE Wait(t)
      BY <2>2, SemInvWait
    <2>3. CASE Timeout(t)
      BY <2>3, SemInvTimeout
    <2>4. CASE SkipLoad(t)
      <3>1. UNCHANGED semVars /\ lpc[t] = "skip" /\ Goto(t, "skipstore")
        BY <2>4 DEF SkipLoad, At
      <3> QED
        BY <3>1, SemInvOutside DEF Locked
    <2>5. CASE SkipStore(t)
      <3>1. UNCHANGED semVars /\ lpc[t] = "skipstore" /\ Goto(t, "free")
        BY <2>5 DEF SkipStore, At
      <3> QED
        BY <3>1, SemInvOutside DEF Locked
    <2>6. CASE WriteLogToFile(t)
      <3>1. UNCHANGED semVars /\ lpc[t] = "record" /\ Goto(t, "store")
        BY <2>6 DEF WriteLogToFile, At
      <3> QED
        BY <3>1, SemInvInside DEF Locked
    <2>7. CASE Store(t)
      <3>1. UNCHANGED semVars /\ lpc[t] = "store" /\ Goto(t, "publish")
        BY <2>7 DEF Store, At, callVars
      <3> QED
        BY <3>1, SemInvInside DEF Locked
    <2>8. CASE Publish(t)
      <3>1. UNCHANGED semVars /\ lpc[t] = "publish" /\ Goto(t, "fixtail")
        BY <2>8 DEF Publish, At, callVars
      <3> QED
        BY <3>1, SemInvInside DEF Locked
    <2>9. CASE FixTail(t)
      <3>1. UNCHANGED semVars /\ lpc[t] = "fixtail" /\ Goto(t, "post")
        BY <2>9 DEF FixTail, At, callVars
      <3> QED
        BY <3>1, SemInvInside DEF Locked
    <2>10. CASE Post(t)
      BY <2>10, SemInvPost
    <2>11. CASE Free(t)
      <3>1. UNCHANGED semVars /\ lpc[t] = "free" /\ Goto(t, "idle")
        BY <2>11 DEF Free, At
      <3> QED
        BY <3>1, SemInvOutside DEF Locked
    <2> QED
      BY <1>1, <2>1, <2>2, <2>3, <2>4, <2>5, <2>6, <2>7, <2>8, <2>9, <2>10,
         <2>11 DEF LogStep
  <1>2. CASE OpenView \/ Poll \/ ViewStep
    BY <1>2, ViewFrame, SemInvSame DEF otherThanView, callVars
  <1>3. CASE FileStep
    <2>1. UNCHANGED semVars
      BY <1>3, FileFrame DEF logSide, callVars
    <2>2. FileTask \in Loggers
      BY DEF Loggers
    <2> QED
      BY <1>3, <2>1, <2>2, FileFrame, SemInvSame, SemInvOutside DEF Locked
  <1>4. CASE ChangeParams \/ RequestSave \/ SpaceMeasured
    <2>1. UNCHANGED semVars
      BY <1>4, OtherFrame DEF logSide, callVars
    <2>2. Mzts \in Loggers
      BY TaskAssumption DEF Loggers
    <2>3. CASE ChangeParams
      <3>1. lpc[Mzts] = "idle" /\ Goto(Mzts, "request")
        BY <2>3 DEF ChangeParams, At
      <3> QED
        BY <2>1, <2>2, <3>1, SemInvOutside DEF Locked
    <2>4. CASE RequestSave
      <3>1. lpc[Mzts] = "request" /\ Goto(Mzts, "idle")
        BY <2>4 DEF RequestSave, At
      <3> QED
        BY <2>1, <2>2, <3>1, SemInvOutside DEF Locked
    <2>5. CASE SpaceMeasured
      BY <2>1, <2>5, SemInvSame DEF SpaceMeasured
    <2> QED
      BY <1>4, <2>3, <2>4, <2>5
  <1>5. CASE UNCHANGED vars
    BY <1>5, SemInvSame DEF vars, callVars
  <1> QED
    BY <1>1, <1>2, <1>3, <1>4, <1>5 DEF Next

(* Hence it always holds.                                                   *)
LEMMA SemInvAlways == Spec => []SemInv
  <1>1. TypeOK /\ SemInv /\ [Next]_vars => SemInv'
    BY SemInvKept
  <1> QED
    BY SemInvInit, <1>1, TypeCorrect, PTL DEF Spec

(* However posts, timeouts and calls interleave, the semaphore is free or   *)
(* held once and its queue holds each waiting task exactly once.            *)
THEOREM SemaphoreAlwaysSound == Spec => []SemaphoreSound
  <1>1. SemInv => SemaphoreSound
    BY DEF SemInv
  <1> QED
    BY <1>1, SemInvAlways, PTL

(* At most one task at a time is between _lwsem_wait_ticks and _lwsem_post  *)
(* of _applog_write.                                                        *)
THEOREM MutuallyExclusive == Spec => []MutualExclusion
  <1>1. SemInv => MutualExclusion
    BY DEF SemInv
  <1> QED
    BY <1>1, SemInvAlways, PTL

-------------------------------------------------------------------------------
(* The file log's error reports.  ReportsAreDrops is inductive: a writer    *)
(* that adds to a counter the file task is about to clear adds to the drops *)
(* as well, so clearing can only lose counts.                               *)

(* Every step keeps ReportsAreDrops.                                        *)
LEMMA ReportsKept ==
  ASSUME TypeOK, ReportsAreDrops, [Next]_vars
  PROVE  ReportsAreDrops'
  <1> USE DEF TypeOK, QueueTypes, Errors
  <1>1. ASSUME NEW t \in Loggers, Log(t) \/ LogStep(t) \/ Timeout(t)
        PROVE  ReportsAreDrops'
    <2>1. UNCHANGED <<fpc, reported>>
      BY <1>1, LogFrame DEF fileSide, fileVars, lineVars
    <2>2. CASE WriteLogToFile(t)
      <3>1. UNCHANGED <<err, dropped>> \/ CountError("alloc")
              \/ CountError("queue")
        BY <2>2 DEF WriteLogToFile
      <3>2. \/ /\ err'["alloc"] = err["alloc"]
               /\ err'["queue"] = err["queue"]
               /\ dropped' = dropped
            \/ /\ err'["alloc"] = err["alloc"] + 1
               /\ err'["queue"] = err["queue"]
               /\ dropped' = dropped + 1
            \/ /\ err'["alloc"] = err["alloc"]
               /\ err'["queue"] = err["queue"] + 1
               /\ dropped' = dropped + 1
        BY <3>1 DEF CountError
      <3> QED
        BY <2>1, <3>2 DEF ReportsAreDrops, FileTypes
    <2>3. CASE ~WriteLogToFile(t)
      <3>1. UNCHANGED <<err, dropped>>
        BY <1>1, <2>3 DEF LogStep, Log, Timeout, Wait, SkipLoad, SkipStore,
           Store, Publish, FixTail, Post, Free, bodyVars, sinkVars
      <3> QED
        BY <2>1, <3>1 DEF ReportsAreDrops
    <2> QED
      BY <2>2, <2>3
  <1>2. CASE OpenView \/ Poll \/ ViewStep
    BY <1>2, ViewFrame
    DEF otherThanView, sinkVars, fileVars, lineVars, ReportsAreDrops
  <1>3. CASE FileStep
    <2> USE DEF FileGoto, FileAt
    <2>1. ASSUME NEW e \in Errors, Report(e)
          PROVE  ReportsAreDrops'
      <3>1. /\ fpc = ReportPc[e] /\ reported' \in {reported, reported + err[e]}
            /\ fpc' = IF err[e] # 0 THEN ResetPc[e] ELSE AfterPc[e]
            /\ UNCHANGED <<err, dropped>>
        BY <2>1 DEF Report, sinkVars
      <3>2. err["alloc"] \in Nat /\ err["queue"] \in Nat
        OBVIOUS
      <3>3. CASE e = "alloc"
        BY <3>1, <3>2, <3>3
        DEF ReportPc, ResetPc, AfterPc, ReportsAreDrops, FileTypes
      <3>4. CASE e = "queue"
        BY <3>1, <3>2, <3>4
        DEF ReportPc, ResetPc, AfterPc, ReportsAreDrops, FileTypes
      <3> QED
        BY <3>3, <3>4
    <2>2. ASSUME NEW e \in Errors, Reset(e)
          PROVE  ReportsAreDrops'
      <3>1. /\ fpc = ResetPc[e] /\ fpc' = AfterPc[e]
            /\ err' = [err EXCEPT ![e] = 0]
            /\ UNCHANGED <<reported, dropped>>
        BY <2>2 DEF Reset, lineVars
      <3>2. err["alloc"] \in Nat /\ err["queue"] \in Nat
        OBVIOUS
      <3>3. CASE e = "alloc"
        <4>1. err'["alloc"] = 0 /\ err'["queue"] = err["queue"]
          BY <3>1, <3>3
        <4> QED
          BY <3>1, <3>2, <3>3, <4>1
          DEF ResetPc, AfterPc, ReportsAreDrops, FileTypes
      <3>4. CASE e = "queue"
        <4>1. err'["queue"] = 0 /\ err'["alloc"] = err["alloc"]
          BY <3>1, <3>4
        <4> QED
          BY <3>1, <3>2, <3>4, <4>1
          DEF ResetPc, AfterPc, ReportsAreDrops, FileTypes
      <3> QED
        BY <3>3, <3>4
    <2>3. CASE FileStart \/ Receive \/ More \/ Open \/ Write \/ IdleBranch
               \/ FreeSpace \/ SaveAlloc \/ SaveOpen \/ SaveWrite
               \/ SaveClose
      <3>1. /\ UNCHANGED <<err, dropped, reported>>
            /\ fpc \notin {"reset_alloc", "reset_queue"}
            /\ fpc' \notin {"reset_alloc", "reset_queue"}
        BY <2>3 DEF FileStart, Receive, More, Open, Write, IdleBranch,
           FreeSpace, SaveAlloc, SaveOpen, SaveWrite, SaveClose, sinkVars,
           lineVars
      <3> QED
        BY <3>1 DEF ReportsAreDrops
    <2> QED
      BY <1>3, <2>1, <2>2, <2>3 DEF FileStep
  <1>4. CASE ChangeParams \/ RequestSave \/ SpaceMeasured
    BY <1>4, OtherFrame DEF lineVars, sinkVars, ReportsAreDrops
  <1>5. CASE UNCHANGED vars
    BY <1>5 DEF vars, sinkVars, fileSide, fileVars, lineVars, ReportsAreDrops
  <1> QED
    BY <1>1, <1>2, <1>3, <1>4, <1>5 DEF Next

(* AppLog.txt never announces a lost record that was not lost.              *)
THEOREM ReportsNeverInvented == Spec => []ReportsAreDrops
  <1>1. Init => ReportsAreDrops
    BY DEF Init, ReportsAreDrops, Errors
  <1>2. TypeOK /\ ReportsAreDrops /\ [Next]_vars => ReportsAreDrops'
    BY ReportsKept
  <1> QED
    BY <1>1, <1>2, TypeCorrect, PTL DEF Spec

-------------------------------------------------------------------------------
(* Saving the parameters.  SaveNotLost needs the semaphore's soundness: the *)
(* task that appends sensors is between its change and its request, and no  *)
(* post of another task may move it from there.                             *)

(* Every step keeps SaveNotLost.                                            *)
LEMMA SaveKept ==
  ASSUME TypeOK, SemInv, SaveNotLost, [Next]_vars
  PROVE  SaveNotLost'
  <1> USE DEF TypeOK, CallTypes, Saving
  <1>1. ASSUME NEW t \in Loggers, Log(t) \/ LogStep(t) \/ Timeout(t)
        PROVE  SaveNotLost'
    <2>1. UNCHANGED <<fpc, pend, saveFailed, saved, params>>
      BY <1>1, LogFrame DEF fileSide, fileVars, saveVars, savedVars
    <2>2. lpc[Mzts] = "request" => lpc'[Mzts] = "request"
      <3> SUFFICES ASSUME lpc[Mzts] = "request"
                   PROVE  lpc'[Mzts] = "request"
        OBVIOUS
      <3>1. Mzts \in Loggers
        BY TaskAssumption DEF Loggers
      <3>2. CASE Post(t)
        <4>1. semq # <<>> => Head(semq) # Mzts
          <5>1. ASSUME semq # <<>>
                PROVE  lpc[Head(semq)] = "blocked"
            <6>1. SeqExt!IsInjective(semq)
              BY DEF SemInv, SemaphoreSound
            <6>2. Head(semq) \in Loggers /\ SeqExt!Contains(semq, Head(semq))
              BY <5>1, <6>1, TakeFirst
            <6> QED
              BY <6>2 DEF SemInv, SemaphoreSound
          <5> QED
            BY <5>1
        <4>2. t # Mzts
          BY <3>2 DEF Post, At
        <4> QED
          BY <3>1, <3>2, <4>1, <4>2 DEF Post, Goto
      <3>3. CASE ~Post(t)
        BY <1>1, <3>1, <3>3 DEF LogStep, Log, Timeout, Wait, SkipLoad,
           SkipStore, WriteLogToFile, Store, Publish, FixTail, Free, At, Goto,
           EnterLog
      <3> QED
        BY <3>2, <3>3
    <2> QED
      BY <2>1, <2>2 DEF SaveNotLost
  <1>2. CASE OpenView \/ Poll \/ ViewStep
    BY <1>2, ViewFrame
    DEF otherThanView, fileVars, saveVars, savedVars, SaveNotLost
  <1>3. CASE FileStep
    <2> USE DEF FileGoto, FileAt
    <2>1. lpc'[Mzts] = lpc[Mzts]
      BY <1>3, FileFrame, TaskAssumption DEF Goto, Loggers
    <2>2. CASE FileStart \/ Receive \/ More \/ Open \/ Write \/ FreeSpace
               \/ SaveClose \/ \E e \in Errors : Report(e) \/ Reset(e)
      <3>1. /\ UNCHANGED <<pend, saveFailed, saved, params>>
            /\ fpc \notin Saving \cup {"fault"}
        BY <2>2 DEF FileStart, Receive, More, Open, Write, FreeSpace, Report,
           Reset, SaveClose, Errors, ReportPc, ResetPc, saveVars, savedVars
      <3> QED
        BY <2>1, <3>1 DEF SaveNotLost
    <2>3. CASE IdleBranch
      <3>1. CASE pend
        BY <2>3, <3>1 DEF IdleBranch, SaveNotLost
      <3>2. CASE ~pend
        <4>1. UNCHANGED <<saveFailed, saved, params>> /\ fpc = "idle"
          BY <2>3 DEF IdleBranch, savedVars
        <4> QED
          BY <2>1, <3>2, <4>1 DEF SaveNotLost
      <3> QED
        BY <3>1, <3>2
    <2>4. CASE SaveAlloc \/ SaveOpen
      BY <2>4 DEF SaveAlloc, SaveOpen, SaveNotLost
    <2>5. CASE SaveWrite
      BY <2>5 DEF SaveWrite, SaveNotLost
    <2> QED
      BY <1>3, <2>2, <2>3, <2>4, <2>5 DEF FileStep
  <1>4. CASE ChangeParams \/ RequestSave \/ SpaceMeasured
    <2>1. Mzts \in Loggers
      BY TaskAssumption DEF Loggers
    <2>2. CASE ChangeParams
      BY <2>1, <2>2 DEF ChangeParams, Goto, SaveNotLost
    <2>3. CASE RequestSave
      BY <2>3 DEF RequestSave, SaveNotLost
    <2>4. CASE SpaceMeasured
      BY <2>4 DEF SpaceMeasured, saveVars, savedVars, SaveNotLost
    <2> QED
      BY <1>4, <2>2, <2>3, <2>4
  <1>5. CASE UNCHANGED vars
    BY <1>5 DEF vars, fileSide, fileVars, saveVars, savedVars, SaveNotLost
  <1> QED
    BY <1>1, <1>2, <1>3, <1>4, <1>5 DEF Next

(* A request to save the parameters is never forgotten: unless it is        *)
(* pending, being served or failed, the file holds what is in RAM.          *)
THEOREM SaveNeverLost == Spec => []SaveNotLost
  <1>1. Init => SaveNotLost
    BY DEF Init, SaveNotLost
  <1>2. TypeOK /\ SemInv /\ SaveNotLost /\ [Next]_vars => SaveNotLost'
    BY SaveKept
  <1> QED
    BY <1>1, <1>2, TypeCorrect, SemInvAlways, PTL DEF Spec

-------------------------------------------------------------------------------
(* Deadlock.  A semaphore that is taken has a holder, and a holder is never *)
(* blocked itself; so some task that is inside the logger can go on.        *)
SemHeld == log_sem = 0 => \E t \in Loggers : lpc[t] \in Locked

(* A step that takes no task out of the lock and leaves log_sem keeps it.   *)
LEMMA HeldSame ==
  ASSUME SemHeld, log_sem' = log_sem,
         \A u \in Loggers : lpc[u] \in Locked => lpc'[u] \in Locked
  PROVE  SemHeld'
  BY DEF SemHeld

(* The steps of LOG.                                                        *)
LEMMA HeldLog ==
  ASSUME TypeOK, SemInv, SemHeld, NEW t \in Loggers, Log(t) \/ LogStep(t) \/ Timeout(t)
  PROVE  SemHeld'
  <1> USE DEF TypeOK, CallTypes
  <1>1. CASE Wait(t)
    <2>1. CASE log_sem > 0
      <3>1. lpc'[t] = "record"
        BY <1>1, <2>1 DEF Wait, Goto
      <3> QED
        BY <3>1 DEF SemHeld, Locked
    <2>2. CASE ~(log_sem > 0)
      <3>1. /\ log_sem' = log_sem
            /\ \A u \in Loggers : lpc[u] \in Locked => lpc'[u] \in Locked
        BY <1>1, <2>2 DEF Wait, At, Goto, Locked
      <3> QED
        BY <3>1, HeldSame
    <2> QED
      BY <2>1, <2>2
  <1>2. CASE Post(t)
    <2>1. CASE semq = <<>>
      BY <1>2, <2>1 DEF Post, SemHeld
    <2>2. CASE semq # <<>>
      <3>1. Head(semq) \in Loggers
        BY <2>2, HeadTailProperties
      <3>2. lpc'[Head(semq)] = "record"
        BY <1>2, <2>2, <3>1 DEF Post
      <3> QED
        BY <3>1, <3>2 DEF SemHeld, Locked
    <2> QED
      BY <2>1, <2>2
  <1>3. CASE Log(t) \/ Timeout(t) \/ SkipLoad(t) \/ SkipStore(t) \/ WriteLogToFile(t)
             \/ Store(t) \/ Publish(t) \/ FixTail(t) \/ Free(t)
    <2>1. log_sem' = log_sem
      BY <1>3 DEF Log, Timeout, SkipLoad, SkipStore, WriteLogToFile, Store, Publish, FixTail,
         Free, callVars, semVars
    <2>2. \A u \in Loggers : lpc[u] \in Locked => lpc'[u] \in Locked
      BY <1>3 DEF Log, EnterLog, Timeout, SkipLoad, SkipStore, WriteLogToFile, Store, Publish,
         FixTail, Free, At, Goto, Locked
    <2> QED
      BY <2>1, <2>2, HeldSame
  <1> QED
    BY <1>1, <1>2, <1>3 DEF LogStep

(* Every step keeps it.                                                     *)
LEMMA HeldKept ==
  ASSUME TypeOK, SemInv, SemHeld, [Next]_vars
  PROVE  SemHeld'
  <1>1. ASSUME NEW t \in Loggers, Log(t) \/ LogStep(t) \/ Timeout(t)
        PROVE  SemHeld'
    BY <1>1, HeldLog
  <1>2. CASE OpenView \/ Poll \/ ViewStep
    BY <1>2, ViewFrame DEF otherThanView, callVars, semVars, SemHeld
  <1>3. CASE FileStep
    <2>1. log_sem' = log_sem
      BY <1>3, FileFrame DEF logSide, callVars, semVars
    <2>2. \A u \in Loggers : lpc[u] \in Locked => lpc'[u] \in Locked
      BY <1>3, FileFrame DEF Goto, Locked, TypeOK, CallTypes
    <2> QED
      BY <2>1, <2>2, HeldSame
  <1>4. CASE ChangeParams \/ RequestSave \/ SpaceMeasured
    <2>1. log_sem' = log_sem
      BY <1>4, OtherFrame DEF logSide, callVars, semVars
    <2>2. \A u \in Loggers : lpc[u] \in Locked => lpc'[u] \in Locked
      BY <1>4 DEF ChangeParams, RequestSave, SpaceMeasured, At, Goto, Locked, TypeOK, CallTypes
    <2> QED
      BY <2>1, <2>2, HeldSame
  <1>5. CASE UNCHANGED vars
    BY <1>5 DEF vars, callVars, semVars, SemHeld
  <1> QED
    BY <1>1, <1>2, <1>3, <1>4, <1>5 DEF Next

(* A semaphore that is taken always has a holder inside the lock: no post   *)
(* is lost, whatever times out (App_logger.c:110, 148, 152).                *)
THEOREM SemaphoreHasHolder == Spec => []SemHeld
  <1>1. Init => SemHeld
    BY DEF Init, SemHeld
  <1>2. TypeOK /\ SemInv /\ SemHeld /\ [Next]_vars => SemHeld'
    BY HeldKept
  <1> QED
    BY <1>1, <1>2, TypeCorrect, SemInvAlways, PTL DEF Spec

(* Of the ready tasks, one of highest priority may run.                     *)
LEMMA SomeCanRun ==
  ASSUME NEW t \in Tasks, Ready(t), fpc # "fault"
  PROVE  \E u \in Tasks : Ready(u) /\ CanRun(u)
  <1> DEFINE R == {u \in Tasks \ {FileTask} : Ready(u)}
  <1>1. CASE R = {}
    BY <1>1 DEF CanRun
  <1>2. CASE R # {}
    <2> DEFINE P == {Prio[u] : u \in R}
    <2>1. P \subseteq Nat /\ P # {}
      BY <1>2, PrioAssumption
    <2>2. PICK p \in P : \A q \in P : ~ (<<q, p>> \in OpToRel(<, Nat))
      BY <2>1, NatLessThanWellFounded, WFMin
    <2>3. PICK u \in R : Prio[u] = p
      OBVIOUS
    <2>4. ASSUME NEW v \in R PROVE ~ (Prio[v] < Prio[u])
      BY <2>1, <2>2, <2>3 DEF OpToRel
    <2> QED
      BY <2>3, <2>4 DEF CanRun
  <1> QED
    BY <1>1, <1>2

(* The logger never deadlocks: unless the file task has faulted, whenever a *)
(* task is inside the logger, one that is at a step of its own has the      *)
(* processor to itself; nobody has to wait for a timeout.                   *)
NoLoggerDeadlock ==
  fpc # "fault" /\ (\E t \in Loggers : lpc[t] # "idle")
    => \E t \in Tasks : Ready(t) /\ CanRun(t)

(* It follows from the holder of a taken semaphore and from the priorities. *)
THEOREM LoggerNeverDeadlocks == Spec => []NoLoggerDeadlock
  <1>1. TypeOK /\ SemInv /\ SemHeld => NoLoggerDeadlock
    <2> SUFFICES ASSUME SemInv, SemHeld, fpc # "fault", NEW t \in Loggers, lpc[t] # "idle"
                 PROVE  \E u \in Tasks : Ready(u) /\ CanRun(u)
      BY DEF NoLoggerDeadlock
    <2>1. \A u \in Loggers : u \in Tasks /\ u # Viewer
      BY TaskAssumption DEF Tasks
    <2>2. CASE lpc[t] # "blocked"
      BY <2>1, <2>2, SomeCanRun DEF Ready
    <2>3. CASE lpc[t] = "blocked"
      <3>1. log_sem = 0
        BY <2>3 DEF SemInv, SemaphoreSound
      <3>2. PICK u \in Loggers : lpc[u] \in Locked
        BY <3>1 DEF SemHeld
      <3> QED
        BY <2>1, <3>2, SomeCanRun DEF Ready, Locked
    <2> QED
      BY <2>2, <2>3
  <1> QED
    BY <1>1, TypeCorrect, SemInvAlways, SemaphoreHasHolder, PTL

-------------------------------------------------------------------------------
(* The order of the waiting tasks.                                          *)
Ahead(q, t, u) == \E i, j \in 1 .. Len(q) : i < j /\ q[i] = t /\ q[j] = u

(* From queue q to queue r nobody overtakes, and whoever is new is last.    *)
InOrder(q, r) ==
  \A t, u \in Loggers :
    /\ SeqExt!Contains(q, t) /\ SeqExt!Contains(r, t) /\ SeqExt!Contains(r, u)
    /\ Ahead(q, t, u) \/ ~SeqExt!Contains(q, u)
    => Ahead(r, t, u)

(* Taking tasks out keeps the order: the elements of r are elements of q,   *)
(* and what comes later in q comes later in r.                              *)
LEMMA TakenOut ==
  ASSUME NEW q \in Seq(Loggers), NEW r \in Seq(Loggers), SeqExt!IsInjective(q),
         NEW g \in [1 .. Len(r) -> 1 .. Len(q)],
         \A i \in 1 .. Len(r) : r[i] = q[g[i]],
         \A i, j \in 1 .. Len(r) : i <= j => g[i] <= g[j]
  PROVE  InOrder(q, r)
  <1>0. Len(q) \in Nat /\ Len(r) \in Nat /\ DOMAIN q = 1 .. Len(q)
    BY LenProperties
  <1>1. \A i, j \in 1 .. Len(q) : q[i] = q[j] => i = j
    BY <1>0 DEF SeqExt!IsInjective
  <1>2. SUFFICES ASSUME NEW t \in Loggers, NEW u \in Loggers,
                        NEW a \in 1 .. Len(r), NEW b \in 1 .. Len(r), r[a] = t, r[b] = u,
                        Ahead(q, t, u) \/ ~SeqExt!Contains(q, u)
                 PROVE  a < b
    BY DEF InOrder, Ahead, SeqExt!Contains
  <1>3. /\ g[a] \in 1 .. Len(q) /\ g[b] \in 1 .. Len(q)
        /\ q[g[a]] = t /\ q[g[b]] = u
    BY <1>2
  <1>4. SeqExt!Contains(q, u)
    BY <1>3 DEF SeqExt!Contains
  <1>5. PICK i \in 1 .. Len(q), j \in 1 .. Len(q) : i < j /\ q[i] = t /\ q[j] = u
    BY <1>2, <1>4 DEF Ahead
  <1>6. i = g[a] /\ j = g[b]
    BY <1>1, <1>3, <1>5
  <1>7. ~ (g[b] <= g[a])
    BY <1>0, <1>3, <1>5, <1>6
  <1>8. ~ (b <= a)
    BY <1>7
  <1> QED
    BY <1>0, <1>8

(* Joining the queue keeps it, too.                                         *)
LEMMA Joined ==
  ASSUME NEW q \in Seq(Loggers), NEW e \in Loggers
  PROVE  InOrder(q, Append(q, e))
  <1> DEFINE r == Append(q, e)
             n == Len(q)
  <1>1. /\ n \in Nat /\ Len(r) = n + 1 /\ r[n + 1] = e
        /\ \A i \in 1 .. n : r[i] = q[i]
    BY AppendProperties, LenProperties
  <1> HIDE DEF r
  <1>2. SUFFICES ASSUME NEW t \in Loggers, NEW u \in Loggers,
                        SeqExt!Contains(q, t), SeqExt!Contains(r, u),
                        Ahead(q, t, u) \/ ~SeqExt!Contains(q, u)
                 PROVE  Ahead(r, t, u)
    BY DEF InOrder, r
  <1>3. CASE Ahead(q, t, u)
    <2>1. PICK i \in 1 .. n, j \in 1 .. n : i < j /\ q[i] = t /\ q[j] = u
      BY <1>3 DEF Ahead
    <2>2. i \in 1 .. Len(r) /\ j \in 1 .. Len(r) /\ r[i] = t /\ r[j] = u
      BY <1>1, <2>1
    <2> QED
      BY <2>1, <2>2 DEF Ahead
  <1>4. CASE ~SeqExt!Contains(q, u)
    <2>1. PICK i \in 1 .. n : q[i] = t
      BY <1>2 DEF SeqExt!Contains
    <2>2. PICK j \in 1 .. n + 1 : r[j] = u
      BY <1>1, <1>2 DEF SeqExt!Contains
    <2>3. j = n + 1
      BY <1>1, <1>4, <2>2 DEF SeqExt!Contains
    <2>4. i \in 1 .. Len(r) /\ j \in 1 .. Len(r) /\ i < j /\ r[i] = t
      BY <1>1, <2>1, <2>3
    <2> QED
      BY <2>2, <2>4 DEF Ahead
  <1> QED
    BY <1>2, <1>3, <1>4

(* Giving up from any place.                                                *)
LEMMA GivenUp ==
  ASSUME NEW q \in Seq(Loggers), SeqExt!IsInjective(q), NEW k \in 1 .. Len(q)
  PROVE  InOrder(q, SeqExt!RemoveAt(q, k))
  <1> DEFINE r == SeqExt!RemoveAt(q, k)
             n == Len(q)
             g == [i \in 1 .. n - 1 |-> IF i < k THEN i ELSE i + 1]
  <1>1. /\ n \in Nat /\ k \in 1 .. n /\ r \in Seq(Loggers) /\ Len(r) = n - 1
        /\ \A i \in 1 .. n - 1 : r[i] = IF i < k THEN q[i] ELSE q[i + 1]
    BY RemoveAtProperties, LenProperties
  <1> HIDE DEF r
  <1>2. /\ g \in [1 .. Len(r) -> 1 .. n]
        /\ \A i \in 1 .. Len(r) : r[i] = q[g[i]]
        /\ \A i, j \in 1 .. Len(r) : i <= j => g[i] <= g[j]
    BY <1>1
  <1> HIDE DEF g
  <1>3. InOrder(q, r)
    BY <1>1, <1>2, TakenOut
  <1> QED
    BY <1>3 DEF r

(* Being served from the front.                                             *)
LEMMA Served ==
  ASSUME NEW q \in Seq(Loggers), SeqExt!IsInjective(q), q # <<>>
  PROVE  InOrder(q, Tail(q))
  <1> DEFINE r == Tail(q)
             n == Len(q)
             g == [i \in 1 .. n - 1 |-> i + 1]
  <1>1. /\ n \in Nat /\ r \in Seq(Loggers) /\ Len(r) = n - 1
        /\ \A i \in 1 .. n - 1 : r[i] = q[i + 1]
    BY HeadTailProperties, LenProperties
  <1> HIDE DEF r
  <1>2. /\ g \in [1 .. Len(r) -> 1 .. n]
        /\ \A i \in 1 .. Len(r) : r[i] = q[g[i]]
        /\ \A i, j \in 1 .. Len(r) : i <= j => g[i] <= g[j]
    BY <1>1
  <1> HIDE DEF g
  <1>3. InOrder(q, r)
    BY <1>1, <1>2, TakenOut
  <1> QED
    BY <1>3 DEF r

(* And when nothing happens.                                                *)
LEMMA Unmoved ==
  ASSUME NEW q
  PROVE  InOrder(q, q)
  BY DEF InOrder

(* Who gets the semaphore without taking it itself was first in line.       *)
GrantedInOrder ==
  /\ InOrder(semq, semq')
  /\ \A t \in Loggers : lpc[t] = "blocked" /\ lpc'[t] = "record" =>
                          semq # <<>> /\ t = Head(semq)

(* The steps of LOG.                                                        *)
LEMMA LogGrantsInOrder ==
  ASSUME TypeOK, SemInv, NEW t \in Loggers, Log(t) \/ LogStep(t) \/ Timeout(t)
  PROVE  GrantedInOrder
  <1>0. /\ semq \in Seq(Loggers) /\ SeqExt!IsInjective(semq)
        /\ lpc \in [Loggers -> LogPcs]
    BY DEF TypeOK, CallTypes, SemInv, SemaphoreSound
  <1>1. CASE Wait(t)
    <2>1. semq' = semq \/ semq' = Append(semq, t)
      BY <1>1 DEF Wait
    <2>2. \A u \in Loggers : ~ (lpc[u] = "blocked" /\ lpc'[u] = "record")
      BY <1>0, <1>1 DEF Wait, At, Goto
    <2> QED
      BY <1>0, <2>1, <2>2, Joined, Unmoved DEF GrantedInOrder
  <1>2. CASE Timeout(t)
    <2>1. \E k \in 1 .. Len(semq) : semq' = SeqExt!RemoveAt(semq, k)
      BY <1>2 DEF Timeout
    <2>2. \A u \in Loggers : ~ (lpc[u] = "blocked" /\ lpc'[u] = "record")
      BY <1>0, <1>2 DEF Timeout, Goto
    <2> QED
      BY <1>0, <2>1, <2>2, GivenUp DEF GrantedInOrder
  <1>3. CASE Post(t)
    <2>1. CASE semq = <<>>
      <3>1. /\ semq' = semq
            /\ \A u \in Loggers : ~ (lpc[u] = "blocked" /\ lpc'[u] = "record")
        BY <1>0, <1>3, <2>1 DEF Post, At, Goto
      <3> QED
        BY <3>1, Unmoved DEF GrantedInOrder
    <2>2. CASE semq # <<>>
      <3>1. /\ semq' = Tail(semq)
            /\ \A u \in Loggers : lpc[u] = "blocked" /\ lpc'[u] = "record" => u = Head(semq)
        BY <1>0, <1>3, <2>2 DEF Post, At
      <3> QED
        BY <1>0, <2>2, <3>1, Served DEF GrantedInOrder
    <2> QED
      BY <2>1, <2>2
  <1>4. CASE Log(t) \/ SkipLoad(t) \/ SkipStore(t) \/ WriteLogToFile(t)
             \/ Store(t) \/ Publish(t) \/ FixTail(t) \/ Free(t)
    <2>1. semq' = semq
      BY <1>4 DEF Log, SkipLoad, SkipStore, WriteLogToFile, Store, Publish, FixTail, Free,
                  semVars, callVars
    <2>2. \A u \in Loggers : ~ (lpc[u] = "blocked" /\ lpc'[u] = "record")
      BY <1>0, <1>4 DEF Log, EnterLog, SkipLoad, SkipStore, WriteLogToFile, Store, Publish,
                        FixTail, Free, At, Goto
    <2> QED
      BY <2>1, <2>2, Unmoved DEF GrantedInOrder
  <1> QED
    BY <1>1, <1>2, <1>3, <1>4 DEF LogStep

(* The semaphore is handed on in the order in which the tasks began to      *)
(* wait, whatever their priorities and whoever gives up in between: a task  *)
(* gets it with the n-th post at the latest if it is the n-th in line       *)
(* (App_logger.c:110, 148).                                                 *)
THEOREM FirstComeFirstServed == Spec => [][GrantedInOrder]_vars
  <1>1. TypeOK /\ SemInv /\ [Next]_vars => [GrantedInOrder]_vars
    <2> SUFFICES ASSUME TypeOK, SemInv, Next PROVE GrantedInOrder
      OBVIOUS
    <2>1. ASSUME NEW t \in Loggers, Log(t) \/ LogStep(t) \/ Timeout(t)
          PROVE  GrantedInOrder
      BY <2>1, LogGrantsInOrder
    <2>2. CASE OpenView \/ Poll \/ ViewStep
      <3>1. semq' = semq /\ lpc' = lpc
        BY <2>2, ViewFrame DEF otherThanView, callVars, semVars
      <3> QED
        BY <3>1, Unmoved DEF GrantedInOrder
    <2>3. CASE FileStep \/ ChangeParams \/ RequestSave \/ SpaceMeasured
      <3>1. semq' = semq
        BY <2>3, FileFrame, OtherFrame DEF logSide, callVars, semVars
      <3>2. \A u \in Loggers : ~ (lpc[u] = "blocked" /\ lpc'[u] = "record")
        BY <2>3, FileFrame DEF ChangeParams, RequestSave, SpaceMeasured, Goto, TypeOK, CallTypes
      <3> QED
        BY <3>1, <3>2, Unmoved DEF GrantedInOrder
    <2> QED
      BY <2>1, <2>2, <2>3 DEF Next
  <1> QED
    BY <1>1, TypeCorrect, SemInvAlways, PTL DEF Spec

-------------------------------------------------------------------------------
(* How much of a call is left, at most: its own steps, and the wait.        *)
StepsLeft ==
  [idle |-> 0, request |-> 0, free |-> 1, skipstore |-> 2, skip |-> 3, post |-> 4,
   fixtail |-> 5, publish |-> 6, store |-> 7, record |-> 8, blocked |-> 9, wait |-> 10]

CallsGoForward ==
  \A t \in Loggers :
    /\ LogStep(t) => StepsLeft[lpc'[t]] < StepsLeft[lpc[t]]
    /\ lpc[t] \notin {"idle", "request"} => StepsLeft[lpc'[t]] <= StepsLeft[lpc[t]]

(* The first in line is blocked.                                            *)
LEMMA Waiter ==
  ASSUME TypeOK, SemInv, semq # <<>>
  PROVE  Head(semq) \in Loggers /\ lpc[Head(semq)] = "blocked"
  <1>1. Head(semq) \in Loggers /\ SeqExt!Contains(semq, Head(semq))
    BY TakeFirst DEF TypeOK, CallTypes, SemInv, SemaphoreSound
  <1> QED
    BY <1>1 DEF SemInv, SemaphoreSound

(* The steps of LOG, for the task that takes them and for the others.       *)
LEMMA LogGoesForward ==
  ASSUME TypeOK, SemInv, NEW t \in Loggers, Log(t) \/ LogStep(t) \/ Timeout(t)
  PROVE  CallsGoForward
  <1>0. /\ lpc \in [Loggers -> LogPcs] /\ semq \in Seq(Loggers)
        /\ \A u \in Loggers : lpc[u] = "blocked" <=> SeqExt!Contains(semq, u)
    BY DEF TypeOK, CallTypes, SemInv, SemaphoreSound
  <1>1. ASSUME NEW u \in Loggers, LogStep(u)
        PROVE  StepsLeft[lpc'[u]] < StepsLeft[lpc[u]]
    <2>1. CASE Post(u)
      <3>1. CASE semq = <<>>
        BY <1>0, <2>1, <3>1 DEF Post, At, Goto, StepsLeft
      <3>2. CASE semq # <<>>
        <4>1. lpc[Head(semq)] = "blocked" /\ Head(semq) \in Loggers
          BY <3>2, Waiter
        <4>2. lpc'[u] = "free" /\ lpc[u] = "post"
          BY <1>0, <2>1, <3>2, <4>1 DEF Post, At
        <4> QED
          BY <4>2 DEF StepsLeft
      <3> QED
        BY <3>1, <3>2
    <2>2. CASE ~Post(u)
      BY <1>0, <1>1, <2>2 DEF LogStep, Wait, SkipLoad, SkipStore, WriteLogToFile, Store,
                              Publish, FixTail, Free, At, Goto, StepsLeft
    <2> QED
      BY <2>1, <2>2
  <1>2. ASSUME NEW u \in Loggers, lpc[u] \notin {"idle", "request"}
        PROVE  StepsLeft[lpc'[u]] <= StepsLeft[lpc[u]]
    <2>1. StepsLeft[lpc[u]] \in Nat
      BY <1>0 DEF StepsLeft, LogPcs, Locked
    <2>2. CASE LogStep(u)
      <3>1. lpc'[u] \in LogPcs
        BY LogCallTypes DEF CallTypes
      <3>2. StepsLeft[lpc'[u]] \in Nat
        BY <3>1 DEF StepsLeft, LogPcs, Locked
      <3> QED
        BY <1>1, <2>1, <2>2, <3>2
    <2>3. CASE Timeout(u)
      BY <1>0, <2>3 DEF Timeout, Goto, StepsLeft
    <2>4. CASE u # t
      <3>1. CASE Post(t) /\ semq # <<>>
        <4>1. lpc[Head(semq)] = "blocked" /\ Head(semq) \in Loggers
          BY <3>1, Waiter
        <4>2. CASE u = Head(semq)
          BY <1>0, <2>4, <3>1, <4>1, <4>2 DEF Post, StepsLeft
        <4>3. CASE u # Head(semq)
          BY <1>0, <2>1, <2>4, <3>1, <4>3 DEF Post
        <4> QED
          BY <4>2, <4>3
      <3>2. CASE ~ (Post(t) /\ semq # <<>>)
        <4>1. lpc'[u] = lpc[u]
          BY <1>0, <2>4, <3>2 DEF Log, EnterLog, LogStep, Timeout, Wait, SkipLoad, SkipStore,
                WriteLogToFile, Store, Publish, FixTail, Post, Free, At, Goto
        <4> QED
          BY <2>1, <4>1
      <3> QED
        BY <3>1, <3>2
    <2>5. CASE u = t /\ Log(t)
      BY <1>2, <2>5 DEF Log, At
    <2> QED
      BY <2>2, <2>3, <2>4, <2>5
  <1> QED
    BY <1>1, <1>2 DEF CallsGoForward

(* A call takes at most ten steps of its own, including a wait from which   *)
(* the tick interrupt or the holder's post releases it; nothing that        *)
(* another task does sets it back (the safety half of CallsReturn).         *)
THEOREM CallsTakeFewSteps == Spec => [][CallsGoForward]_vars
  <1>1. TypeOK /\ SemInv /\ [Next]_vars => [CallsGoForward]_vars
    <2> SUFFICES ASSUME TypeOK, SemInv, Next PROVE CallsGoForward
      OBVIOUS
    <2>1. ASSUME NEW t \in Loggers, Log(t) \/ LogStep(t) \/ Timeout(t)
          PROVE  CallsGoForward
      BY <2>1, LogGoesForward
    <2>2. CASE ~ \E t \in Loggers : Log(t) \/ LogStep(t) \/ Timeout(t)
      <3>1. OpenView \/ Poll \/ ViewStep \/ FileStep \/ ChangeParams \/ RequestSave
            \/ SpaceMeasured
        BY <2>2 DEF Next
      <3>2. ASSUME NEW t \in Loggers, lpc[t] \notin {"idle", "request"}
            PROVE  lpc'[t] = lpc[t]
        BY <3>1, <3>2, FileFrame, ViewFrame
           DEF otherThanView, ChangeParams, RequestSave, SpaceMeasured, At, Goto, TypeOK, CallTypes
      <3>3. ASSUME NEW t \in Loggers PROVE StepsLeft[lpc[t]] \in Nat
        <4>1. lpc[t] \in LogPcs
          BY DEF TypeOK, CallTypes
        <4> QED
          BY <4>1 DEF StepsLeft, LogPcs, Locked
      <3> QED
        BY <2>2, <3>2, <3>3 DEF CallsGoForward
    <2> QED
      BY <2>1, <2>2 DEF Next
  <1> QED
    BY <1>1, TypeCorrect, SemInvAlways, PTL DEF Spec
===============================================================================
