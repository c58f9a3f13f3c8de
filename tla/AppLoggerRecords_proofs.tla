------------------------ MODULE AppLoggerRecords_proofs ------------------------
(***************************************************************************)
(* Proofs about the event logger's records: their way to AppLog.txt, the   *)
(* heap blocks they live in, the count of the calls that gave up, the ring *)
(* as an EventLog, and the viewer that reads it without the semaphore.     *)
(***************************************************************************)
EXTENDS AppLogger_proofs, FiniteSetTheorems

(* The step of LOG that accepts a record; no other touches the pipeline.    *)
LEMMA OtherCallsKeepRecords ==
  ASSUME NEW t, Log(t) \/ LogStep(t) \/ Timeout(t), ~WriteLogToFile(t)
  PROVE  UNCHANGED <<sinkVars, accepted, fileVars>>
  BY DEF LogStep, Log, Wait, Timeout, SkipLoad, SkipStore, Store, Publish,
     FixTail, Post, Free, bodyVars, fileSide, recVars, callVars

(* Failures are counted, never forgotten.                                   *)
LEMMA FailsGrow ==
  ASSUME TypeOK, [Next]_vars
  PROVE  fails \in Nat /\ fails' \in Nat /\ fails' >= fails
  <1>1. fails \in Nat /\ fails' \in Nat
    BY QueueTypesKept DEF TypeOK, QueueTypes
  <1>2. SUFFICES fails' = fails \/ \E n \in 0 .. 2 : Failures(n)
    BY <1>1 DEF Failures
  <1>3. CASE \E t \in Loggers : Log(t) \/ LogStep(t) \/ Timeout(t)
    BY <1>3 DEF LogStep, Log, Wait, Timeout, SkipLoad, SkipStore, WriteLogToFile,
       Store, Publish, FixTail, Post, Free, EnterLog, heapVars
  <1>4. CASE OpenView \/ Poll \/ ViewStep
    BY <1>4, ViewFrame DEF otherThanView, heapVars
  <1>5. CASE FileStart \/ Receive \/ More \/ Open \/ Write \/ IdleBranch \/ FreeSpace
             \/ \E e \in Errors : Report(e) \/ Reset(e)
    BY <1>5 DEF FileStart, Receive, More, Open, Write, IdleBranch, FreeSpace, Report,
       Reset, EnterLog, heapVars
  <1>6. CASE SaveAlloc \/ SaveOpen \/ SaveWrite \/ SaveClose
    BY <1>6 DEF SaveAlloc, SaveOpen, SaveWrite, SaveClose, EnterLog, heapVars
  <1>7. CASE ChangeParams \/ RequestSave \/ SpaceMeasured
    BY <1>7, OtherFrame DEF heapVars
  <1>8. CASE UNCHANGED vars
    BY <1>8 DEF vars, heapVars
  <1> QED
    BY <1>3, <1>4, <1>5, <1>6, <1>7, <1>8 DEF Next, FileStep

-------------------------------------------------------------------------------
(* The record in the file task's hand.  It has one exactly from the queue   *)
(* to the file, and its line buffer is allocated once.                      *)
HandSound ==
  /\ fpc \in {"open", "write"} => cur # NoRec
  /\ fpc \notin {"open", "write", "fault"} => cur = NoRec
  /\ fpc = "start" => ~tstr

(* What is on its way or has arrived is in the order of acceptance, and     *)
(* each record accepted is there, was counted as dropped, or was not taken  *)
(* by the card.                                                             *)
PipeInv ==
  /\ HandSound
  /\ FileOrder
  /\ \A i \in 1 .. Len(Pipeline) : Pipeline[i] \in 1 .. accepted

(* The types of the pipeline's parts.                                       *)
LEMMA PipeTypes ==
  ASSUME TypeOK
  PROVE  /\ file \in Seq(Nat) /\ queue \in Seq(Nat) /\ InHand \in Seq(Nat)
         /\ Pipeline \in Seq(Nat)
         /\ Len(Pipeline) = Len(file) + Len(InHand) + Len(queue)
  <1>1. file \in Seq(Nat) /\ queue \in Seq(Nat) /\ cur \in Nat
    BY DEF TypeOK, QueueTypes, FileTypes
  <1>2. InHand \in Seq(Nat)
    BY <1>1 DEF InHand
  <1>3. file \o InHand \in Seq(Nat) /\ Len(file \o InHand) = Len(file) + Len(InHand)
    BY <1>1, <1>2, ConcatProperties
  <1> QED
    BY <1>1, <1>2, <1>3, ConcatProperties DEF Pipeline

(* An accepted record that is queued enters the pipeline at its end.        *)
LEMMA QueuedLast ==
  ASSUME TypeOK, NEW r \in Nat, queue' = Append(queue, r),
         UNCHANGED <<file, cur>>
  PROVE  Pipeline' = Append(Pipeline, r)
  <1>1. file \in Seq(Nat) /\ queue \in Seq(Nat) /\ InHand \in Seq(Nat)
        /\ Pipeline \in Seq(Nat)
    BY PipeTypes
  <1>2. Append(queue, r) = queue \o <<r>> /\ Append(Pipeline, r) = Pipeline \o <<r>>
    BY <1>1, AppendIsConcat
  <1>3. Pipeline' = (file \o InHand) \o (queue \o <<r>>)
    BY <1>2 DEF Pipeline, InHand
  <1>4. <<r>> \in Seq(Nat) /\ file \o InHand \in Seq(Nat)
    BY <1>1, ConcatProperties
  <1> DEFINE f == file \o InHand
             q == queue
             x == <<r>>
  <1>5. f \o (q \o x) = (f \o q) \o x
    <2> HIDE DEF f, q, x
    <2>1. f \in Seq(Nat) /\ q \in Seq(Nat) /\ x \in Seq(Nat)
      BY <1>1, <1>4 DEF f, q, x
    <2> QED
      BY <2>1, SMT
  <1> QED
    BY <1>2, <1>3, <1>5, Zenon DEF Pipeline

(* Taking a record from the queue into an empty hand leaves it as it was.   *)
LEMMA TakenSame ==
  ASSUME TypeOK, Dequeue, cur = NoRec, Head(queue) # NoRec, UNCHANGED file
  PROVE  Pipeline' = Pipeline
  <1>1. file \in Seq(Nat) /\ queue \in Seq(Nat) /\ queue # <<>>
    BY PipeTypes DEF Dequeue
  <1>2. Head(queue) \in Nat /\ Tail(queue) \in Seq(Nat)
        /\ queue = <<Head(queue)>> \o Tail(queue)
    BY <1>1
  <1>3. InHand = <<>> /\ InHand' = <<Head(queue)>> /\ queue' = Tail(queue)
    BY DEF InHand, Dequeue
  <1>4. <<Head(queue)>> \in Seq(Nat)
    BY <1>2
  <1>5. Pipeline = file \o queue
    BY <1>1, <1>3, ConcatEmptySeq DEF Pipeline
  <1>6. Pipeline' = (file \o <<Head(queue)>>) \o Tail(queue)
    BY <1>3 DEF Pipeline
  <1> DEFINE x == <<Head(queue)>>
             r == Tail(queue)
  <1>7. (file \o x) \o r = file \o (x \o r)
    <2> HIDE DEF x, r
    <2>1. file \in Seq(Nat) /\ x \in Seq(Nat) /\ r \in Seq(Nat)
      BY <1>1, <1>2, <1>4 DEF x, r
    <2> QED
      BY <2>1, SMT
  <1> QED
    BY <1>2, <1>5, <1>6, <1>7, Zenon

(* Writing the record in hand does, too.                                    *)
LEMMA WrittenSame ==
  ASSUME TypeOK, cur # NoRec, file' = Append(file, cur), cur' = NoRec,
         UNCHANGED queue
  PROVE  Pipeline' = Pipeline
  <1>1. file \in Seq(Nat) /\ queue \in Seq(Nat) /\ cur \in Nat
    BY DEF TypeOK, QueueTypes, FileTypes
  <1>2. Append(file, cur) = file \o <<cur>> /\ file \o <<cur>> \in Seq(Nat)
    BY <1>1, AppendIsConcat, AppendProperties
  <1>3. InHand = <<cur>> /\ InHand' = <<>>
    BY DEF InHand
  <1>4. Pipeline' = ((file \o <<cur>>) \o <<>>) \o queue
    BY <1>2, <1>3 DEF Pipeline
  <1> QED
    BY <1>2, <1>3, <1>4, ConcatEmptySeq DEF Pipeline

(* A record in hand that the card does not take leaves a gap in the middle. *)
LEMMA GivenUpOrder ==
  ASSUME TypeOK, PipeInv, cur # NoRec, cur' = NoRec,
         UNCHANGED <<file, queue, accepted>>
  PROVE  /\ \A i, j \in 1 .. Len(Pipeline') :
              i < j => Pipeline'[i] < Pipeline'[j]
         /\ \A i \in 1 .. Len(Pipeline') : Pipeline'[i] \in 1 .. accepted'
         /\ Len(Pipeline) \in Nat /\ Len(Pipeline') = Len(Pipeline) - 1
  <1> DEFINE n == Len(file)
             m == Len(queue)
             from(i) == IF i <= n THEN i ELSE i + 1
  <1>1. file \in Seq(Nat) /\ queue \in Seq(Nat) /\ n \in Nat /\ m \in Nat
        /\ cur \in Nat /\ Pipeline \in Seq(Nat)
    BY PipeTypes DEF TypeOK, FileTypes
  <1>2. InHand = <<cur>> /\ InHand' = <<>> /\ Len(InHand) = 1 /\ InHand \in Seq(Nat)
    BY <1>1 DEF InHand
  <1>3. Pipeline' = file \o queue
    BY <1>1, <1>2, ConcatEmptySeq DEF Pipeline
  <1>4. /\ Len(Pipeline') = n + m
        /\ \A i \in 1 .. n + m : Pipeline'[i] =
             IF i <= n THEN file[i] ELSE queue[i - n]
    BY <1>1, <1>3, ConcatProperties
  <1>5. /\ file \o InHand \in Seq(Nat) /\ Len(file \o InHand) = n + 1
        /\ \A i \in 1 .. n : (file \o InHand)[i] = file[i]
    BY <1>1, <1>2, ConcatProperties
  <1>6. /\ Len(Pipeline) = n + 1 + m
        /\ \A i \in 1 .. n + 1 + m : Pipeline[i] =
             IF i <= n + 1 THEN (file \o InHand)[i] ELSE queue[i - (n + 1)]
    <2> DEFINE f == file \o InHand
    <2>1. f \in Seq(Nat) /\ Len(f) = n + 1 /\ Pipeline = f \o queue
      BY <1>5 DEF Pipeline
    <2> HIDE DEF f
    <2>2. /\ Len(f \o queue) = Len(f) + Len(queue)
          /\ \A i \in 1 .. Len(f) + Len(queue) : (f \o queue)[i] =
               IF i <= Len(f) THEN f[i] ELSE queue[i - Len(f)]
      BY <1>1, <2>1, ConcatProperties, Zenon
    <2> QED
      BY <2>1, <2>2 DEF f
  <1> HIDE DEF n, m
  <1>7. \A i \in 1 .. n + m : from(i) \in 1 .. Len(Pipeline)
                              /\ Pipeline'[i] = Pipeline[from(i)]
    <2> SUFFICES ASSUME NEW i \in 1 .. n + m
                 PROVE  from(i) \in 1 .. Len(Pipeline)
                        /\ Pipeline'[i] = Pipeline[from(i)]
      OBVIOUS
    <2>1. CASE i <= n
      <3>1. from(i) = i /\ i \in 1 .. n /\ i \in 1 .. n + 1 + m /\ i <= n + 1
        BY <1>1, <2>1
      <3>2. Pipeline[i] = (file \o InHand)[i]
        <4> DEFINE f == file \o InHand
        <4> HIDE DEF f
        <4>1. \A k \in 1 .. n + 1 + m : Pipeline[k] =
                IF k <= n + 1 THEN f[k] ELSE queue[k - (n + 1)]
          BY <1>6 DEF f
        <4>2. Pipeline[i] = f[i]
          BY <3>1, <4>1
        <4> QED
          BY <4>2 DEF f
      <3>3. Pipeline'[i] = file[i] /\ (file \o InHand)[i] = file[i]
        BY <1>4, <1>5, <2>1, <3>1
      <3> QED
        BY <1>6, <3>1, <3>2, <3>3
    <2>2. CASE i > n
      <3>1. from(i) = i + 1 /\ i + 1 \in 1 .. n + 1 + m /\ ~(i + 1 <= n + 1)
        BY <1>1, <2>2
      <3>2. Pipeline[i + 1] = queue[i + 1 - (n + 1)]
        <4> DEFINE f == file \o InHand
        <4> HIDE DEF f
        <4>1. \A k \in 1 .. n + 1 + m : Pipeline[k] =
                IF k <= n + 1 THEN f[k] ELSE queue[k - (n + 1)]
          BY <1>6 DEF f
        <4>2. PICK j \in 1 .. n + 1 + m : j = i + 1
          BY <3>1
        <4>3. ~(j <= n + 1)
          BY <3>1, <4>2
        <4>4. Pipeline[j] = queue[j - (n + 1)]
          BY <1>1, <4>1, <4>3
        <4> QED
          BY <1>1, <4>2, <4>4
      <3>3. i + 1 - (n + 1) = i - n
        BY <1>1
      <3> QED
        BY <1>1, <1>4, <1>6, <2>2, <3>1, <3>2, <3>3
    <2> QED
      BY <1>1, <2>1, <2>2
  <1>8. \A i, j \in 1 .. n + m : i < j => from(i) < from(j)
    BY <1>1
  <1>9. Len(Pipeline) \in Nat /\ Len(Pipeline') = Len(Pipeline) - 1
    BY <1>1, <1>4, <1>6
  <1> HIDE DEF from
  <1> QED
    BY <1>4, <1>7, <1>8, <1>9 DEF PipeInv, FileOrder

(* The first record of the queue is a record.                               *)
LEMMA HeadIsRecord ==
  ASSUME TypeOK, PipeInv, queue # <<>>
  PROVE  Head(queue) # NoRec
  <1>1. /\ file \in Seq(Nat) /\ queue \in Seq(Nat) /\ InHand \in Seq(Nat)
        /\ Len(Pipeline) = Len(file) + Len(InHand) + Len(queue)
    BY PipeTypes
  <1> DEFINE k == Len(file) + Len(InHand)
  <1>2. /\ Len(queue) \in Nat /\ Len(queue) >= 1 /\ Head(queue) = queue[1]
        /\ k \in Nat
    BY <1>1, EmptySeq, LenProperties
  <1>3. file \o InHand \in Seq(Nat) /\ Len(file \o InHand) = k
    BY <1>1, ConcatProperties
  <1>4. \A i \in 1 .. k + Len(queue) : Pipeline[i] =
          IF i <= k THEN (file \o InHand)[i] ELSE queue[i - k]
    BY <1>1, <1>3, ConcatProperties DEF Pipeline
  <1> HIDE DEF k
  <1>5. k + 1 \in 1 .. k + Len(queue) /\ ~(k + 1 <= k) /\ k + 1 - k = 1
    BY <1>2
  <1>6. Pipeline[k + 1] = queue[1]
    BY <1>2, <1>4, <1>5
  <1>7. Pipeline[k + 1] \in 1 .. accepted
    BY <1>1, <1>5 DEF PipeInv, k
  <1> QED
    BY <1>2, <1>6, <1>7 DEF NoRec, TypeOK, CallTypes

(* A step that leaves the pipeline's contents and counts alone keeps the    *)
(* invariant, as far as the hand agrees with the file task's place.         *)
LEMMA PipeSame ==
  ASSUME TypeOK, PipeInv, HandSound', Pipeline' = Pipeline,
         UNCHANGED <<accepted, dropped, unwritten>>,
         fails' \in Nat, fails' >= fails
  PROVE  PipeInv'
  <1>1. unwritten \in Nat /\ fails \in Nat
    BY DEF TypeOK, FileTypes, QueueTypes
  <1> QED
    BY <1>1 DEF PipeInv, FileOrder

(* So does the loss of the record in hand to a failure of the card.         *)
LEMMA PipeLoses ==
  ASSUME TypeOK, PipeInv, HandSound', cur # NoRec, cur' = NoRec,
         UNCHANGED <<file, queue, accepted, dropped>>, unwritten' = unwritten + 1,
         fails' \in Nat, fails' >= fails + 1
  PROVE  PipeInv'
  <1>1. unwritten \in Nat /\ fails \in Nat /\ dropped \in Nat /\ accepted \in Nat
    BY DEF TypeOK, FileTypes, QueueTypes, CallTypes
  <1>2. accepted = Len(Pipeline) + dropped + unwritten /\ unwritten <= fails
    BY DEF PipeInv, FileOrder
  <1>3. accepted' = Len(Pipeline') + dropped' + unwritten' /\ unwritten' <= fails'
    BY <1>1, <1>2, GivenUpOrder
  <1> QED
    BY <1>3, GivenUpOrder DEF PipeInv, FileOrder

(* Accepting a record keeps the invariant.                                  *)
LEMMA PipeAccept ==
  ASSUME TypeOK, PipeInv, NEW t \in Loggers, WriteLogToFile(t),
         fails' \in Nat, fails' >= fails
  PROVE  PipeInv'
  <1>1. UNCHANGED <<fpc, cur, tstr, file, unwritten>>
    BY DEF WriteLogToFile, fileSide, fileVars, lineVars
  <1>2. HandSound'
    BY <1>1 DEF HandSound, PipeInv
  <1>3. accepted' = accepted + 1 /\ accepted \in Nat /\ dropped \in Nat
    BY DEF WriteLogToFile, TypeOK, CallTypes, QueueTypes
  <1>4. Pipeline \in Seq(Nat) /\ Len(Pipeline) \in Nat
    BY PipeTypes
  <1>8. unwritten \in Nat /\ unwritten' <= fails'
    BY <1>1 DEF TypeOK, FileTypes, QueueTypes, PipeInv, FileOrder
  <1>5. CASE UNCHANGED queue /\ dropped' = dropped + 1
    <2>1. Pipeline' = Pipeline
      BY <1>1, <1>5 DEF Pipeline, InHand
    <2> QED
      BY <1>1, <1>2, <1>3, <1>4, <1>8, <1>5, <2>1 DEF PipeInv, FileOrder
  <1>6. CASE queue' = Append(queue, accepted') /\ UNCHANGED dropped
    <2> DEFINE n == Len(Pipeline)
    <2>1. Pipeline' = Append(Pipeline, accepted + 1)
      BY <1>1, <1>3, <1>6, QueuedLast
    <2>2. /\ Len(Pipeline') = n + 1
          /\ \A i \in 1 .. n : Pipeline'[i] = Pipeline[i]
          /\ Pipeline'[n + 1] = accepted + 1
      BY <1>3, <1>4, <2>1, AppendProperties
    <2>3. \A i \in 1 .. n : Pipeline[i] \in 1 .. accepted
      BY DEF PipeInv
    <2>4. \A i, j \in 1 .. n : i < j => Pipeline[i] < Pipeline[j]
      BY DEF PipeInv, FileOrder
    <2>5. accepted = n + dropped + unwritten
      BY DEF PipeInv, FileOrder
    <2>6. n \in Nat
      BY <1>4
    <2> HIDE DEF n
    <2>7. \A i \in 1 .. n + 1 : i = n + 1 \/ i \in 1 .. n
      BY <2>6
    <2>8. \A i \in 1 .. n + 1 : Pipeline'[i] \in 1 .. accepted'
      BY <1>3, <2>2, <2>3, <2>7
    <2>9. ASSUME NEW i \in 1 .. n + 1, NEW j \in 1 .. n + 1, i < j
          PROVE  Pipeline'[i] < Pipeline'[j]
      <3>1. i \in 1 .. n
        BY <2>6, <2>9
      <3>2. CASE j = n + 1
        BY <1>3, <2>2, <2>3, <3>1, <3>2
      <3>3. CASE j \in 1 .. n
        BY <2>2, <2>4, <2>9, <3>1, <3>3
      <3> QED
        BY <2>7, <3>2, <3>3
    <2>10. accepted' = Len(Pipeline') + dropped' + unwritten'
      BY <1>1, <1>3, <1>8, <1>6, <2>2, <2>5, <2>6
    <2> QED
      BY <1>2, <1>8, <2>2, <2>8, <2>9, <2>10 DEF PipeInv, FileOrder
  <1> QED
    BY <1>5, <1>6 DEF WriteLogToFile, CountError

(* The file task's steps keep it.                                           *)
LEMMA PipeFile ==
  ASSUME TypeOK, PipeInv, FileStep, fails' \in Nat, fails' >= fails
  PROVE  PipeInv'
  <1>0. UNCHANGED accepted
    BY FileFrame DEF logSide, callVars, recVars
  <1> USE DEF FileAt, FileGoto
  <1>1. CASE FileStart
    <2>1. /\ fpc = "start" /\ fpc' = "recv"
          /\ UNCHANGED <<cur, file, queue, dropped, unwritten>>
      BY <1>1 DEF FileStart, sinkVars
    <2>2. HandSound' /\ Pipeline' = Pipeline
      BY <2>1 DEF HandSound, PipeInv, Pipeline, InHand
    <2> QED
      BY <1>0, <2>1, <2>2, PipeSame
  <1>2. CASE Receive \/ More
    <2>1. /\ fpc \in {"recv", "more"} /\ UNCHANGED <<file, tstr, dropped, unwritten>>
          /\ cur = NoRec
      BY <1>2 DEF Receive, More, PipeInv, HandSound
    <2>2. CASE Dequeue
      <3>1. queue # <<>> /\ cur' = Head(queue) /\ Head(queue) # NoRec
        BY <2>2, HeadIsRecord DEF Dequeue
      <3>2. fpc' \in {"open", "write"}
        BY <1>2, <3>1 DEF Receive, More
      <3>3. Pipeline' = Pipeline
        BY <2>1, <2>2, <3>1, TakenSame
      <3>4. HandSound'
        BY <3>1, <3>2 DEF HandSound
      <3> QED
        BY <1>0, <2>1, <3>2, <3>3, <3>4, PipeSame
    <2>3. CASE UNCHANGED <<cur, queue>> /\ fpc' \in {"recv", "idle"}
      <3>1. Pipeline' = Pipeline /\ HandSound'
        BY <2>1, <2>3 DEF Pipeline, InHand, HandSound
      <3> QED
        BY <1>0, <2>1, <2>3, <3>1, PipeSame
    <2> QED
      BY <1>2, <2>2, <2>3 DEF Receive, More
  <1>3. CASE Open
    <2>1. /\ fpc = "open" /\ cur # NoRec
          /\ UNCHANGED <<file, tstr, queue, dropped>>
      BY <1>3 DEF Open, PipeInv, HandSound, sinkVars
    <2>2. CASE fpc' = "write" /\ UNCHANGED <<cur, unwritten>>
      <3>1. Pipeline' = Pipeline /\ HandSound'
        BY <2>1, <2>2 DEF Pipeline, InHand, HandSound
      <3> QED
        BY <1>0, <2>1, <2>2, <3>1, PipeSame
    <2>3. CASE /\ fpc' = "dead" /\ cur' = NoRec /\ unwritten' = unwritten + 1
               /\ EnterLog(FileTask, 1, -1)
      <3>1. fails' >= fails + 1 /\ fails' \in Nat
        BY <2>3 DEF EnterLog, Failures, TypeOK, QueueTypes
      <3>2. HandSound'
        BY <2>1, <2>3 DEF HandSound
      <3> QED
        BY <1>0, <2>1, <2>3, <3>1, <3>2, PipeLoses
    <2> QED
      BY <1>3, <2>2, <2>3 DEF Open
  <1>4. CASE Write
    <2>1. fpc = "write" /\ cur # NoRec /\ UNCHANGED <<tstr, queue, dropped>>
      BY <1>4 DEF Write, PipeInv, HandSound, sinkVars
    <2>2. CASE /\ fpc' = "report_alloc" /\ file' = Append(file, cur) /\ cur' = NoRec
               /\ UNCHANGED unwritten
      <3>1. Pipeline' = Pipeline
        BY <2>1, <2>2, WrittenSame
      <3>2. HandSound'
        BY <2>2 DEF HandSound
      <3> QED
        BY <1>0, <2>1, <2>2, <3>1, <3>2, PipeSame
    <2>4. CASE /\ fpc' = "report_alloc" /\ unwritten' = unwritten + 1 /\ Failures(1)
               /\ UNCHANGED file /\ cur' = NoRec
      <3>1. fails' >= fails + 1 /\ fails' \in Nat
        BY <2>4 DEF Failures, TypeOK, QueueTypes
      <3>2. HandSound'
        BY <2>4 DEF HandSound
      <3> QED
        BY <1>0, <2>1, <2>4, <3>1, <3>2, PipeLoses
    <2>3. CASE fpc' = "fault" /\ UNCHANGED <<file, cur, unwritten>>
      <3>1. Pipeline' = Pipeline /\ HandSound'
        BY <2>1, <2>3 DEF Pipeline, InHand, HandSound
      <3> QED
        BY <1>0, <2>1, <2>3, <3>1, PipeSame
    <2> QED
      BY <1>4, <2>2, <2>3, <2>4 DEF Write
  <1>5. CASE (\E e \in Errors : Report(e) \/ Reset(e)) \/ IdleBranch \/ FreeSpace
             \/ SaveAlloc \/ SaveOpen \/ SaveWrite \/ SaveClose
    <2>1. UNCHANGED <<cur, tstr, file, queue, dropped, unwritten>>
      BY <1>5 DEF Report, Reset, IdleBranch, FreeSpace, SaveAlloc, SaveOpen,
         SaveWrite, SaveClose, lineVars, sinkVars
    <2>2. fpc \notin {"start", "open", "write", "fault", "dead"}
          /\ fpc' \notin {"start", "open", "write"}
      BY <1>5 DEF Report, Reset, IdleBranch, FreeSpace, SaveAlloc, SaveOpen,
         SaveWrite, SaveClose, Errors, ReportPc, ResetPc, AfterPc
    <2>3. Pipeline' = Pipeline /\ HandSound'
      BY <2>1, <2>2 DEF Pipeline, InHand, HandSound, PipeInv
    <2> QED
      BY <1>0, <2>1, <2>2, <2>3, PipeSame
  <1> QED
    BY <1>1, <1>2, <1>3, <1>4, <1>5 DEF FileStep

(* Every step keeps it.                                                     *)
LEMMA PipeKept ==
  ASSUME TypeOK, PipeInv, [Next]_vars
  PROVE  PipeInv'
  <1> DEFINE Parts == <<queue, dropped, accepted, fpc, cur, tstr, file, unwritten>>
  <1>0. fails' \in Nat /\ fails' >= fails
    BY FailsGrow
  <1>1. UNCHANGED Parts => PipeInv'
    <2> SUFFICES ASSUME UNCHANGED Parts PROVE PipeInv'
      OBVIOUS
    <2>1. HandSound' /\ Pipeline' = Pipeline
      BY DEF PipeInv, HandSound, Pipeline, InHand
    <2> QED
      BY <1>0, <2>1, PipeSame
  <1>2. ASSUME NEW t \in Loggers, Log(t) \/ LogStep(t) \/ Timeout(t)
        PROVE  PipeInv'
    <2>1. CASE WriteLogToFile(t)
      BY <1>0, <2>1, PipeAccept
    <2>2. CASE ~WriteLogToFile(t)
      BY <1>1, <1>2, <2>2, OtherCallsKeepRecords DEF sinkVars, fileVars, lineVars
    <2> QED
      BY <2>1, <2>2
  <1>3. CASE OpenView \/ Poll \/ ViewStep
    BY <1>1, <1>3, ViewFrame
    DEF otherThanView, callVars, recVars, sinkVars, fileVars, lineVars
  <1>4. CASE FileStep
    BY <1>0, <1>4, PipeFile
  <1>5. CASE ChangeParams \/ RequestSave \/ SpaceMeasured
    BY <1>1, <1>5, OtherFrame DEF lineVars, logSide, callVars, recVars, sinkVars
  <1>6. CASE UNCHANGED vars
    BY <1>1, <1>6 DEF vars, callVars, recVars, sinkVars, fileSide, fileVars, lineVars
  <1> QED
    BY <1>2, <1>3, <1>4, <1>5, <1>6 DEF Next

(* Hence it always holds.                                                   *)
LEMMA PipeAlways == Spec => []PipeInv
  <1>1. Init => PipeInv
    <2> SUFFICES ASSUME Init PROVE PipeInv
      OBVIOUS
    <2>1. Pipeline = <<>>
      BY ConcatEmptySeq DEF Init, Pipeline, InHand
    <2> QED
      BY <2>1 DEF Init, PipeInv, FileOrder, HandSound
  <1>2. TypeOK /\ PipeInv /\ [Next]_vars => PipeInv'
    BY PipeKept
  <1> QED
    BY <1>1, <1>2, TypeCorrect, PTL DEF Spec

(* Records reach AppLog.txt in the order of acceptance, each once, and each *)
(* that is missing was counted as dropped or was in the file task's hand    *)
(* when the card failed: no more of these, which nothing counts, than the   *)
(* card's failures (App_logger.c: _write_log_to_file, Task_file_log).       *)
THEOREM RecordsInOrder == Spec => []FileOrder
  <1>1. PipeInv => FileOrder
    BY DEF PipeInv
  <1> QED
    BY <1>1, PipeAlways, PTL

-------------------------------------------------------------------------------
(* The heap blocks.  Those of the messages are counted by the tasks that    *)
(* hold one; the rest by the variables of the file task.                    *)
Outside == {"idle", "request"}

FileBlocks ==
  (IF cur # NoRec THEN 1 ELSE 0) + (IF tstr THEN 1 ELSE 0) + SaveBuffers + leaked

HeapInv ==
  /\ IsFiniteSet(HoldsMessage)
  /\ held = Cardinality(HoldsMessage) + Len(queue) + FileBlocks

(* A sum and one of its parts change alike.                                 *)
LEMMA SumShifts ==
  ASSUME NEW h \in Int, NEW g \in Int, NEW m \in Int, NEW n \in Int,
         NEW q \in Int, NEW f \in Int,
         h = m + q + f, g - n = h - m + 0
  PROVE  g = n + q + f
  OBVIOUS

(* The two sums are the same.                                               *)
LEMMA HeapInvMeaning == ASSUME TypeOK, HeapInv PROVE HeapAccounted
  <1>1. Cardinality(HoldsMessage) \in Nat /\ Len(queue) \in Nat
        /\ leaked \in Nat /\ SaveBuffers \in Nat
    BY FS_CardinalityType, PipeTypes, LenProperties
    DEF HeapInv, TypeOK, SaveTypes, SaveBuffers
  <1> QED
    BY <1>1 DEF HeapInv, HeapAccounted, FileBlocks

(* A task that goes from outside to inside LOG holds one message more, one  *)
(* that goes back one less, and any other step leaves them as they are.     *)
LEMMA MessageTaken ==
  ASSUME TypeOK, IsFiniteSet(HoldsMessage), NEW t \in Loggers,
         lpc[t] \in Outside, NEW p, p \notin Outside, Goto(t, p)
  PROVE  /\ IsFiniteSet(HoldsMessage')
         /\ Cardinality(HoldsMessage') = Cardinality(HoldsMessage) + 1
  <1>1. HoldsMessage' = HoldsMessage \cup {t} /\ t \notin HoldsMessage
    BY DEF HoldsMessage, Goto, TypeOK, CallTypes, Outside
  <1> QED
    BY <1>1, FS_AddElement

(* See above.                                                               *)
LEMMA MessageFreed ==
  ASSUME TypeOK, IsFiniteSet(HoldsMessage), NEW t \in Loggers,
         lpc[t] \notin Outside, NEW p, p \in Outside, Goto(t, p)
  PROVE  /\ IsFiniteSet(HoldsMessage')
         /\ Cardinality(HoldsMessage') = Cardinality(HoldsMessage) - 1
  <1>1. HoldsMessage' = HoldsMessage \ {t} /\ t \in HoldsMessage
    BY DEF HoldsMessage, Goto, TypeOK, CallTypes, Outside
  <1> QED
    BY <1>1, FS_RemoveElement

(* See above.                                                               *)
LEMMA MessageKept ==
  ASSUME TypeOK, NEW t \in Loggers, NEW p, Goto(t, p),
         lpc[t] \in Outside <=> p \in Outside
  PROVE  HoldsMessage' = HoldsMessage
  BY DEF HoldsMessage, Goto, TypeOK, CallTypes, Outside

(* What beginning a call does to the heap: d blocks beyond the messages.    *)
LEMMA EnterLogBlocks ==
  ASSUME TypeOK, IsFiniteSet(HoldsMessage), NEW t \in Loggers,
         lpc[t] = "idle", NEW n, NEW d \in Int, EnterLog(t, n, d)
  PROVE  /\ IsFiniteSet(HoldsMessage')
         /\ held' - Cardinality(HoldsMessage')
              = held - Cardinality(HoldsMessage) + d
  <1>1. Cardinality(HoldsMessage) \in Nat /\ held \in Int
    BY FS_CardinalityType DEF TypeOK, QueueTypes
  <1>2. CASE held' = held + d + 1 /\ Goto(t, "wait")
    <2>1. IsFiniteSet(HoldsMessage')
          /\ Cardinality(HoldsMessage') = Cardinality(HoldsMessage) + 1
      BY <1>2, MessageTaken DEF Outside
    <2> QED
      BY <1>1, <1>2, <2>1
  <1>3. CASE held' = held + d /\ UNCHANGED lpc
    <2>1. HoldsMessage' = HoldsMessage
      BY <1>3 DEF HoldsMessage
    <2> QED
      BY <1>1, <1>3, <2>1
  <1> QED
    BY <1>2, <1>3 DEF EnterLog

(* The first waiter for the semaphore is blocked.                           *)
LEMMA FirstIsBlocked ==
  ASSUME TypeOK, SemInv, semq # <<>>
  PROVE  Head(semq) \in Loggers /\ lpc[Head(semq)] = "blocked"
  <1>1. SeqExt!IsInjective(semq) /\ semq \in Seq(Loggers)
    BY DEF SemInv, SemaphoreSound, TypeOK, CallTypes
  <1>2. Head(semq) \in Loggers /\ SeqExt!Contains(semq, Head(semq))
    BY <1>1, TakeFirst
  <1> QED
    BY <1>2 DEF SemInv, SemaphoreSound

(* A call's steps account for their blocks.                                 *)
LEMMA HeapLog ==
  ASSUME TypeOK, SemInv, HeapInv, NEW t \in Loggers,
         Log(t) \/ LogStep(t) \/ Timeout(t)
  PROVE  HeapInv'
  <1>1. UNCHANGED FileBlocks
    BY LogFrame DEF fileSide, fileVars, lineVars, saveVars, savedVars,
       FileBlocks, SaveBuffers
  <1>2. Cardinality(HoldsMessage) \in Nat /\ held \in Int /\ Len(queue) \in Nat
        /\ FileBlocks \in Nat /\ IsFiniteSet(HoldsMessage) /\ queue \in Seq(Nat)
    BY FS_CardinalityType, LenProperties DEF HeapInv, TypeOK, QueueTypes,
       SaveTypes, FileBlocks, SaveBuffers
  <1> HIDE DEF FileBlocks
  <1>3. CASE Log(t)
    <2>1. lpc[t] = "idle" /\ EnterLog(t, 0, 0) /\ UNCHANGED queue
      BY <1>3 DEF Log, At, bodyVars, sinkVars
    <2>2. /\ IsFiniteSet(HoldsMessage')
          /\ held' - Cardinality(HoldsMessage')
               = held - Cardinality(HoldsMessage) + 0
      BY <1>2, <2>1, EnterLogBlocks
    <2>3. Cardinality(HoldsMessage') \in Nat /\ held' \in Int
      BY <2>1, <2>2, EnterLogHeap, FS_CardinalityType DEF TypeOK
    <2>4. held = Cardinality(HoldsMessage) + Len(queue) + FileBlocks
      BY DEF HeapInv
    <2>5. held' = Cardinality(HoldsMessage') + Len(queue) + FileBlocks
      <3>1. /\ Cardinality(HoldsMessage) \in Int /\ Cardinality(HoldsMessage') \in Int
            /\ Len(queue) \in Int /\ FileBlocks \in Int
            /\ held \in Int /\ held' \in Int
        BY <1>2, <2>3
      <3> QED
        BY <2>2, <2>4, <3>1, SumShifts
    <2> QED
      BY <1>1, <2>1, <2>2, <2>5 DEF HeapInv
  <1>4. CASE WriteLogToFile(t)
    <2>1. lpc[t] = "record" /\ Goto(t, "store") /\ accepted' \in Nat
      BY <1>4 DEF WriteLogToFile, At, TypeOK, CallTypes
    <2>2. HoldsMessage' = HoldsMessage
      BY <2>1, MessageKept DEF Outside
    <2>3. \/ UNCHANGED <<held, queue>>
          \/ held' = held + 1 /\ queue' = Append(queue, accepted')
      BY <1>4 DEF WriteLogToFile, CountError
    <2>4. Len(Append(queue, accepted')) = Len(queue) + 1
      BY <1>2, <2>1, AppendProperties
    <2> QED
      BY <1>1, <1>2, <2>2, <2>3, <2>4 DEF HeapInv
  <1>5. CASE Free(t)
    <2>1. lpc[t] = "free" /\ Goto(t, "idle") /\ held' = held - 1 /\ UNCHANGED queue
      BY <1>5 DEF Free, At, bodyVars, sinkVars
    <2>2. IsFiniteSet(HoldsMessage')
          /\ Cardinality(HoldsMessage') = Cardinality(HoldsMessage) - 1
      BY <1>2, <2>1, MessageFreed DEF Outside
    <2> QED
      BY <1>1, <1>2, <2>1, <2>2 DEF HeapInv
  <1>6. CASE Post(t)
    <2>1. UNCHANGED <<held, queue>> /\ lpc[t] = "post"
      BY <1>6 DEF Post, At, heapVars, bodyVars, sinkVars
    <2>2. HoldsMessage' = HoldsMessage
      <3>1. CASE semq = <<>>
        <4>1. Goto(t, "free")
          BY <1>6, <3>1 DEF Post
        <4> QED
          BY <2>1, <4>1, MessageKept DEF Outside
      <3>2. CASE semq # <<>>
        BY <1>6, <2>1, <3>2, FirstIsBlocked
        DEF Post, HoldsMessage, TypeOK, CallTypes
      <3> QED
        BY <3>1, <3>2
    <2> QED
      BY <1>1, <2>1, <2>2 DEF HeapInv
  <1>7. CASE Wait(t) \/ Timeout(t) \/ SkipLoad(t) \/ SkipStore(t) \/ Store(t)
             \/ Publish(t) \/ FixTail(t)
    <2>1. UNCHANGED <<held, queue>>
      BY <1>7 DEF Wait, Timeout, SkipLoad, SkipStore, Store, Publish, FixTail,
         heapVars, bodyVars, sinkVars
    <2>2. lpc[t] \notin Outside /\ \E p : p \notin Outside /\ Goto(t, p)
      BY <1>7 DEF Wait, Timeout, SkipLoad, SkipStore, Store, Publish, FixTail,
         At, Outside
    <2>3. HoldsMessage' = HoldsMessage
      BY <2>2, MessageKept
    <2> QED
      BY <1>1, <2>1, <2>3 DEF HeapInv
  <1> QED
    BY <1>3, <1>4, <1>5, <1>6, <1>7 DEF LogStep

(* So do the file task's, the failing ones among them: what it gives back   *)
(* or forgets is in its hand, its line buffer, a save's buffers or leaked.  *)
LEMMA HeapFile ==
  ASSUME TypeOK, PipeInv, HeapInv, FileStep
  PROVE  HeapInv'
  <1> DEFINE M == Cardinality(HoldsMessage)
             B == FileBlocks
             L == Len(queue)
             F == IsFiniteSet(HoldsMessage)
  <1>1. M \in Nat /\ held \in Int /\ L \in Nat /\ leaked \in Nat /\ F
        /\ held = M + L + B
    BY FS_CardinalityType, LenProperties DEF HeapInv, TypeOK, QueueTypes, SaveTypes
  <1>2. FileTask \in Loggers /\ lpc[FileTask] = "idle"
    BY DEF Loggers, FileStep, FileStart, Receive, More, Open, Write, Report,
       Reset, IdleBranch, FreeSpace, SaveAlloc, SaveOpen, SaveWrite, SaveClose,
       FileAt
  <1>3. UNCHANGED lpc => M' = M /\ F'
    BY <1>1 DEF HoldsMessage
  <1>4. ASSUME NEW n, NEW d \in Int, EnterLog(FileTask, n, d)
        PROVE  F' /\ M' \in Nat /\ held' \in Int /\ held' - M' = held - M + d
    <2>1. F' /\ held' - M' = held - M + d
      BY <1>1, <1>2, <1>4, EnterLogBlocks
    <2>2. M' \in Nat
      BY <2>1, FS_CardinalityType
    <2>3. held' \in Int
      BY <1>1, <1>4 DEF EnterLog
    <2> QED
      BY <2>1, <2>2, <2>3
  <1> HIDE DEF M, F
  <1> USE DEF FileBlocks, SaveBuffers, FileAt, FileGoto
  <1>5. SUFFICES F' /\ held' = M' + L' + B'
    BY DEF HeapInv, M, F
  <1>6. CASE FileStart
    <2>1. ~tstr /\ fpc = "start" /\ fpc' = "recv" /\ UNCHANGED <<cur, leaked, queue>>
      BY <1>6 DEF FileStart, saveVars, savedVars, sinkVars, PipeInv, HandSound
    <2>2. CASE held' = held + 1 /\ tstr' = TRUE /\ UNCHANGED lpc
      BY <1>1, <1>3, <2>1, <2>2
    <2>3. CASE EnterLog(FileTask, 1, 0) /\ UNCHANGED tstr
      BY <1>1, <1>4, <2>1, <2>3
    <2> QED
      BY <1>6, <2>2, <2>3 DEF FileStart
  <1>7. CASE Receive \/ More
    <2>1. /\ fpc \in {"recv", "more"} /\ cur = NoRec
          /\ fpc' \in {"open", "write", "recv", "idle"}
          /\ UNCHANGED <<lpc, held, tstr, leaked>>
      BY <1>7 DEF Receive, More, heapVars, saveVars, savedVars, PipeInv, HandSound
    <2>2. CASE Dequeue /\ Head(queue) # NoRec
      <3>1. L' = L - 1
        BY <2>2, PipeTypes DEF Dequeue
      <3>2. cur' # NoRec
        BY <2>2 DEF Dequeue
      <3> QED
        BY <1>1, <1>3, <2>1, <3>1, <3>2
    <2>3. CASE UNCHANGED <<cur, queue>>
      BY <1>1, <1>3, <2>1, <2>3
    <2> QED
      BY <1>7, <2>2, <2>3, HeadIsRecord DEF Receive, More, Dequeue
  <1>8. CASE Open
    <2>1. fpc = "open" /\ cur # NoRec /\ UNCHANGED <<tstr, leaked, queue>>
      BY <1>8 DEF Open, saveVars, savedVars, sinkVars, PipeInv, HandSound
    <2>2. CASE fpc' = "write" /\ UNCHANGED <<lpc, held, cur>>
      BY <1>1, <1>3, <2>1, <2>2
    <2>3. CASE fpc' = "dead" /\ EnterLog(FileTask, 1, -1) /\ cur' = NoRec
      BY <1>1, <1>4, <2>1, <2>3
    <2> QED
      BY <1>8, <2>2, <2>3 DEF Open, heapVars
  <1>9. CASE Write
    <2>1. fpc = "write" /\ cur # NoRec /\ UNCHANGED <<lpc, tstr, leaked, queue>>
          /\ \/ fpc' = "report_alloc" /\ cur' = NoRec /\ held' = held - 1
             \/ fpc' = "fault" /\ UNCHANGED <<cur, held>>
      BY <1>9 DEF Write, heapVars, saveVars, savedVars, sinkVars, PipeInv, HandSound
    <2> QED
      BY <1>1, <1>3, <2>1
  <1>10. CASE (\E e \in Errors : Report(e) \/ Reset(e)) \/ IdleBranch
    <2>1. /\ UNCHANGED <<lpc, held, cur, tstr, leaked, queue>>
          /\ fpc \notin {"save_open", "save_write", "save_close", "save_abort"}
          /\ fpc' \notin {"save_open", "save_write", "save_close", "save_abort"}
      BY <1>10 DEF Report, Reset, IdleBranch, Errors, ReportPc, ResetPc, AfterPc,
         heapVars, lineVars, saveVars, savedVars, sinkVars
    <2> QED
      BY <1>1, <1>3, <2>1
  <1>11. CASE FreeSpace
    <2>1. fpc = "space" /\ fpc' = "recv" /\ UNCHANGED <<cur, tstr, leaked, queue>>
      BY <1>11 DEF FreeSpace, lineVars, saveVars, savedVars, sinkVars
    <2>2. UNCHANGED <<lpc, held>> \/ EnterLog(FileTask, 0, 0)
      BY <1>11 DEF FreeSpace, heapVars
    <2> QED
      BY <1>1, <1>3, <1>4, <2>1, <2>2
  <1>12. CASE SaveAlloc
    <2>1. fpc = "save" /\ UNCHANGED <<cur, tstr, queue>>
      BY <1>12 DEF SaveAlloc, lineVars, sinkVars
    <2>2. CASE fpc' = "save_open" /\ held' = held + 2 /\ UNCHANGED <<lpc, leaked>>
      BY <1>1, <1>3, <2>1, <2>2
    <2>3. CASE fpc' = "space" /\ EnterLog(FileTask, 1, 0) /\ UNCHANGED leaked
      BY <1>1, <1>4, <2>1, <2>3
    <2>4. CASE fpc' = "space" /\ EnterLog(FileTask, 1, 1) /\ leaked' = leaked + 1
      BY <1>1, <1>4, <2>1, <2>4
    <2> QED
      BY <1>12, <2>2, <2>3, <2>4 DEF SaveAlloc
  <1>13. CASE SaveOpen
    <2>1. fpc = "save_open" /\ UNCHANGED <<cur, tstr, queue>>
      BY <1>13 DEF SaveOpen, lineVars, sinkVars
    <2>2. CASE fpc' = "save_write" /\ UNCHANGED <<lpc, held, leaked>>
      BY <1>1, <1>3, <2>1, <2>2
    <2>3. CASE fpc' = "space" /\ leaked' = leaked + 1 /\ EnterLog(FileTask, 1, -1)
      BY <1>1, <1>4, <2>1, <2>3
    <2> QED
      BY <1>13, <2>2, <2>3 DEF SaveOpen, heapVars
  <1>14. CASE SaveWrite
    <2>1. fpc = "save_write" /\ UNCHANGED <<cur, tstr, queue, leaked>>
      BY <1>14 DEF SaveWrite, lineVars, sinkVars
    <2>2. CASE fpc' = "save_close" /\ UNCHANGED <<lpc, held>>
      BY <1>1, <1>3, <2>1, <2>2
    <2>3. CASE fpc' = "save_abort" /\ EnterLog(FileTask, 1, 0)
      BY <1>1, <1>4, <2>1, <2>3
    <2> QED
      BY <1>14, <2>2, <2>3 DEF SaveWrite, heapVars
  <1>15. CASE SaveClose
    <2>1. fpc \in {"save_close", "save_abort"} /\ fpc' = "space"
          /\ UNCHANGED <<cur, tstr, queue, leaked>>
      BY <1>15 DEF SaveClose, lineVars, saveVars, savedVars, sinkVars
    <2>2. CASE EnterLog(FileTask, 0, -2)
      BY <1>1, <1>4, <2>1, <2>2
    <2>3. CASE held' = held - 2 /\ UNCHANGED lpc
      BY <1>1, <1>3, <2>1, <2>3
    <2> QED
      BY <1>15, <2>2, <2>3 DEF SaveClose
  <1> QED
    BY <1>6, <1>7, <1>8, <1>9, <1>10, <1>11, <1>12, <1>13, <1>14, <1>15 DEF FileStep

(* Every step keeps it.                                                     *)
LEMMA HeapKept ==
  ASSUME TypeOK, SemInv, PipeInv, HeapInv, [Next]_vars
  PROVE  HeapInv'
  <1>1. UNCHANGED <<held, HoldsMessage, queue, FileBlocks>> => HeapInv'
    BY DEF HeapInv
  <1>2. CASE OpenView \/ Poll \/ ViewStep
    BY <1>1, <1>2, ViewFrame
    DEF otherThanView, heapVars, sinkVars, fileVars, lineVars, saveVars,
        savedVars, HoldsMessage, FileBlocks, SaveBuffers
  <1>3. CASE ChangeParams \/ RequestSave \/ SpaceMeasured
    <2>1. UNCHANGED <<held, queue, FileBlocks>>
      BY <1>3, OtherFrame
      DEF heapVars, sinkVars, lineVars, savedVars, FileBlocks, SaveBuffers
    <2>2. Mzts \in Loggers
      BY TaskAssumption DEF Loggers
    <2>3. HoldsMessage' = HoldsMessage
      <3>1. CASE ChangeParams \/ RequestSave
        <4>1. lpc[Mzts] \in Outside /\ \E p : p \in Outside /\ Goto(Mzts, p)
          BY <3>1 DEF ChangeParams, RequestSave, At, Outside
        <4> QED
          BY <2>2, <4>1, MessageKept
      <3>2. CASE SpaceMeasured
        BY <3>2 DEF SpaceMeasured, HoldsMessage
      <3> QED
        BY <1>3, <3>1, <3>2
    <2> QED
      BY <1>1, <2>1, <2>3
  <1>4. CASE UNCHANGED vars
    BY <1>1, <1>4
    DEF vars, heapVars, sinkVars, fileSide, fileVars, lineVars, saveVars,
        savedVars, HoldsMessage, FileBlocks, SaveBuffers
  <1> QED
    BY <1>2, <1>3, <1>4, HeapLog, HeapFile DEF Next

(* No block of the heap is lost, on whatever path an allocation, a file     *)
(* operation or a wait fails, but the ones Save_Params_to_file leaks        *)
(* (App_logger.c, Parameters.c).                                            *)
THEOREM BlocksAccounted == Spec => []HeapAccounted
  <1>1. Init => HeapInv
    <2> SUFFICES ASSUME Init PROVE HeapInv
      OBVIOUS
    <2>1. HoldsMessage = {}
      BY DEF Init, HoldsMessage
    <2>2. Len(queue) = 0 /\ FileBlocks = 0 /\ held = 0
      BY DEF Init, FileBlocks, SaveBuffers
    <2> QED
      BY <2>1, <2>2, FS_EmptySet DEF HeapInv
  <1>2. TypeOK /\ SemInv /\ PipeInv /\ HeapInv /\ [Next]_vars => HeapInv'
    BY HeapKept
  <1>3. TypeOK /\ HeapInv => HeapAccounted
    BY HeapInvMeaning
  <1> QED
    BY <1>1, <1>2, <1>3, TypeCorrect, SemInvAlways, PipeAlways, PTL DEF Spec

-------------------------------------------------------------------------------
(* The calls that gave up.  A count is the load and the store of one task.  *)
(* Counts nest: a task comes in between only if it stands above the one     *)
(* that is counting, and then it finishes first.  The outermost count sets  *)
(* sync_err to what it was before all those made in the middle of it.       *)
Outermost(b) == b \in Counting /\ \A u \in Counting : Prio[u] <= Prio[b]

SkipInv ==
  /\ \A t \in Loggers : lpc[t] = "skipstore" => tmp[t] < skips
  /\ \A b \in Loggers : Outermost(b) => tmp[b] + raced + 1 = skips
  /\ sync_err <= skips
  /\ Counting = {} => sync_err + raced = skips

(* No two tasks that log share a priority.                                  *)
DistinctPriorities == \A t, u \in Loggers : t # u => Prio[t] # Prio[u]

(* A step that counts nothing keeps it.                                     *)
LEMMA SkipSame ==
  ASSUME TypeOK, SkipInv, UNCHANGED <<skipVars, Counting>>
  PROVE  SkipInv'
  <1>1. \A t \in Loggers : lpc'[t] = "skipstore" => lpc[t] = "skipstore"
    <2> SUFFICES ASSUME NEW t \in Loggers, lpc'[t] = "skipstore"
                 PROVE  lpc[t] = "skipstore"
      OBVIOUS
    <2>1. t \in Counting'
      BY DEF Counting
    <2> QED
      BY <2>1 DEF Counting
  <1>2. \A b \in Loggers : Outermost(b)' <=> Outermost(b)
    BY DEF Outermost
  <1> QED
    BY <1>1, <1>2 DEF SkipInv, skipVars

(* A task that runs stands above every task that is counting but itself.    *)
LEMMA CountsNest ==
  ASSUME DistinctPriorities, NEW t \in Loggers, CanRun(t),
         NEW u \in Counting, u # t
  PROVE  Prio[t] < Prio[u]
  <1>1. u \in Loggers /\ lpc[u] = "skipstore" /\ u # Viewer
    BY TaskAssumption DEF Counting
  <1>2. Prio[t] \in Nat /\ Prio[u] \in Nat /\ Prio[t] # Prio[u]
    BY <1>1, PrioAssumption DEF DistinctPriorities, Tasks
  <1>3. Ready(u)
    BY <1>1 DEF Ready
  <1>4. CASE u = FileTask
    BY <1>4, PrioAssumption DEF Tasks
  <1>5. CASE u # FileTask
    <2>1. u \in Tasks \ {t, FileTask}
      BY <1>1, <1>5 DEF Tasks
    <2>2. ~(Prio[u] < Prio[t])
      BY <1>3, <2>1 DEF CanRun
    <2> QED
      BY <1>2, <2>2
  <1> QED
    BY <1>4, <1>5

(* The load and the store, in any order with those of other tasks.          *)
LEMMA SkipCounts ==
  ASSUME DistinctPriorities, TypeOK, SkipInv, NEW t \in Loggers,
         SkipLoad(t) \/ SkipStore(t)
  PROVE  SkipInv'
  <1>1. /\ sync_err \in Nat /\ skips \in Nat /\ raced \in Nat
        /\ tmp \in [Loggers -> Nat] /\ sync_err <= skips
        /\ \A u \in Loggers : lpc[u] = "skipstore" => tmp[u] < skips
        /\ \A b \in Loggers : Outermost(b) => tmp[b] + raced + 1 = skips
        /\ Counting = {} => sync_err + raced = skips
    BY DEF SkipInv, TypeOK, CallTypes
  <1>2. /\ \A u \in Loggers : Prio[u] \in Nat
        /\ \A u \in Counting : u \in Loggers
    BY PrioAssumption DEF Tasks, Counting
  <1>3. \A u \in Counting : u # t => Prio[t] < Prio[u]
    BY CountsNest DEF SkipLoad, SkipStore, At
  <1>4. CASE SkipLoad(t)
    <2>1. /\ lpc[t] = "skip" /\ Goto(t, "skipstore") /\ skips' = skips + 1
          /\ tmp' = [tmp EXCEPT ![t] = sync_err] /\ UNCHANGED sync_err
          /\ raced' = IF Counting = {} THEN raced ELSE raced + 1
      BY <1>4 DEF SkipLoad, At
    <2>2. Counting' = Counting \cup {t} /\ t \notin Counting
      BY <2>1 DEF Counting, Goto, TypeOK, CallTypes
    <2>3. /\ tmp'[t] = sync_err
          /\ \A u \in Loggers : u # t => tmp'[u] = tmp[u] /\ tmp[u] \in Nat
      BY <1>1, <2>1
    <2>4. \A u \in Loggers : lpc'[u] = "skipstore" => tmp'[u] < skips'
      <3> SUFFICES ASSUME NEW u \in Loggers, lpc'[u] = "skipstore"
                   PROVE  tmp'[u] < skips + 1
        BY <2>1
      <3>1. CASE u = t
        BY <1>1, <2>3, <3>1
      <3>2. CASE u # t
        <4>1. lpc[u] = "skipstore"
          BY <2>1, <3>2 DEF Goto, TypeOK, CallTypes
        <4> QED
          BY <1>1, <2>3, <3>2, <4>1
      <3> QED
        BY <3>1, <3>2
    <2>5. ASSUME NEW b \in Loggers, Outermost(b)'
          PROVE  tmp'[b] + raced' + 1 = skips'
      <3>1. b \in Counting' /\ \A u \in Counting' : Prio[u] <= Prio[b]
        BY <2>5 DEF Outermost
      <3>2. CASE Counting = {}
        <4>1. b = t
          BY <2>2, <3>1, <3>2
        <4> QED
          BY <1>1, <2>1, <2>3, <3>2, <4>1
      <3>3. CASE Counting # {}
        <4>1. b # t
          <5>1. PICK u \in Counting : TRUE
            BY <3>3
          <5>2. Prio[t] < Prio[u] /\ Prio[u] <= Prio[b]
            BY <1>3, <2>2, <3>1, <5>1
          <5> QED
            BY <1>2, <5>2
        <4>2. Outermost(b)
          BY <2>2, <3>1, <4>1 DEF Outermost
        <4> QED
          BY <1>1, <2>1, <2>3, <3>3, <4>1, <4>2
      <3> QED
        BY <3>2, <3>3
    <2>6. sync_err' <= skips' /\ Counting' # {}
      BY <1>1, <2>1, <2>2
    <2> QED
      BY <2>4, <2>5, <2>6 DEF SkipInv
  <1>5. CASE SkipStore(t)
    <2>1. /\ lpc[t] = "skipstore" /\ Goto(t, "free") /\ UNCHANGED <<skips, raced>>
          /\ sync_err' = tmp[t] + 1 /\ tmp' = [tmp EXCEPT ![t] = 0]
      BY <1>5 DEF SkipStore, At
    <2>2. Counting' = Counting \ {t} /\ t \in Counting
      BY <2>1 DEF Counting, Goto, TypeOK, CallTypes
    <2>3. \A u \in Loggers : lpc'[u] = "skipstore" => tmp'[u] < skips'
      BY <1>1, <2>1 DEF Goto, TypeOK, CallTypes
    <2>4. tmp[t] \in Nat /\ tmp[t] < skips
      BY <1>1, <2>1
    <2>5. ASSUME NEW b \in Loggers, Outermost(b)'
          PROVE  tmp'[b] + raced' + 1 = skips'
      <3>1. b \in Counting /\ b # t /\ \A u \in Counting : u # t => Prio[u] <= Prio[b]
        BY <2>2, <2>5 DEF Outermost
      <3>2. Prio[t] <= Prio[b]
        BY <1>2, <1>3, <3>1
      <3>3. Outermost(b)
        BY <3>1, <3>2 DEF Outermost
      <3> QED
        BY <1>1, <2>1, <3>1, <3>3
    <2>6. Counting' = {} => sync_err' + raced' = skips'
      <3> SUFFICES ASSUME Counting = {t} PROVE sync_err' + raced' = skips'
        BY <2>2
      <3>1. Outermost(t)
        BY <1>2 DEF Outermost
      <3> QED
        BY <1>1, <2>1, <2>4, <3>1
    <2>7. sync_err' <= skips'
      BY <1>1, <2>1, <2>4
    <2> QED
      BY <2>3, <2>5, <2>6, <2>7 DEF SkipInv
  <1> QED
    BY <1>4, <1>5

(* Every step keeps it.                                                     *)
LEMMA SkipKept ==
  ASSUME DistinctPriorities, TypeOK, SemInv, SkipInv, [Next]_vars
  PROVE  SkipInv'
  <1>1. ASSUME NEW t \in Loggers, NEW p, Goto(t, p), p # "skipstore",
               lpc[t] # "skipstore"
        PROVE  UNCHANGED Counting
    BY <1>1 DEF Counting, Goto, TypeOK, CallTypes
  <1>2. UNCHANGED lpc => UNCHANGED Counting
    BY DEF Counting
  <1>3. ASSUME NEW t \in Loggers, Log(t) \/ LogStep(t) \/ Timeout(t)
        PROVE  SkipInv'
    <2>1. CASE SkipLoad(t) \/ SkipStore(t)
      BY <2>1, SkipCounts
    <2>2. CASE Post(t)
      <3>1. UNCHANGED skipVars /\ lpc[t] = "post"
        BY <2>2 DEF Post, At
      <3>2. CASE semq = <<>>
        <4>1. Goto(t, "free")
          BY <2>2, <3>2 DEF Post
        <4> QED
          BY <1>1, <3>1, <4>1, SkipSame
      <3>3. CASE semq # <<>>
        <4>1. UNCHANGED Counting
          BY <2>2, <3>1, <3>3, FirstIsBlocked DEF Post, Counting, TypeOK, CallTypes
        <4> QED
          BY <3>1, <4>1, SkipSame
      <3> QED
        BY <3>2, <3>3
    <2>3. CASE Log(t) \/ Timeout(t) \/ Wait(t) \/ WriteLogToFile(t) \/ Store(t)
               \/ Publish(t) \/ FixTail(t) \/ Free(t)
      <3>1. UNCHANGED skipVars
        BY <2>3 DEF Log, Timeout, Wait, WriteLogToFile, Store, Publish, FixTail,
           Free, callVars
      <3>2. \/ UNCHANGED lpc
            \/ lpc[t] # "skipstore" /\ \E p : p # "skipstore" /\ Goto(t, p)
        BY <2>3 DEF Log, Timeout, Wait, WriteLogToFile, Store, Publish, FixTail,
           Free, At, EnterLog
      <3>3. UNCHANGED Counting
        BY <1>1, <1>2, <3>2
      <3> QED
        BY <3>1, <3>3, SkipSame
    <2> QED
      BY <1>3, <2>1, <2>2, <2>3 DEF LogStep
  <1>4. CASE OpenView \/ Poll \/ ViewStep \/ UNCHANGED vars
    <2>1. UNCHANGED <<lpc, skipVars>>
      BY <1>4, ViewFrame DEF otherThanView, callVars, vars
    <2> QED
      BY <1>2, <2>1, SkipSame
  <1>5. CASE FileStep
    <2>1. UNCHANGED skipVars /\ FileTask \in Loggers
      BY <1>5, FileFrame DEF logSide, callVars, Loggers
    <2>2. UNCHANGED Counting
      BY <1>1, <1>2, <1>5, <2>1, FileFrame
    <2> QED
      BY <2>1, <2>2, SkipSame
  <1>6. CASE ChangeParams \/ RequestSave \/ SpaceMeasured
    <2>1. UNCHANGED skipVars /\ Mzts \in Loggers
      BY <1>6, OtherFrame, TaskAssumption DEF logSide, callVars, Loggers
    <2>2. \/ UNCHANGED lpc
          \/ lpc[Mzts] # "skipstore" /\ \E p : p # "skipstore" /\ Goto(Mzts, p)
      BY <1>6 DEF ChangeParams, RequestSave, SpaceMeasured, At
    <2>3. UNCHANGED Counting
      BY <1>1, <1>2, <2>1, <2>2
    <2> QED
      BY <2>1, <2>3, SkipSame
  <1> QED
    BY <1>3, <1>4, <1>5, <1>6 DEF Next

(* "Skipped n." never says more than there was, and misses only the counts  *)
(* that were made in the middle of another one, for any tasks of distinct   *)
(* priorities, as those of the tasks that log are (App_logger.c:152,        *)
(* App.h:119-136).                                                          *)
THEOREM SkipsSound ==
  ASSUME DistinctPriorities
  PROVE  Spec => []SkipsCounted
  <1>1. Init => SkipInv
    <2> SUFFICES ASSUME Init PROVE SkipInv
      OBVIOUS
    <2>1. Counting = {}
      BY DEF Init, Counting
    <2>2. \A t \in Loggers : lpc[t] # "skipstore"
      BY DEF Init
    <2> QED
      BY <2>1, <2>2 DEF Init, SkipInv, Outermost
  <1>2. TypeOK /\ SemInv /\ SkipInv /\ [Next]_vars => SkipInv'
    BY SkipKept
  <1>3. TypeOK /\ SkipInv => SkipsCounted
    BY DEF SkipInv, SkipsCounted, TypeOK, CallTypes
  <1> QED
    BY <1>1, <1>2, <1>3, TypeCorrect, SemInvAlways, PTL DEF Spec

-------------------------------------------------------------------------------
(* The ring as a sequence, for any contents, head and oldest slot.          *)
Back(h, t) == IF t <= h THEN h - t ELSE h + EVENT_LOG_SIZE - t
Nth(t, i)  == IF t + i - 1 < EVENT_LOG_SIZE THEN t + i - 1
                                            ELSE t + i - 1 - EVENT_LOG_SIZE
Content(q, h, t) == [i \in 1 .. Back(h, t) |-> q[Nth(t, i)]]

(* Indices modulo the size of the ring.                                     *)
LEMMA Modulo ==
  ASSUME NEW n \in Nat \ {0}, NEW x \in 0 .. n - 1
  PROVE  x % n = x /\ (x + n) % n = x
  BY SMT

(* The next slot, without the modulus.                                      *)
LEMMA NextSlot ==
  ASSUME NEW i \in Slots
  PROVE  Succ(i) \in Slots /\ Succ(i) = IF i = EVENT_LOG_SIZE - 1 THEN 0 ELSE i + 1
  <1>1. EVENT_LOG_SIZE \in Nat \ {0} /\ EVENT_LOG_SIZE > 1
    BY SizeAssumption
  <1>2. CASE i = EVENT_LOG_SIZE - 1
    <2>1. (0 + EVENT_LOG_SIZE) % EVENT_LOG_SIZE = 0
      BY <1>1, Modulo
    <2>2. i + 1 = 0 + EVENT_LOG_SIZE
      BY <1>1, <1>2
    <2> QED
      BY <1>1, <1>2, <2>1, <2>2 DEF Succ, Slots
  <1>3. CASE i # EVENT_LOG_SIZE - 1
    <2>1. i + 1 \in 0 .. EVENT_LOG_SIZE - 1
      BY <1>1, <1>3 DEF Slots
    <2>2. (i + 1) % EVENT_LOG_SIZE = i + 1
      BY <1>1, <2>1, Modulo
    <2> QED
      BY <1>3, <2>1, <2>2 DEF Succ, Slots
  <1> QED
    BY <1>2, <1>3

(* The function that Kept is, is the content between oldest slot and head.  *)
LEMMA KeptIsContent ==
  ASSUME NEW q, NEW h \in Slots, NEW o \in Slots
  PROVE  [i \in 1 .. (h - o + EVENT_LOG_SIZE) % EVENT_LOG_SIZE
            |-> q[(o + i - 1) % EVENT_LOG_SIZE]] = Content(q, h, o)
  <1> DEFINE N == EVENT_LOG_SIZE
  <1>1. N \in Nat \ {0} /\ o \in 0 .. N - 1 /\ h \in 0 .. N - 1
    BY SizeAssumption DEF Slots
  <1> HIDE DEF N
  <1>2. (h - o + N) % N = IF o <= h THEN h - o ELSE h + N - o
    <2>1. CASE o <= h
      <3>1. h - o \in 0 .. N - 1
        BY <1>1, <2>1
      <3> QED
        BY <1>1, <2>1, <3>1, Modulo
    <2>2. CASE ~(o <= h)
      <3>1. h - o + N \in 0 .. N - 1 /\ h + N - o = h - o + N
        BY <1>1, <2>2
      <3> QED
        BY <1>1, <2>2, <3>1, Modulo
    <2> QED
      BY <2>1, <2>2
  <1>3. (h - o + N) % N = Back(h, o)
    BY <1>2 DEF Back, N
  <1>4. Back(h, o) \in 0 .. N - 1
    BY <1>1 DEF Back, N
  <1>5. \A i \in 1 .. Back(h, o) : (o + i - 1) % N = Nth(o, i)
    <2> SUFFICES ASSUME NEW i \in 1 .. N - 1
                 PROVE  (o + i - 1) % N = IF o + i - 1 < N THEN o + i - 1
                                                           ELSE o + i - 1 - N
      BY <1>1, <1>4 DEF Nth, N
    <2>1. CASE o + i - 1 < N
      <3>1. o + i - 1 \in 0 .. N - 1
        BY <1>1, <2>1
      <3> QED
        BY <1>1, <2>1, <3>1, Modulo
    <2>2. CASE ~(o + i - 1 < N)
      <3>1. o + i - 1 - N \in 0 .. N - 1 /\ o + i - 1 = (o + i - 1 - N) + N
        BY <1>1, <2>2
      <3>2. ((o + i - 1 - N) + N) % N = o + i - 1 - N
        BY <1>1, <3>1, Modulo
      <3> QED
        BY <2>2, <3>1, <3>2
    <2> QED
      BY <2>1, <2>2
  <1>6. [i \in 1 .. (h - o + N) % N |-> q[(o + i - 1) % N]] = Content(q, h, o)
    BY <1>3, <1>5 DEF Content
  <1> QED
    BY <1>6 DEF N

(* Its length and its elements.                                             *)
LEMMA ContentFacts ==
  ASSUME NEW q \in [Slots -> Nat], NEW h \in Slots, NEW t \in Slots
  PROVE  /\ Back(h, t) \in 0 .. EVENT_LOG_SIZE - 1
         /\ Back(h, t) = EVENT_LOG_SIZE - 1 <=> Succ(h) = t
         /\ Back(h, t) = 0 <=> h = t
         /\ \A i \in 1 .. Back(h, t) : Nth(t, i) \in Slots /\ Nth(t, i) # h
         /\ Content(q, h, t) \in Seq(Nat)
         /\ Len(Content(q, h, t)) = Back(h, t)
         /\ \A i \in 1 .. Back(h, t) : Content(q, h, t)[i] = q[Nth(t, i)]
  <1> USE SizeAssumption DEF Slots
  <1>1. Back(h, t) \in 0 .. EVENT_LOG_SIZE - 1 /\ (Back(h, t) = 0 <=> h = t)
    BY DEF Back
  <1>2. Back(h, t) = EVENT_LOG_SIZE - 1 <=> Succ(h) = t
    BY NextSlot DEF Back
  <1>3. \A i \in 1 .. Back(h, t) : Nth(t, i) \in Slots /\ Nth(t, i) # h
    BY DEF Back, Nth
  <1>4. Content(q, h, t) \in Seq(Nat) /\ Len(Content(q, h, t)) = Back(h, t)
    <2> DEFINE n == Back(h, t)
    <2>1. n \in Nat
      BY <1>1
    <2>2. Content(q, h, t) = [i \in 1 .. n |-> q[Nth(t, i)]]
      BY DEF Content
    <2>3. \A i \in 1 .. n : q[Nth(t, i)] \in Nat
      BY <1>3
    <2> HIDE DEF n
    <2>4. Content(q, h, t) \in Seq(Nat) /\ Len(Content(q, h, t)) = n
      BY <2>1, <2>2, <2>3
    <2> QED
      BY <2>4 DEF n
  <1>5. \A i \in 1 .. Back(h, t) : Content(q, h, t)[i] = q[Nth(t, i)]
    BY DEF Content
  <1> QED
    BY <1>1, <1>2, <1>3, <1>4, <1>5

(* The slot at the head can be written unnoticed.                           *)
LEMMA StoreUnseen ==
  ASSUME NEW q \in [Slots -> Nat], NEW h \in Slots, NEW t \in Slots, NEW r
  PROVE  Content([q EXCEPT ![h] = r], h, t) = Content(q, h, t)
  <1>1. \A i \in 1 .. Back(h, t) : [q EXCEPT ![h] = r][Nth(t, i)] = q[Nth(t, i)]
    BY ContentFacts
  <1> QED
    BY <1>1 DEF Content

(* Advancing the head of a ring that is not full appends its slot.          *)
LEMMA HeadAppends ==
  ASSUME NEW q \in [Slots -> Nat], NEW h \in Slots, NEW t \in Slots, Succ(h) # t
  PROVE  Content(q, Succ(h), t) = Append(Content(q, h, t), q[h])
  <1> DEFINE n == Back(h, t)
             c == Content(q, h, t)
             d == Content(q, Succ(h), t)
  <1>1. n \in Nat /\ n < EVENT_LOG_SIZE - 1
    BY ContentFacts, SizeAssumption
  <1>2. Back(Succ(h), t) = n + 1 /\ Nth(t, n + 1) = h
    <2> DEFINE k == Succ(h)
    <2>1. k = (IF h = EVENT_LOG_SIZE - 1 THEN 0 ELSE h + 1) /\ k # t
      BY NextSlot
    <2>2. /\ EVENT_LOG_SIZE \in Nat /\ h \in 0 .. EVENT_LOG_SIZE - 1
          /\ t \in 0 .. EVENT_LOG_SIZE - 1
      BY SizeAssumption DEF Slots
    <2> HIDE DEF k
    <2>3. Back(k, t) = Back(h, t) + 1
      BY <2>1, <2>2 DEF Back
    <2>4. Nth(t, Back(h, t) + 1) = h
      BY <2>1, <2>2 DEF Back, Nth
    <2> QED
      BY <2>3, <2>4 DEF k
  <1>3. c \in Seq(Nat) /\ Len(c) = n /\ \A i \in 1 .. n : c[i] = q[Nth(t, i)]
    BY ContentFacts
  <1>4. /\ d \in Seq(Nat) /\ Len(d) = n + 1
        /\ \A i \in 1 .. n + 1 : d[i] = q[Nth(t, i)]
    <2>1. /\ d \in Seq(Nat) /\ Len(d) = Back(Succ(h), t)
          /\ \A i \in 1 .. Back(Succ(h), t) : d[i] = q[Nth(t, i)]
      BY NextSlot, ContentFacts
    <2> HIDE DEF n, d
    <2> QED
      BY <1>2, <2>1
  <1>5. q[h] \in Nat
    OBVIOUS
  <1> HIDE DEF n, c, d
  <1>6. /\ Append(c, q[h]) \in Seq(Nat) /\ Len(Append(c, q[h])) = n + 1
        /\ \A i \in 1 .. n : Append(c, q[h])[i] = c[i]
        /\ Append(c, q[h])[n + 1] = q[h]
    BY <1>3, <1>5, AppendProperties
  <1>7. \A i \in 1 .. n + 1 : d[i] = Append(c, q[h])[i]
    BY <1>1, <1>2, <1>3, <1>4, <1>6
  <1>8. d = Append(c, q[h])
    BY <1>4, <1>6, <1>7, SeqEqual
  <1> QED
    BY <1>8 DEF c, d

(* Advancing the head onto the oldest slot appends, too, and that slot is   *)
(* forgotten: the content begins with the one behind it.                    *)
LEMMA HeadOverruns ==
  ASSUME NEW q \in [Slots -> Nat], NEW h \in Slots, NEW t \in Slots, Succ(h) = t
  PROVE  /\ Content(q, h, t) # <<>>
         /\ Content(q, t, Succ(t)) = Append(Tail(Content(q, h, t)), q[h])
  <1> DEFINE n == EVENT_LOG_SIZE - 1
             c == Content(q, h, t)
             d == Content(q, t, Succ(t))
             a == Append(Tail(c), q[h])
  <1>1. n \in Nat /\ n >= 1
    BY SizeAssumption
  <1>2. Succ(t) \in Slots
    BY NextSlot
  <1> DEFINE k == Succ(t)
  <1>3. /\ k = (IF t = EVENT_LOG_SIZE - 1 THEN 0 ELSE t + 1)
        /\ t = (IF h = EVENT_LOG_SIZE - 1 THEN 0 ELSE h + 1)
        /\ EVENT_LOG_SIZE \in Nat /\ EVENT_LOG_SIZE > 1
        /\ h \in 0 .. EVENT_LOG_SIZE - 1 /\ t \in 0 .. EVENT_LOG_SIZE - 1
    BY NextSlot, SizeAssumption DEF Slots
  <1>4. /\ Back(t, Succ(t)) = n
        /\ Nth(Succ(t), n) = h
        /\ \A i \in 1 .. n - 1 : Nth(Succ(t), i) = Nth(t, i + 1)
    <2> HIDE DEF k
    <2>1. Back(t, k) = n
      BY <1>3 DEF Back
    <2>2. Nth(k, n) = h
      BY <1>3 DEF Nth
    <2>3. \A i \in 1 .. n - 1 : Nth(k, i) = Nth(t, i + 1)
      BY <1>3 DEF Nth
    <2> QED
      BY <2>1, <2>2, <2>3 DEF k
  <1>5. c \in Seq(Nat) /\ Len(c) = n /\ \A i \in 1 .. n : c[i] = q[Nth(t, i)]
    <2>1. Back(h, t) = n
      BY ContentFacts
    <2>2. /\ c \in Seq(Nat) /\ Len(c) = Back(h, t)
          /\ \A i \in 1 .. Back(h, t) : c[i] = q[Nth(t, i)]
      BY ContentFacts
    <2> HIDE DEF n, c
    <2> QED
      BY <2>1, <2>2
  <1>6. d \in Seq(Nat) /\ Len(d) = n /\ \A i \in 1 .. n : d[i] = q[Nth(Succ(t), i)]
    <2>1. /\ d \in Seq(Nat) /\ Len(d) = Back(t, Succ(t))
          /\ \A i \in 1 .. Back(t, Succ(t)) : d[i] = q[Nth(Succ(t), i)]
      BY <1>2, ContentFacts
    <2> HIDE DEF n, d
    <2> QED
      BY <1>4, <2>1
  <1>7. q[h] \in Nat
    OBVIOUS
  <1> HIDE DEF n, c, d
  <1>8. c # <<>>
    BY <1>1, <1>5
  <1>9. /\ Tail(c) \in Seq(Nat) /\ Len(Tail(c)) = n - 1
        /\ \A i \in 1 .. n - 1 : Tail(c)[i] = c[i + 1]
    BY <1>5, <1>8, HeadTailProperties
  <1>10. /\ a \in Seq(Nat) /\ Len(a) = n
         /\ \A i \in 1 .. n - 1 : a[i] = c[i + 1]
         /\ a[n] = q[h]
    <2> DEFINE b == Tail(c)
    <2>1. b \in Seq(Nat) /\ Len(b) = n - 1 /\ \A i \in 1 .. n - 1 : b[i] = c[i + 1]
      BY <1>9
    <2> HIDE DEF b
    <2>2. /\ Append(b, q[h]) \in Seq(Nat) /\ Len(Append(b, q[h])) = Len(b) + 1
          /\ \A i \in 1 .. Len(b) : Append(b, q[h])[i] = b[i]
          /\ Append(b, q[h])[Len(b) + 1] = q[h]
      BY <1>7, <2>1, AppendProperties
    <2>3. Len(b) + 1 = n
      BY <1>1, <2>1
    <2> QED
      BY <1>1, <2>1, <2>2, <2>3 DEF b
  <1> HIDE DEF a
  <1>11. \A i \in 1 .. n : d[i] = a[i]
    <2> SUFFICES ASSUME NEW i \in 1 .. n PROVE d[i] = a[i]
      OBVIOUS
    <2>1. CASE i = n
      BY <1>1, <1>4, <1>6, <1>10, <2>1
    <2>2. CASE i # n
      <3>1. i \in 1 .. n - 1 /\ i + 1 \in 1 .. n
        BY <1>1, <2>2
      <3> QED
        BY <1>4, <1>5, <1>6, <1>10, <3>1
    <2> QED
      BY <2>1, <2>2
  <1>12. d = a
    BY <1>6, <1>10, <1>11, SeqEqual
  <1> QED
    BY <1>8, <1>12 DEF c, d, a

-------------------------------------------------------------------------------
(* The ring implements EventLog.  The task inside writes the record accepted *)
(* last, and its slot holds that record before the head is moved over it.   *)
Writing == {"store", "publish", "fixtail"}

RingSound ==
  \A t \in Loggers :
    /\ lpc[t] \in {"store", "publish"} => rec[t] = accepted
    /\ lpc[t] = "publish" => slot[head] = rec[t]

Fixing == \E t \in Loggers : lpc[t] = "fixtail"

(* The types of the ring.                                                   *)
LEMMA RingFacts ==
  ASSUME TypeOK
  PROVE  /\ slot \in [Slots -> Nat] /\ head \in Slots /\ tail \in Slots
         /\ Oldest \in Slots /\ overl_err \in Nat /\ accepted \in Nat
         /\ Kept = Content(slot, head, Oldest)
  <1>1. /\ slot \in [Slots -> Nat] /\ head \in Slots /\ tail \in Slots
        /\ overl_err \in Nat /\ accepted \in Nat
    BY DEF TypeOK, RingTypes, CallTypes
  <1>2. Oldest \in Slots
    BY <1>1, NextSlot DEF Oldest
  <1> QED
    BY <1>1, <1>2, KeptIsContent DEF Kept, Used

(* The same after a step.                                                   *)
LEMMA KeptAfter ==
  ASSUME NEW q, NEW h \in Slots, NEW o \in Slots,
         slot' = q, head' = h, Oldest' = o
  PROVE  Kept' = Content(q, h, o)
  <1>1. Kept' = [i \in 1 .. (h - o + EVENT_LOG_SIZE) % EVENT_LOG_SIZE
                   |-> q[(o + i - 1) % EVENT_LOG_SIZE]]
    BY DEF Kept, Used
  <1>2. [i \in 1 .. (h - o + EVENT_LOG_SIZE) % EVENT_LOG_SIZE
           |-> q[(o + i - 1) % EVENT_LOG_SIZE]] = Content(q, h, o)
    BY KeptIsContent
  <1> QED
    BY <1>1, <1>2, Zenon

(* A step that neither enters nor leaves the writing of a record, nor       *)
(* touches the ring, is not seen.                                           *)
LEMMA RingUnseen ==
  ASSUME TypeOK, RingSound, UNCHANGED <<ringVars, accepted>>,
         \A t \in Loggers : lpc[t] \in Writing \/ lpc'[t] \in Writing
                              => lpc'[t] = lpc[t] /\ rec'[t] = rec[t]
  PROVE  RingSound' /\ UNCHANGED Ring!vars
  <1>1. Unpublished' = Unpublished
    BY DEF Unpublished, Writing
  <1>2. Overrun' = Overrun
    BY DEF Overrun, Writing, ringVars
  <1>3. RingSound'
    BY DEF RingSound, Writing, ringVars
  <1>4. Published' = Published /\ Forgotten' = Forgotten
    BY <1>1, <1>2 DEF Published, Forgotten, ringVars
  <1>5. Oldest' = Oldest /\ Used' = Used
    BY <1>2 DEF Oldest, Used, Succ, ringVars
  <1>6. Kept' = Kept
    BY <1>5 DEF Kept, ringVars
  <1> QED
    BY <1>3, <1>4, <1>6 DEF Ring!vars

(* The task that writes is the only one inside.                             *)
LEMMA WriterAlone ==
  ASSUME SemInv, NEW t \in Loggers, lpc[t] \in Locked
  PROVE  /\ \A u \in Loggers : lpc[u] \in Locked => u = t
         /\ lpc[t] \in {"store", "publish"} => Unpublished = {t}
         /\ lpc[t] \notin {"store", "publish"} => Unpublished = {}
         /\ Fixing <=> lpc[t] = "fixtail"
  BY DEF SemInv, MutualExclusion, Unpublished, Fixing, Locked

(* The four steps on a record: accepting and storing it are not seen yet, ...*)
LEMMA AcceptUnseen ==
  ASSUME TypeOK, SemInv, RingSound, NEW t \in Loggers, WriteLogToFile(t)
  PROVE  RingSound' /\ UNCHANGED Ring!vars
  <1>1. /\ lpc[t] = "record" /\ Goto(t, "store") /\ UNCHANGED ringVars
        /\ accepted' = accepted + 1 /\ rec' = [rec EXCEPT ![t] = accepted']
    BY DEF WriteLogToFile, At
  <1>2. lpc'[t] = "store" /\ \A u \in Loggers : u # t => lpc'[u] = lpc[u]
    BY <1>1 DEF Goto, TypeOK, CallTypes
  <1>3. \A u \in Loggers : u # t => lpc[u] \notin Locked
    BY <1>1, WriterAlone DEF Locked
  <1>4. RingSound'
    BY <1>1, <1>2, <1>3 DEF RingSound, Locked, TypeOK, CallTypes
  <1>5. Unpublished = {} /\ Unpublished' = {t}
    BY <1>1, <1>2, <1>3 DEF Unpublished, Locked
  <1>6. Cardinality(Unpublished) = 0 /\ Cardinality(Unpublished') = 1
    BY <1>5, FS_EmptySet, FS_Singleton
  <1>7. Published' = Published
    BY <1>1, <1>6, RingFacts DEF Published
  <1>8. ~Overrun /\ ~Overrun'
    BY <1>1, <1>2, <1>3 DEF Overrun, Locked
  <1>9. Kept' = Kept /\ Forgotten' = Forgotten
    BY <1>1, <1>8 DEF Kept, Forgotten, Oldest, Used, ringVars
  <1> QED
    BY <1>4, <1>7, <1>9 DEF Ring!vars

(* See above.                                                               *)
LEMMA StoreNotSeen ==
  ASSUME TypeOK, SemInv, RingSound, NEW t \in Loggers, Store(t)
  PROVE  RingSound' /\ UNCHANGED Ring!vars
  <1>1. /\ lpc[t] = "store" /\ Goto(t, "publish")
        /\ slot' = [slot EXCEPT ![head] = rec[t]]
        /\ UNCHANGED <<head, tail, overl_err, accepted, rec>>
    BY DEF Store, At, callVars, recVars
  <1>2. lpc'[t] = "publish" /\ \A u \in Loggers : u # t => lpc'[u] = lpc[u]
    BY <1>1 DEF Goto, TypeOK, CallTypes
  <1>3. \A u \in Loggers : u # t => lpc[u] \notin Locked
    BY <1>1, WriterAlone DEF Locked
  <1>4. slot'[head'] = rec[t]
    BY <1>1, RingFacts
  <1>5. RingSound'
    BY <1>1, <1>2, <1>3, <1>4 DEF RingSound, Locked
  <1>6. Unpublished' = Unpublished
    BY <1>1, <1>2 DEF Unpublished
  <1>7. ~Overrun /\ ~Overrun'
    BY <1>1, <1>2, <1>3 DEF Overrun, Locked
  <1>8. Oldest = tail /\ Oldest' = tail
    BY <1>1, <1>7 DEF Oldest
  <1>9. Kept = Content(slot, head, tail) /\ Kept' = Content(slot', head, tail)
    <2>1. head \in Slots /\ tail \in Slots /\ Kept = Content(slot, head, tail)
      BY <1>8, RingFacts
    <2> QED
      BY <1>1, <1>8, <2>1, KeptAfter
  <1>10. Kept' = Kept
    BY <1>1, <1>9, RingFacts, StoreUnseen
  <1> QED
    BY <1>1, <1>5, <1>6, <1>7, <1>10 DEF Ring!vars, Published, Forgotten

(* ... moving the head publishes it, ...                                    *)
LEMMA PublishSeen ==
  ASSUME TypeOK, SemInv, RingSound, NEW t \in Loggers, Publish(t)
  PROVE  RingSound' /\ Ring!Publish
  <1>1. /\ lpc[t] = "publish" /\ Goto(t, "fixtail") /\ head' = Succ(head)
        /\ UNCHANGED <<slot, tail, overl_err, accepted, rec>>
    BY DEF Publish, At, callVars, recVars
  <1>2. lpc'[t] = "fixtail" /\ \A u \in Loggers : u # t => lpc'[u] = lpc[u]
    BY <1>1 DEF Goto, TypeOK, CallTypes
  <1>3. \A u \in Loggers : u # t => lpc[u] \notin Locked
    BY <1>1, WriterAlone DEF Locked
  <1>4. RingSound'
    BY <1>1, <1>2, <1>3 DEF RingSound, Locked
  <1>5. Unpublished = {t} /\ Unpublished' = {}
    BY <1>1, <1>2, <1>3 DEF Unpublished, Locked
  <1>6. Published = accepted - 1 /\ Published' = accepted /\ accepted \in Nat
    <2>1. Cardinality(Unpublished) = 1 /\ Cardinality(Unpublished') = 0
      BY <1>5, FS_EmptySet, FS_Singleton
    <2>2. accepted \in Nat /\ accepted' = accepted
      BY <1>1, RingFacts
    <2> QED
      BY <2>1, <2>2 DEF Published
  <1>7. slot[head] = accepted /\ Published' = Published + 1
    BY <1>1, <1>6 DEF RingSound
  <1>8. ~Overrun /\ Oldest = tail
    BY <1>1, <1>2, <1>3 DEF Overrun, Oldest, Locked
  <1>9. /\ slot \in [Slots -> Nat] /\ head \in Slots /\ tail \in Slots
        /\ Kept = Content(slot, head, tail) /\ overl_err \in Nat
    BY <1>8, RingFacts
  <1>10. Succ(head) \in Slots
    BY <1>9, NextSlot
  <1>11. CASE Succ(head) # tail
    <2>1. ~Overrun' /\ Oldest' = tail
      BY <1>1, <1>11 DEF Overrun, Oldest
    <2>2. Kept' = Content(slot, Succ(head), tail)
      BY <1>1, <1>9, <1>10, <2>1, KeptAfter
    <2>3. Kept' = Append(Kept, Published')
      BY <1>6, <1>7, <1>9, <1>11, <2>2, HeadAppends
    <2>4. Len(Kept) < EVENT_LOG_SIZE - 1
      BY <1>9, <1>11, ContentFacts, SizeAssumption
    <2>5. Forgotten' = Forgotten
      BY <1>1, <1>8, <2>1 DEF Forgotten
    <2> QED
      BY <1>4, <1>7, <2>3, <2>4, <2>5 DEF Ring!Publish
  <1>12. CASE Succ(head) = tail
    <2>1. Overrun' /\ Oldest' = Succ(tail)
      BY <1>1, <1>2, <1>12 DEF Overrun, Oldest, Succ
    <2>2. Succ(tail) \in Slots
      BY <1>9, NextSlot
    <2>3. Kept' = Content(slot, tail, Succ(tail))
      BY <1>1, <1>9, <1>12, <2>1, <2>2, KeptAfter
    <2>4. Kept' = Append(Tail(Kept), Published')
      BY <1>6, <1>7, <1>9, <1>12, <2>3, HeadOverruns
    <2>5. Len(Kept) = EVENT_LOG_SIZE - 1
      BY <1>9, <1>12, ContentFacts
    <2>6. Forgotten' = Forgotten + 1
      BY <1>1, <1>8, <1>9, <2>1 DEF Forgotten
    <2> QED
      BY <1>4, <1>7, <2>4, <2>5, <2>6, SizeAssumption DEF Ring!Publish
  <1> QED
    BY <1>11, <1>12

(* ... and moving the tail is the second half of an overrun already seen.   *)
LEMMA FixTailUnseen ==
  ASSUME TypeOK, SemInv, RingSound, NEW t \in Loggers, FixTail(t)
  PROVE  RingSound' /\ UNCHANGED Ring!vars
  <1>1. /\ lpc[t] = "fixtail" /\ Goto(t, "post")
        /\ UNCHANGED <<slot, head, accepted, rec>>
        /\ IF head = tail
             THEN tail' = Succ(tail) /\ overl_err' = overl_err + 1
             ELSE UNCHANGED <<tail, overl_err>>
    BY DEF FixTail, At, callVars, recVars
  <1>2. lpc'[t] = "post" /\ \A u \in Loggers : u # t => lpc'[u] = lpc[u]
    BY <1>1 DEF Goto, TypeOK, CallTypes
  <1>3. \A u \in Loggers : u # t => lpc[u] \notin Locked
    BY <1>1, WriterAlone DEF Locked
  <1>4. RingSound'
    BY <1>1, <1>2, <1>3 DEF RingSound, Locked
  <1>5. Unpublished' = Unpublished
    BY <1>1, <1>2 DEF Unpublished
  <1>6. Overrun <=> head = tail
    BY <1>1 DEF Overrun
  <1>7. ~Overrun'
    BY <1>1, <1>2, <1>3 DEF Overrun, Locked
  <1>8. Oldest' = Oldest /\ Forgotten' = Forgotten
    BY <1>1, <1>6, <1>7, RingFacts DEF Oldest, Forgotten, Succ
  <1>9. Kept' = Kept
    BY <1>1, <1>8 DEF Kept, Used
  <1> QED
    BY <1>1, <1>4, <1>5, <1>8, <1>9 DEF Ring!vars, Published

(* Every step publishes a record or is not seen.                            *)
LEMMA RingSimulates ==
  ASSUME TypeOK, SemInv, RingSound, [Next]_vars
  PROVE  RingSound' /\ [Ring!Next]_Ring!vars
  <1>1. ASSUME NEW t \in Loggers, Log(t) \/ LogStep(t) \/ Timeout(t)
        PROVE  RingSound' /\ [Ring!Next]_Ring!vars
    <2>1. CASE WriteLogToFile(t)
      BY <2>1, AcceptUnseen
    <2>2. CASE Store(t)
      BY <2>2, StoreNotSeen
    <2>3. CASE Publish(t)
      BY <2>3, PublishSeen DEF Ring!Next
    <2>4. CASE FixTail(t)
      BY <2>4, FixTailUnseen
    <2>5. CASE Post(t)
      <3>1. UNCHANGED <<ringVars, accepted, rec>> /\ lpc[t] = "post"
        BY <2>5 DEF Post, At, recVars, bodyVars
      <3>2. \A u \in Loggers : lpc[u] \in Writing \/ lpc'[u] \in Writing
                                 => lpc'[u] = lpc[u]
        BY <2>5, <3>1, FirstIsBlocked DEF Post, Goto, Writing, TypeOK, CallTypes
      <3> QED
        BY <3>1, <3>2, RingUnseen
    <2>6. CASE Log(t) \/ Timeout(t) \/ Wait(t) \/ SkipLoad(t) \/ SkipStore(t)
               \/ Free(t)
      <3>1. UNCHANGED <<ringVars, accepted>>
        BY <2>6 DEF Log, Timeout, Wait, SkipLoad, SkipStore, Free, recVars, bodyVars
      <3>2. \/ UNCHANGED lpc
            \/ lpc[t] \notin Writing /\ \E p : p \notin Writing /\ Goto(t, p)
        BY <2>6 DEF Log, Timeout, Wait, SkipLoad, SkipStore, Free, At, EnterLog,
           Writing
      <3>3. rec' = rec \/ (rec' = [rec EXCEPT ![t] = NoRec] /\ lpc[t] = "free"
                             /\ lpc'[t] = "idle")
        BY <2>6 DEF Log, Timeout, Wait, SkipLoad, SkipStore, Free, recVars, At,
           Goto, TypeOK, CallTypes
      <3>4. \A u \in Loggers : lpc[u] \in Writing \/ lpc'[u] \in Writing
                                 => lpc'[u] = lpc[u] /\ rec'[u] = rec[u]
        BY <3>2, <3>3 DEF Goto, Writing, TypeOK, CallTypes
      <3> QED
        BY <3>1, <3>4, RingUnseen
    <2> QED
      BY <1>1, <2>1, <2>2, <2>3, <2>4, <2>5, <2>6 DEF LogStep
  <1>2. CASE OpenView \/ Poll \/ ViewStep \/ UNCHANGED vars
    <2>1. UNCHANGED <<ringVars, accepted, rec, lpc>>
      BY <1>2, ViewFrame DEF otherThanView, callVars, recVars, vars
    <2> QED
      BY <2>1, RingUnseen
  <1>3. CASE FileStep
    <2>1. UNCHANGED <<ringVars, accepted, rec>> /\ FileTask \in Loggers
      BY <1>3, FileFrame DEF logSide, callVars, recVars, Loggers
    <2>2. \A u \in Loggers : lpc[u] \in Writing \/ lpc'[u] \in Writing
                               => lpc'[u] = lpc[u]
      BY <1>3, <2>1, FileFrame DEF Goto, Writing, TypeOK, CallTypes
    <2> QED
      BY <2>1, <2>2, RingUnseen
  <1>4. CASE ChangeParams \/ RequestSave \/ SpaceMeasured
    <2>1. UNCHANGED <<ringVars, accepted, rec>> /\ Mzts \in Loggers
      BY <1>4, OtherFrame, TaskAssumption DEF logSide, callVars, recVars, Loggers
    <2>2. \A u \in Loggers : lpc[u] \in Writing \/ lpc'[u] \in Writing
                               => lpc'[u] = lpc[u]
      BY <1>4, <2>1 DEF ChangeParams, RequestSave, SpaceMeasured, At, Goto,
         Writing, TypeOK, CallTypes
    <2> QED
      BY <2>1, <2>2, RingUnseen
  <1> QED
    BY <1>1, <1>2, <1>3, <1>4 DEF Next

(* Whatever preempts a writer between slot, head and tail, the ring is the  *)
(* log of the most recent records, in the order of acceptance, and the      *)
(* overflow counter says how many it forgot (App_logger.c:115-134).         *)
THEOREM ImplementsEventLog == Spec => RefinesEventLog
  <1>1. Init => RingSound /\ Ring!Init
    <2> SUFFICES ASSUME Init PROVE RingSound /\ Ring!Init
      OBVIOUS
    <2>1. Unpublished = {} /\ ~Overrun /\ RingSound
      BY DEF Init, Unpublished, Overrun, RingSound
    <2>2. /\ slot \in [Slots -> Nat] /\ head = 0 /\ tail = 0 /\ 0 \in Slots
      BY SlotFacts DEF Init, NoRec
    <2>3. Kept = Content(slot, 0, 0)
      BY <2>1, <2>2, KeptIsContent DEF Kept, Used, Oldest
    <2>4. Kept = <<>>
      BY <2>2, <2>3, ContentFacts
    <2>5. Published = 0 /\ Forgotten = 0
      BY <2>1, FS_EmptySet DEF Init, Published, Forgotten
    <2> QED
      BY <2>1, <2>4, <2>5 DEF Ring!Init
  <1>2. TypeOK /\ SemInv /\ RingSound /\ [Next]_vars
          => RingSound' /\ [Ring!Next]_Ring!vars
    BY RingSimulates
  <1> QED
    BY <1>1, <1>2, TypeCorrect, SemInvAlways, PTL DEF Spec, RefinesEventLog, Ring!Spec

-------------------------------------------------------------------------------
(* What the refinement is good for.  The ring holds exactly the records     *)
(* published last, without a gap, in order, and none but those; it is full  *)
(* before any is forgotten; and the overflow counter is exactly the number  *)
(* of those that are gone.                                                  *)
LogIsRecent ==
  /\ Len(Kept) <= EVENT_LOG_SIZE - 1
  /\ Published = Forgotten + Len(Kept)
  /\ \A i \in 1 .. Len(Kept) : Kept[i] = Forgotten + i
  /\ Forgotten > 0 => Len(Kept) = EVENT_LOG_SIZE - 1

LogTypes == Published \in Nat /\ Kept \in Seq(Nat) /\ Forgotten \in Nat

(* The step of EventLog keeps it.                                           *)
LEMMA RecentKept ==
  ASSUME LogTypes, LogIsRecent, [Ring!Next]_Ring!vars
  PROVE  LogTypes' /\ LogIsRecent'
  <1> DEFINE s == Kept
             n == Len(Kept)
             c == Published
             f == Forgotten
             max == EVENT_LOG_SIZE - 1
  <1>1. /\ c \in Nat /\ s \in Seq(Nat) /\ f \in Nat /\ n \in Nat
        /\ max \in Nat /\ max > 0 /\ n = Len(s)
    BY LenProperties, SizeAssumption DEF LogTypes
  <1>2. /\ n <= max /\ c = f + n /\ (f > 0 => n = max)
        /\ \A i \in 1 .. n : s[i] = f + i
    BY DEF LogIsRecent
  <1>3. \/ c' = c /\ s' = s /\ f' = f
        \/ /\ c' = c + 1
           /\ \/ n < max /\ s' = Append(s, c + 1) /\ f' = f
              \/ ~ (n < max) /\ s' = Append(Tail(s), c + 1) /\ f' = f + 1
    BY DEF Ring!Next, Ring!Publish, Ring!vars
  <1>4. SUFFICES /\ c' \in Nat /\ s' \in Seq(Nat) /\ f' \in Nat
                 /\ Len(s') <= max /\ c' = f' + Len(s') /\ (f' > 0 => Len(s') = max)
                 /\ \A i \in 1 .. Len(s') : s'[i] = f' + i
    BY DEF LogTypes, LogIsRecent
  <1> HIDE DEF s, n, c, f, max
  <1>5. CASE c' = c /\ s' = s /\ f' = f
    BY <1>1, <1>2, <1>5
  <1>6. CASE c' = c + 1 /\ n < max /\ s' = Append(s, c + 1) /\ f' = f
    <2>1. /\ Append(s, c + 1) \in Seq(Nat) /\ Len(Append(s, c + 1)) = n + 1
          /\ \A i \in 1 .. n : Append(s, c + 1)[i] = s[i]
          /\ Append(s, c + 1)[n + 1] = c + 1
      BY <1>1, AppendProperties
    <2>2. \A i \in 1 .. n + 1 : i \in 1 .. n \/ i = n + 1
      BY <1>1
    <2>3. f = 0
      BY <1>1, <1>2, <1>6
    <2> QED
      BY <1>1, <1>2, <1>6, <2>1, <2>2, <2>3
  <1>7. CASE c' = c + 1 /\ ~ (n < max) /\ s' = Append(Tail(s), c + 1) /\ f' = f + 1
    <2>1. n = max /\ s # <<>>
      BY <1>1, <1>2, <1>7, EmptySeq
    <2> DEFINE r == Tail(s)
    <2>2. /\ r \in Seq(Nat) /\ Len(r) = n - 1
          /\ \A i \in 1 .. n - 1 : r[i] = s[i + 1]
      BY <1>1, <2>1, HeadTailProperties
    <2>3. s' = Append(r, c + 1)
      BY <1>7
    <2> HIDE DEF r
    <2>4. /\ Append(r, c + 1) \in Seq(Nat) /\ Len(Append(r, c + 1)) = n
          /\ \A i \in 1 .. n - 1 : Append(r, c + 1)[i] = r[i]
          /\ Append(r, c + 1)[n] = c + 1
      BY <1>1, <2>1, <2>2, AppendProperties
    <2>5. \A i \in 1 .. n - 1 : s'[i] = f' + i
      <3>1. \A i \in 1 .. n - 1 : i + 1 \in 1 .. n
        BY <1>1
      <3> QED
        BY <1>1, <1>2, <1>7, <2>2, <2>3, <2>4, <3>1
    <2>6. \A i \in 1 .. n : i \in 1 .. n - 1 \/ i = n
      BY <1>1
    <2>7. s'[n] = f' + n
      BY <1>1, <1>2, <1>7, <2>3, <2>4
    <2>8. s' \in Seq(Nat) /\ Len(s') = n
      BY <2>3, <2>4
    <2>9. \A i \in 1 .. Len(s') : s'[i] = f' + i
      BY <2>5, <2>6, <2>7, <2>8
    <2>10. c' \in Nat /\ f' \in Nat /\ c' = f' + n
      BY <1>1, <1>2, <1>7
    <2>11. Len(s') <= max /\ Len(s') = max /\ c' = f' + Len(s')
      BY <1>1, <2>1, <2>8, <2>10
    <2> QED
      BY <2>8, <2>9, <2>10, <2>11
  <1> QED
    BY <1>3, <1>5, <1>6, <1>7

(* It holds of every state.                                                 *)
LEMMA LogAlways == Spec => [](LogTypes /\ LogIsRecent)
  <1>1. Ring!Init => LogTypes /\ LogIsRecent
    <2> SUFFICES ASSUME Ring!Init PROVE LogTypes /\ LogIsRecent
      OBVIOUS
    <2>1. Kept = <<>> /\ Published = 0 /\ Forgotten = 0
      BY DEF Ring!Init
    <2>2. Kept \in Seq(Nat) /\ Len(Kept) = 0
      BY <2>1, EmptySeq
    <2> QED
      BY <2>1, <2>2, SizeAssumption DEF LogTypes, LogIsRecent
  <1>2. LogTypes /\ LogIsRecent /\ [Ring!Next]_Ring!vars => LogTypes' /\ LogIsRecent'
    BY RecentKept
  <1> QED
    BY <1>1, <1>2, ImplementsEventLog, PTL DEF RefinesEventLog, Ring!Spec

(* What a reader of the log relies on: it always holds exactly the records  *)
(* published last, consecutive and in order, and overl_err, "Overflow" to   *)
(* the user, is exactly the number of the others, for every size of the     *)
(* ring and every preemption (App_logger.c:115-134).                        *)
THEOREM RingHoldsLatest == Spec => []LogIsRecent
  BY LogAlways, PTL

-------------------------------------------------------------------------------
(* The viewer.  Around the ring, from its oldest slot on, the records grow; *)
(* the slot at the head is the oldest, or the newest once it is stored and  *)
(* until the head is moved.                                                 *)
Fresh    == \E t \in Loggers : lpc[t] = "publish"
Storing  == \E t \in Loggers : lpc[t] = "store"
Boundary == IF Fresh THEN Succ(head) ELSE head

Growing ==
  /\ \A i \in Slots : slot[i] # NoRec /\ Succ(i) # Boundary => slot[i] < slot[Succ(i)]
  /\ \A i \in Slots : slot[i] <= accepted /\ (Storing => slot[i] < accepted)

(* Slots nobody has written are there only in the first round, at the head  *)
(* and behind it.                                                           *)
FirstRound ==
  \A i \in Slots : slot[i] = NoRec =>
    i >= head /\ tail = 0 /\ (Fixing => head # 0) /\ (Fresh => i # head)

Printing == vpc \in {"stamp", "text"}

(* What the viewer will show is newer than the end of its last line.  It    *)
(* cannot find its slot stored but not published: the writer would be a     *)
(* task of higher priority, and still running.                              *)
ViewSound ==
  /\ ends <= accepted /\ (Storing => ends < accepted)
  /\ vpc = "off" => ends = NoRec
  /\ vpc # "off" /\ (vidx # head \/ Fresh \/ Printing) => slot[vidx] > ends
  /\ Printing /\ vidx = head
       => \A t \in Loggers : lpc[t] = "publish"
                               => t # FileTask /\ Prio[t] < Prio[Viewer]

ViewInv == Growing /\ FirstRound /\ ViewSound

(* No terminal shares its priority with a task that logs (App.h:119-134).   *)
OwnPriority == \A t \in Writers : Prio[t] # Prio[Viewer]

(* Distinct slots have distinct successors, and none is its own.            *)
LEMMA NextDiffers ==
  ASSUME NEW i \in Slots, NEW j \in Slots
  PROVE  (Succ(i) = Succ(j) <=> i = j) /\ Succ(i) # i
  <1>1. /\ Succ(i) = (IF i = EVENT_LOG_SIZE - 1 THEN 0 ELSE i + 1)
        /\ Succ(j) = (IF j = EVENT_LOG_SIZE - 1 THEN 0 ELSE j + 1)
    BY NextSlot
  <1>2. /\ EVENT_LOG_SIZE \in Nat /\ EVENT_LOG_SIZE > 1
        /\ i \in 0 .. EVENT_LOG_SIZE - 1 /\ j \in 0 .. EVENT_LOG_SIZE - 1
    BY SizeAssumption DEF Slots
  <1> QED
    BY <1>1, <1>2

(* A step that neither writes a record nor touches the ring or the viewer   *)
(* keeps the invariant.                                                     *)
LEMMA ViewUnseen ==
  ASSUME TypeOK, ViewInv, UNCHANGED <<slot, head, tail, accepted, vpc, vidx, ends>>,
         \A t \in Loggers : lpc[t] \in Writing \/ lpc'[t] \in Writing
                              => lpc'[t] = lpc[t]
  PROVE  ViewInv'
  <1>1. (Fresh' <=> Fresh) /\ (Storing' <=> Storing) /\ (Fixing' <=> Fixing)
    BY DEF Fresh, Storing, Fixing, Writing
  <1>2. Boundary' = Boundary
    BY <1>1 DEF Boundary, Succ
  <1>3. Growing'
    BY <1>1, <1>2 DEF ViewInv, Growing, Succ
  <1>4. FirstRound'
    BY <1>1 DEF ViewInv, FirstRound
  <1>5. ViewSound'
    BY <1>1 DEF ViewInv, ViewSound, Printing, Writing
  <1> QED
    BY <1>3, <1>4, <1>5 DEF ViewInv

(* The types of what the viewer's invariant is about.                       *)
LEMMA ViewFacts ==
  ASSUME TypeOK
  PROVE  /\ slot \in [Slots -> Nat] /\ head \in Slots /\ tail \in Slots
         /\ accepted \in Nat /\ shown \in Nat /\ ends \in Nat /\ vidx \in Slots
         /\ Slots \subseteq Nat /\ 0 \in Slots
  BY SizeAssumption DEF TypeOK, RingTypes, CallTypes, Slots

(* Accepting a record makes it newer than all others.                       *)
LEMMA ViewAccept ==
  ASSUME TypeOK, SemInv, ViewInv, NEW t \in Loggers, WriteLogToFile(t)
  PROVE  ViewInv'
  <1>1. /\ lpc[t] = "record" /\ Goto(t, "store") /\ accepted' = accepted + 1
        /\ UNCHANGED <<slot, head, tail, vpc, vidx, ends>>
    BY DEF WriteLogToFile, At, ringVars, fileSide, viewVars
  <1>2. lpc'[t] = "store" /\ \A u \in Loggers : u # t => lpc'[u] = lpc[u]
    BY <1>1 DEF Goto, TypeOK, CallTypes
  <1>3. \A u \in Loggers : u # t => lpc[u] \notin Locked
    BY <1>1, WriterAlone DEF Locked
  <1>4. ~Fresh /\ ~Fresh' /\ ~Fixing /\ ~Fixing'
    BY <1>1, <1>2, <1>3 DEF Fresh, Fixing, Locked
  <1>5. Boundary' = Boundary
    BY <1>1, <1>4 DEF Boundary
  <1>6. Growing'
    <2>1. \A i \in Slots : slot[i] <= accepted + 1 /\ slot[i] < accepted + 1
      BY ViewFacts DEF ViewInv, Growing
    <2>2. \A i \in Slots : slot'[i] <= accepted' /\ slot'[i] < accepted'
      BY <1>1, <2>1
    <2>3. \A i \in Slots : slot'[i] # NoRec /\ Succ(i)' # Boundary'
                             => slot'[i] < slot'[Succ(i)']
      BY <1>1, <1>5 DEF ViewInv, Growing, Succ
    <2> QED
      BY <2>2, <2>3 DEF Growing, Succ
  <1>7. FirstRound'
    BY <1>1, <1>4 DEF ViewInv, FirstRound
  <1>8. ViewSound'
    BY <1>1, <1>4, ViewFacts DEF ViewInv, ViewSound, Printing, Fresh
  <1> QED
    BY <1>6, <1>7, <1>8 DEF ViewInv

(* Storing it in the head's slot does not disturb the order.                *)
LEMMA ViewStore ==
  ASSUME OwnPriority, TypeOK, SemInv, RingSound, ViewInv, NEW t \in Loggers, Store(t)
  PROVE  ViewInv'
  <1>1. /\ lpc[t] = "store" /\ Goto(t, "publish") /\ rec[t] = accepted
        /\ slot' = [slot EXCEPT ![head] = accepted] /\ CanRun(t)
        /\ UNCHANGED <<head, tail, accepted, vpc, vidx, ends>>
    BY DEF Store, At, callVars, recVars, fileSide, viewVars, RingSound
  <1>2. lpc'[t] = "publish" /\ \A u \in Loggers : u # t => lpc'[u] = lpc[u]
    BY <1>1 DEF Goto, TypeOK, CallTypes
  <1>3. \A u \in Loggers : u # t => lpc[u] \notin Locked
    BY <1>1, WriterAlone DEF Locked
  <1>4. Storing /\ ~Fresh /\ Fresh' /\ ~Storing' /\ ~Fixing /\ ~Fixing'
    BY <1>1, <1>2, <1>3 DEF Fresh, Storing, Fixing, Locked
  <1>5. Boundary = head /\ Boundary' = Succ(head)
    BY <1>1, <1>4 DEF Boundary, Succ
  <1>6. /\ slot' \in [Slots -> Nat] /\ slot'[head] = accepted
        /\ \A i \in Slots : i # head => slot'[i] = slot[i]
    BY <1>1, ViewFacts
  <1>7. \A i \in Slots : slot[i] \in Nat /\ slot[i] < accepted
    BY <1>4, ViewFacts DEF ViewInv, Growing
  <1>8. Growing'
    <2>1. \A i \in Slots : slot'[i] <= accepted
      BY <1>6, <1>7, ViewFacts
    <2>2. ASSUME NEW i \in Slots, slot'[i] # NoRec, Succ(i) # Succ(head)
          PROVE  slot'[i] < slot'[Succ(i)]
      <3>1. i # head /\ Succ(i) \in Slots /\ slot'[i] = slot[i]
        BY <1>6, <2>2, NextSlot
      <3>2. CASE Succ(i) = head
        BY <1>6, <1>7, <3>1, <3>2
      <3>3. CASE Succ(i) # head
        BY <1>5, <1>6, <2>2, <3>1, <3>3 DEF ViewInv, Growing
      <3> QED
        BY <3>2, <3>3
    <2> QED
      BY <1>1, <1>4, <1>5, <2>1, <2>2 DEF Growing, Succ
  <1>9. FirstRound'
    <2>1. accepted # NoRec
      BY <1>7, ViewFacts DEF NoRec
    <2>2. \A i \in Slots : slot'[i] = NoRec => slot[i] = NoRec
      BY <1>6, <2>1
    <2> QED
      BY <1>1, <1>4, <1>6, <2>1, <2>2 DEF ViewInv, FirstRound
  <1>10. ViewSound'
    <2>1. ends < accepted /\ (vpc = "off" => ends = NoRec)
      BY <1>4 DEF ViewInv, ViewSound, Printing
    <2>2. ends <= accepted
      BY <2>1, ViewFacts
    <2>3. vpc # "off" => slot'[vidx] > ends
      <3>1. CASE vidx = head
        BY <1>6, <2>1, <3>1, ViewFacts
      <3>2. CASE vidx # head
        BY <1>6, <3>2, ViewFacts DEF ViewInv, ViewSound, Printing
      <3> QED
        BY <3>1, <3>2
    <2>4. Printing => t # FileTask /\ Prio[t] < Prio[Viewer]
      <3> SUFFICES ASSUME Printing
                   PROVE  t # FileTask /\ Prio[t] < Prio[Viewer]
        OBVIOUS
      <3>1. Viewer \in Tasks \ {t, FileTask} /\ Ready(Viewer) /\ t \in Tasks
        BY TaskAssumption DEF Tasks, Loggers, Ready, Printing
      <3>2. ~(Prio[Viewer] < Prio[t])
        BY <1>1, <3>1 DEF CanRun
      <3>3. Prio[Viewer] \in Nat /\ Prio[t] \in Nat /\ Prio[Viewer] < Prio[FileTask]
        BY <3>1, PrioAssumption
      <3>4. t # FileTask
        BY <3>2, <3>3
      <3>5. Prio[t] # Prio[Viewer]
        BY <3>4 DEF Loggers, OwnPriority
      <3> QED
        BY <3>2, <3>3, <3>4, <3>5
    <2>5. \A u \in Loggers : lpc'[u] = "publish" => u = t
      BY <1>2, <1>3 DEF Locked
    <2> QED
      BY <1>1, <1>4, <2>1, <2>2, <2>3, <2>4, <2>5 DEF ViewSound, Printing
  <1> QED
    BY <1>8, <1>9, <1>10 DEF ViewInv

(* Moving the head keeps it: the boundary had moved when the slot was       *)
(* stored.                                                                  *)
LEMMA ViewPublish ==
  ASSUME TypeOK, SemInv, ViewInv, NEW t \in Loggers, Publish(t)
  PROVE  ViewInv'
  <1>1. /\ lpc[t] = "publish" /\ Goto(t, "fixtail") /\ head' = Succ(head)
        /\ UNCHANGED <<slot, tail, accepted, vpc, vidx, ends>>
    BY DEF Publish, At, callVars, recVars, fileSide, viewVars
  <1>2. lpc'[t] = "fixtail" /\ \A u \in Loggers : u # t => lpc'[u] = lpc[u]
    BY <1>1 DEF Goto, TypeOK, CallTypes
  <1>3. \A u \in Loggers : u # t => lpc[u] \notin Locked
    BY <1>1, WriterAlone DEF Locked
  <1>4. Fresh /\ ~Fresh' /\ ~Storing'
    BY <1>1, <1>2, <1>3 DEF Fresh, Storing, Locked
  <1>5. Boundary' = Boundary
    BY <1>1, <1>4 DEF Boundary
  <1>6. Growing'
    BY <1>1, <1>4, <1>5 DEF ViewInv, Growing, Succ
  <1>7. FirstRound'
    <2> SUFFICES ASSUME NEW i \in Slots, slot[i] = NoRec
                 PROVE  i >= Succ(head) /\ tail = 0 /\ Succ(head) # 0
      BY <1>1, <1>4 DEF FirstRound
    <2>1. i >= head /\ tail = 0 /\ i # head
      BY <1>4 DEF ViewInv, FirstRound
    <2>2. /\ i \in Nat /\ head \in Nat /\ i <= EVENT_LOG_SIZE - 1
          /\ EVENT_LOG_SIZE \in Nat
      BY ViewFacts, SizeAssumption DEF Slots
    <2>3. Succ(head) = head + 1
      <3>1. head # EVENT_LOG_SIZE - 1
        BY <2>1, <2>2
      <3> QED
        BY <3>1, ViewFacts, NextSlot
    <2> QED
      BY <2>1, <2>2, <2>3
  <1>8. ViewSound'
    BY <1>1, <1>4 DEF ViewInv, ViewSound, Printing, Fresh
  <1> QED
    BY <1>6, <1>7, <1>8 DEF ViewInv

(* The tail moves only in a ring that has been full.                        *)
LEMMA ViewFixTail ==
  ASSUME TypeOK, SemInv, ViewInv, NEW t \in Loggers, FixTail(t)
  PROVE  ViewInv'
  <1>1. /\ lpc[t] = "fixtail" /\ Goto(t, "post")
        /\ head # tail => UNCHANGED tail
        /\ UNCHANGED <<slot, head, accepted, vpc, vidx, ends>>
    BY DEF FixTail, At, callVars, recVars, fileSide, viewVars
  <1>2. lpc'[t] = "post" /\ \A u \in Loggers : u # t => lpc'[u] = lpc[u]
    BY <1>1 DEF Goto, TypeOK, CallTypes
  <1>3. \A u \in Loggers : u # t => lpc[u] \notin Locked
    BY <1>1, WriterAlone DEF Locked
  <1>4. Fixing /\ ~Fixing' /\ ~Fresh /\ ~Fresh' /\ ~Storing'
    BY <1>1, <1>2, <1>3 DEF Fresh, Storing, Fixing, Locked
  <1>5. Growing'
    BY <1>1, <1>4 DEF ViewInv, Growing, Boundary, Succ
  <1>6. FirstRound'
    <2> SUFFICES ASSUME NEW i \in Slots, slot[i] = NoRec
                 PROVE  i >= head /\ tail' = 0
      BY <1>1, <1>4 DEF FirstRound
    <2>1. i >= head /\ tail = 0 /\ head # 0
      BY <1>4 DEF ViewInv, FirstRound
    <2> QED
      BY <1>1, <2>1
  <1>7. ViewSound'
    BY <1>1, <1>4 DEF ViewInv, ViewSound, Printing, Fresh
  <1> QED
    BY <1>5, <1>6, <1>7 DEF ViewInv

(* The viewer shows only slots that were written, and each is older than    *)
(* the next it will find.                                                   *)
LEMMA ViewerStep ==
  ASSUME TypeOK, ViewInv, OpenView \/ Poll \/ ViewStep
  PROVE  ViewInv'
  <1>1. UNCHANGED <<slot, head, tail, accepted, lpc>>
    BY ViewFrame DEF otherThanView, ringVars, callVars, recVars
  <1>2. (Fresh' <=> Fresh) /\ (Storing' <=> Storing) /\ (Fixing' <=> Fixing)
    BY <1>1 DEF Fresh, Storing, Fixing
  <1>3. Boundary' = Boundary
    BY <1>1, <1>2 DEF Boundary, Succ
  <1>4. Growing' /\ FirstRound'
    BY <1>1, <1>2, <1>3 DEF ViewInv, Growing, FirstRound, Succ
  <1>5. ViewSound'
    <2>1. CASE OpenView
      <3>1. /\ vpc = "off" /\ vpc' = "poll" /\ vidx' = tail /\ ends' = ends
            /\ ends = NoRec
        BY <2>1 DEF OpenView, ViewAt, ViewInv, ViewSound, Printing
      <3>2. tail # head \/ Fresh => slot[tail] # NoRec
        <4> SUFFICES ASSUME slot[tail] = NoRec PROVE tail = head /\ ~Fresh
          OBVIOUS
        <4>1. tail >= head /\ tail = 0 /\ (Fresh => tail # head)
          BY ViewFacts DEF ViewInv, FirstRound
        <4> QED
          BY <4>1, ViewFacts
      <3>3. tail # head \/ Fresh => slot[tail] > ends
        BY <3>1, <3>2, ViewFacts DEF NoRec
      <3> QED
        BY <1>1, <1>2, <3>1, <3>3 DEF ViewInv, ViewSound, Printing
    <2>2. CASE Poll
      <3>1. CASE vpc = "poll" /\ vpc' = "check" /\ UNCHANGED <<vidx, ends>>
        BY <1>1, <1>2, <3>1 DEF ViewInv, ViewSound, Printing
      <3>2. CASE vpc' = "off" /\ ends' = NoRec
        <4>1. NoRec <= accepted /\ (Storing => NoRec < accepted)
          BY ViewFacts DEF ViewInv, ViewSound, Printing, NoRec
        <4> QED
          BY <1>1, <1>2, <3>2, <4>1 DEF ViewSound, Printing
      <3> QED
        BY <2>2, <3>1, <3>2 DEF Poll, ViewAt
    <2>3. CASE CheckHead
      <3>1. /\ vpc = "check" /\ UNCHANGED <<vidx, ends>>
            /\ vpc' = IF vidx # head THEN "stamp" ELSE "poll"
        BY <2>3 DEF CheckHead, ViewAt
      <3> QED
        BY <1>1, <1>2, <3>1 DEF ViewInv, ViewSound, Printing
    <2>4. CASE ReadText
      <3>1. /\ vpc = "text" /\ vpc' = "output" /\ ends' = slot[vidx]
            /\ vidx' = Succ(vidx) /\ CanRun(Viewer)
        BY <2>4 DEF ReadText, ViewAt
      <3>2. slot[vidx] # NoRec
        BY <3>1, ViewFacts DEF ViewInv, ViewSound, Printing, NoRec
      <3>3. ~(Fresh /\ vidx = head)
        <4> SUFFICES ASSUME NEW t \in Loggers, lpc[t] = "publish", vidx = head
                     PROVE  FALSE
          BY DEF Fresh
        <4>1. t # FileTask /\ Prio[t] < Prio[Viewer]
          BY <3>1 DEF ViewInv, ViewSound, Printing
        <4>2. t \in Tasks \ {Viewer, FileTask}
          BY <4>1, TaskAssumption DEF Tasks
        <4>3. ~Ready(t)
          BY <3>1, <4>1, <4>2 DEF CanRun
        <4> QED
          BY <4>2, <4>3 DEF Ready
      <3>4. Succ(vidx) # head \/ Fresh => Succ(vidx) # Boundary
        BY <3>3, ViewFacts, NextDiffers DEF Boundary
      <3>5. Succ(vidx) # head \/ Fresh => slot[Succ(vidx)] > slot[vidx]
        <4>1. Succ(vidx) \in Slots /\ vidx \in Slots
          BY ViewFacts, NextSlot
        <4>2. Succ(vidx) # head \/ Fresh => slot[vidx] < slot[Succ(vidx)]
          BY <3>2, <3>4, <4>1 DEF ViewInv, Growing
        <4> QED
          BY <4>1, <4>2, ViewFacts
      <3>6. slot[vidx] <= accepted /\ (Storing => slot[vidx] < accepted)
        BY ViewFacts DEF ViewInv, Growing
      <3> QED
        BY <1>1, <1>2, <3>1, <3>5, <3>6 DEF ViewSound, Printing
    <2>6. CASE ReadStamp
      <3>1. vpc = "stamp" /\ vpc' = "text" /\ UNCHANGED <<vidx, ends>>
        BY <2>6 DEF ReadStamp, ViewAt
      <3> QED
        BY <1>1, <1>2, <3>1 DEF ViewInv, ViewSound, Printing
    <2>5. CASE OutputDone
      BY <1>1, <1>2, <2>5 DEF OutputDone, ViewAt, ViewInv, ViewSound, Printing
    <2> QED
      BY <2>1, <2>2, <2>3, <2>4, <2>5, <2>6 DEF ViewStep
  <1> QED
    BY <1>4, <1>5 DEF ViewInv

(* Every step keeps the viewer's invariant.                                 *)
LEMMA ViewKept ==
  ASSUME OwnPriority, TypeOK, SemInv, RingSound, ViewInv, [Next]_vars
  PROVE  ViewInv'
  <1>1. ASSUME NEW t \in Loggers, Log(t) \/ LogStep(t) \/ Timeout(t)
        PROVE  ViewInv'
    <2>1. CASE WriteLogToFile(t)
      BY <2>1, ViewAccept
    <2>2. CASE Store(t)
      BY <2>2, ViewStore
    <2>3. CASE Publish(t)
      BY <2>3, ViewPublish
    <2>4. CASE FixTail(t)
      BY <2>4, ViewFixTail
    <2>5. CASE Log(t) \/ Timeout(t) \/ Wait(t) \/ SkipLoad(t) \/ SkipStore(t)
               \/ Free(t) \/ Post(t)
      <3>1. UNCHANGED <<slot, head, tail, accepted, vpc, vidx, ends>>
        BY <2>5 DEF Log, Timeout, Wait, SkipLoad, SkipStore, Free, Post, recVars,
           bodyVars, ringVars, fileSide, viewVars
      <3>2. CASE Post(t)
        BY <3>1, <3>2, FirstIsBlocked, ViewUnseen
        DEF Post, At, Goto, Writing, TypeOK, CallTypes
      <3>3. CASE ~Post(t)
        <4>1. \/ UNCHANGED lpc
              \/ lpc[t] \notin Writing /\ \E p : p \notin Writing /\ Goto(t, p)
          BY <2>5, <3>3 DEF Log, Timeout, Wait, SkipLoad, SkipStore, Free, At,
             EnterLog, Writing
        <4>2. \A u \in Loggers : lpc[u] \in Writing \/ lpc'[u] \in Writing
                                   => lpc'[u] = lpc[u]
          BY <4>1 DEF Goto, Writing, TypeOK, CallTypes
        <4> QED
          BY <3>1, <4>2, ViewUnseen
      <3> QED
        BY <3>2, <3>3
    <2> QED
      BY <1>1, <2>1, <2>2, <2>3, <2>4, <2>5 DEF LogStep
  <1>2. CASE OpenView \/ Poll \/ ViewStep
    BY <1>2, ViewerStep
  <1>3. CASE UNCHANGED vars
    <2>1. UNCHANGED <<slot, head, tail, accepted, vpc, vidx, ends, lpc>>
      BY <1>3 DEF vars, callVars, recVars, ringVars, fileSide, viewVars
    <2> QED
      BY <2>1, ViewUnseen
  <1>4. CASE FileStep
    <2>1. UNCHANGED <<slot, head, tail, accepted, vpc, vidx, ends>>
          /\ FileTask \in Loggers
      BY <1>4, FileFrame
      DEF logSide, callVars, recVars, ringVars, viewVars, Loggers
    <2>2. \A u \in Loggers : lpc[u] \in Writing \/ lpc'[u] \in Writing
                               => lpc'[u] = lpc[u]
      BY <1>4, <2>1, FileFrame DEF Goto, Writing, TypeOK, CallTypes
    <2> QED
      BY <2>1, <2>2, ViewUnseen
  <1>5. CASE ChangeParams \/ RequestSave \/ SpaceMeasured
    <2>1. UNCHANGED <<slot, head, tail, accepted, vpc, vidx, ends>>
          /\ Mzts \in Loggers
      BY <1>5, OtherFrame, TaskAssumption
      DEF logSide, callVars, recVars, ringVars, viewVars, Loggers
    <2>2. \A u \in Loggers : lpc[u] \in Writing \/ lpc'[u] \in Writing
                               => lpc'[u] = lpc[u]
      BY <1>5, <2>1 DEF ChangeParams, RequestSave, SpaceMeasured, At, Goto,
         Writing, TypeOK, CallTypes
    <2> QED
      BY <2>1, <2>2, ViewUnseen
  <1> QED
    BY <1>1, <1>2, <1>3, <1>4, <1>5 DEF Next

(* The slot at the head.  Unless the ring is full, nobody has written it or *)
(* one behind it; a record it holds is the one the ring forgot last.        *)
Round ==
  Oldest # Succ(head) =>
    /\ tail = 0
    /\ \A i \in Slots : i > head \/ (i = head /\ ~Fresh) => slot[i] = NoRec

(* Steps that neither write a record nor touch the ring keep it.            *)
LEMMA RoundUnseen ==
  ASSUME TypeOK, Round, UNCHANGED <<slot, head, tail>>,
         \A t \in Loggers : lpc[t] \in {"publish", "fixtail"}
                            \/ lpc'[t] \in {"publish", "fixtail"}
                              => lpc'[t] = lpc[t]
  PROVE  Round'
  <1>1. Fresh' <=> Fresh
    BY DEF Fresh
  <1>2. Overrun' <=> Overrun
    BY DEF Overrun
  <1>3. Oldest' = Oldest
    BY <1>2 DEF Oldest, Succ
  <1> QED
    BY <1>1, <1>3 DEF Round, Succ

(* The steps that write one do as well.                                     *)
LEMMA RoundWrites ==
  ASSUME TypeOK, SemInv, Round, NEW t \in Loggers,
         Store(t) \/ Publish(t) \/ FixTail(t)
  PROVE  Round'
  <1>1. lpc[t] \in Locked /\ \A u \in Loggers : u # t => lpc[u] \notin Locked
    BY WriterAlone DEF Store, Publish, FixTail, At, Locked
  <1>2. /\ slot \in [Slots -> Nat] /\ head \in Slots /\ tail \in Slots
        /\ Slots \subseteq Nat /\ EVENT_LOG_SIZE \in Nat
    BY ViewFacts, SizeAssumption
  <1>3. CASE Store(t)
    <2>1. /\ lpc[t] = "store" /\ Goto(t, "publish") /\ UNCHANGED <<head, tail>>
          /\ slot' = [slot EXCEPT ![head] = rec[t]]
      BY <1>3 DEF Store, At
    <2>2. lpc'[t] = "publish" /\ \A u \in Loggers : u # t => lpc'[u] = lpc[u]
      BY <2>1 DEF Goto, TypeOK, CallTypes
    <2>3. Fresh' /\ ~Fresh /\ ~Overrun /\ ~Overrun'
      BY <1>1, <2>1, <2>2 DEF Fresh, Overrun, Locked
    <2>4. Oldest' = Oldest
      BY <2>1, <2>3 DEF Oldest
    <2>5. \A i \in Slots : i > head => slot'[i] = slot[i]
      BY <1>2, <2>1
    <2> QED
      BY <2>1, <2>3, <2>4, <2>5 DEF Round, Succ
  <1>4. CASE Publish(t)
    <2>1. /\ lpc[t] = "publish" /\ Goto(t, "fixtail") /\ UNCHANGED <<slot, tail>>
          /\ head' = Succ(head)
      BY <1>4 DEF Publish, At
    <2>2. lpc'[t] = "fixtail" /\ \A u \in Loggers : u # t => lpc'[u] = lpc[u]
      BY <2>1 DEF Goto, TypeOK, CallTypes
    <2>3. ~Overrun /\ (Overrun' <=> head' = tail)
      BY <1>1, <2>1, <2>2 DEF Overrun, Locked
    <2> SUFFICES ASSUME Oldest' # Succ(head)'
                 PROVE  tail = 0 /\ \A i \in Slots : i >= head' => slot[i] = NoRec
      BY <1>2, <2>1, NextSlot DEF Round
    <2>4. head' # tail
      BY <2>1, <2>3 DEF Oldest, Succ
    <2>5. Oldest = tail
      BY <2>3 DEF Oldest
    <2>6. tail = 0 /\ \A i \in Slots : i > head => slot[i] = NoRec
      BY <2>1, <2>4, <2>5 DEF Round
    <2>7. head' = head + 1
      BY <1>2, <2>1, <2>4, <2>6, NextSlot
    <2> QED
      BY <1>2, <2>6, <2>7
  <1>5. CASE FixTail(t)
    <2>1. /\ lpc[t] = "fixtail" /\ Goto(t, "post") /\ UNCHANGED <<slot, head>>
          /\ tail' = IF head = tail THEN Succ(tail) ELSE tail
      BY <1>5 DEF FixTail, At
    <2>2. lpc'[t] = "post" /\ \A u \in Loggers : u # t => lpc'[u] = lpc[u]
      BY <2>1 DEF Goto, TypeOK, CallTypes
    <2>3. ~Overrun' /\ (Overrun <=> head = tail) /\ ~Fresh /\ ~Fresh'
      BY <1>1, <2>1, <2>2 DEF Overrun, Fresh, Locked
    <2>4. CASE head = tail
      BY <2>1, <2>3, <2>4 DEF Round, Oldest, Succ
    <2>5. CASE head # tail
      BY <2>1, <2>3, <2>5 DEF Round, Oldest, Succ
    <2> QED
      BY <2>4, <2>5
  <1> QED
    BY <1>3, <1>4, <1>5

(* Every step keeps it.                                                     *)
LEMMA RoundKept ==
  ASSUME TypeOK, SemInv, Round, [Next]_vars
  PROVE  Round'
  <1> DEFINE Moves == {"publish", "fixtail"}
  <1>1. ASSUME NEW t \in Loggers, NEW p, p \notin Moves, lpc[t] \notin Moves,
               UNCHANGED lpc \/ Goto(t, p), UNCHANGED ringVars
        PROVE  Round'
    <2>1. \A u \in Loggers : lpc[u] \in Moves \/ lpc'[u] \in Moves
                               => lpc'[u] = lpc[u]
      BY <1>1 DEF Goto, TypeOK, CallTypes
    <2> QED
      BY <1>1, <2>1, RoundUnseen DEF ringVars
  <1>2. UNCHANGED <<lpc, ringVars>> => Round'
    BY RoundUnseen DEF ringVars
  <1>3. ASSUME NEW t \in Loggers, Log(t) \/ LogStep(t) \/ Timeout(t)
        PROVE  Round'
    <2>1. CASE Store(t) \/ Publish(t) \/ FixTail(t)
      BY <2>1, RoundWrites
    <2>2. CASE Post(t)
      <3>1. UNCHANGED ringVars /\ lpc[t] = "post"
        BY <2>2 DEF Post, At, bodyVars
      <3>2. \A u \in Loggers : lpc[u] \in Moves \/ lpc'[u] \in Moves
                                 => lpc'[u] = lpc[u]
        BY <2>2, <3>1, FirstIsBlocked DEF Post, Goto, TypeOK, CallTypes
      <3> QED
        BY <3>1, <3>2, RoundUnseen DEF ringVars
    <2>3. CASE Log(t) \/ Timeout(t) \/ Wait(t) \/ SkipLoad(t) \/ SkipStore(t)
               \/ WriteLogToFile(t) \/ Free(t)
      <3>1. UNCHANGED ringVars /\ lpc[t] \notin Moves
        BY <2>3 DEF Log, Timeout, Wait, SkipLoad, SkipStore, WriteLogToFile, Free,
           At, bodyVars
      <3>2. UNCHANGED lpc \/ \E p : p \notin Moves /\ Goto(t, p)
        BY <2>3 DEF Log, Timeout, Wait, SkipLoad, SkipStore, WriteLogToFile, Free,
           EnterLog
      <3> QED
        BY <1>1, <1>2, <3>1, <3>2
    <2> QED
      BY <1>3, <2>1, <2>2, <2>3 DEF LogStep
  <1>4. CASE OpenView \/ Poll \/ ViewStep \/ UNCHANGED vars
    BY <1>2, <1>4, ViewFrame DEF otherThanView, vars
  <1>5. CASE FileStep
    <2>1. UNCHANGED ringVars /\ FileTask \in Loggers
      BY <1>5, FileFrame DEF logSide, Loggers
    <2>2. \A u \in Loggers : lpc[u] \in Moves \/ lpc'[u] \in Moves
                               => lpc'[u] = lpc[u]
      BY <1>5, <2>1, FileFrame DEF Goto, TypeOK, CallTypes
    <2> QED
      BY <2>1, <2>2, RoundUnseen DEF ringVars
  <1>6. CASE ChangeParams \/ RequestSave \/ SpaceMeasured
    <2>1. UNCHANGED ringVars /\ Mzts \in Loggers
      BY <1>6, OtherFrame, TaskAssumption DEF logSide, Loggers
    <2>2. UNCHANGED lpc \/ (lpc[Mzts] \notin Moves
                            /\ \E p : p \notin Moves /\ Goto(Mzts, p))
      BY <1>6 DEF ChangeParams, RequestSave, SpaceMeasured, At
    <2> QED
      BY <1>1, <1>2, <2>1, <2>2
  <1> QED
    BY <1>3, <1>4, <1>5, <1>6 DEF Next

(* What a writer is about to overwrite has been forgotten.                  *)
LEMMA HeadForgotten ==
  ASSUME TypeOK, Growing, Round, LogTypes, LogIsRecent, ~Fresh, ~Fixing,
         slot[head] # NoRec
  PROVE  slot[head] <= Forgotten
  <1>1. /\ slot \in [Slots -> Nat] /\ head \in Slots /\ Succ(head) \in Slots
        /\ Forgotten \in Nat /\ EVENT_LOG_SIZE \in Nat /\ EVENT_LOG_SIZE > 1
    BY ViewFacts, NextSlot, SizeAssumption DEF LogTypes
  <1>2. Oldest = Succ(head)
    BY <1>1 DEF Round
  <1>3. Kept = Content(slot, head, Succ(head))
    BY <1>2, RingFacts
  <1>4. Back(head, Succ(head)) = EVENT_LOG_SIZE - 1
    <2>1. head \in 0 .. EVENT_LOG_SIZE - 1
          /\ Succ(head) = (IF head = EVENT_LOG_SIZE - 1 THEN 0 ELSE head + 1)
      BY <1>1, NextSlot DEF Slots
    <2> QED
      BY <1>1, <2>1 DEF Back
  <1>5. 1 \in 1 .. Back(head, Succ(head))
    BY <1>1, <1>4
  <1>6. Nth(Succ(head), 1) = Succ(head)
    BY <1>1 DEF Nth, Slots
  <1>7. Kept[1] = slot[Succ(head)] /\ Len(Kept) = Back(head, Succ(head))
    BY <1>1, <1>3, <1>5, <1>6, ContentFacts DEF Content
  <1>8. slot[Succ(head)] = Forgotten + 1
    BY <1>5, <1>7 DEF LogIsRecent
  <1>9. slot[head] < slot[Succ(head)]
    BY <1>1, NextDiffers DEF Growing, Boundary
  <1> QED
    BY <1>1, <1>8, <1>9

(* Nothing forgotten comes back.                                            *)
LEMMA ForgottenGrows ==
  ASSUME LogTypes, [Ring!Next]_Ring!vars
  PROVE  Forgotten \in Nat /\ Forgotten' \in Nat /\ Forgotten' >= Forgotten
  BY DEF LogTypes, Ring!Next, Ring!Publish, Ring!vars

(* While the line is formatted, the slot holds the record the line began    *)
(* with, or a newer one and that record is forgotten.                       *)
TextSound ==
  vpc = "text" => \/ shown = slot[vidx]
                  \/ shown < slot[vidx] /\ shown <= Forgotten

(* Every step keeps it.                                                     *)
LEMMA TextKept ==
  ASSUME TypeOK, SemInv, RingSound, LogTypes, LogIsRecent, ViewInv, Round,
         TextSound, [Ring!Next]_Ring!vars, [Next]_vars
  PROVE  TextSound'
  <1>1. /\ slot \in [Slots -> Nat] /\ vidx \in Slots /\ shown \in Nat
        /\ accepted \in Nat /\ ends \in Nat /\ head \in Slots
    BY ViewFacts
  <1>2. Forgotten \in Nat /\ Forgotten' \in Nat /\ Forgotten' >= Forgotten
    BY ForgottenGrows
  <1>3. ASSUME UNCHANGED <<slot, viewVars>>
        PROVE  TextSound'
    BY <1>1, <1>2, <1>3 DEF TextSound, viewVars
  <1>4. ASSUME NEW t \in Loggers, Log(t) \/ LogStep(t) \/ Timeout(t)
        PROVE  TextSound'
    <2>0. UNCHANGED viewVars
      BY <1>4, LogFrame DEF fileSide
    <2>1. CASE Store(t)
      <3>1. lpc[t] = "store" /\ slot' = [slot EXCEPT ![head] = accepted]
        BY <2>1 DEF Store, At, RingSound
      <3>2. Storing /\ ~Fresh /\ ~Fixing
        <4>1. \A u \in Loggers : u # t => lpc[u] \notin Locked
          BY <3>1, WriterAlone DEF Locked
        <4> QED
          BY <3>1, <4>1 DEF Storing, Fresh, Fixing, Locked
      <3> SUFFICES ASSUME vpc = "text"
                   PROVE  \/ shown = slot'[vidx]
                          \/ shown < slot'[vidx] /\ shown <= Forgotten'
        BY <2>0 DEF TextSound, viewVars
      <3>3. CASE vidx = head
        <4>1. slot'[vidx] = accepted /\ slot[vidx] < accepted
          BY <1>1, <3>1, <3>2, <3>3 DEF ViewInv, Growing
        <4>2. slot[vidx] > ends
          BY DEF ViewInv, ViewSound, Printing
        <4>3. slot[vidx] <= Forgotten
          BY <1>1, <3>2, <3>3, <4>2, HeadForgotten DEF ViewInv, NoRec
        <4>4. slot[vidx] \in Nat /\ (shown = slot[vidx] \/ shown < slot[vidx])
          BY <1>1 DEF TextSound
        <4> QED
          BY <1>1, <1>2, <4>1, <4>3, <4>4
      <3>4. CASE vidx # head
        <4>1. slot'[vidx] = slot[vidx]
          BY <1>1, <3>1, <3>4
        <4> QED
          BY <1>1, <1>2, <4>1 DEF TextSound
      <3> QED
        BY <3>3, <3>4
    <2>2. CASE ~Store(t)
      <3>1. UNCHANGED slot
        BY <1>4, <2>2 DEF LogStep, Log, Wait, Timeout, SkipLoad, SkipStore,
           WriteLogToFile, Publish, FixTail, Post, Free, ringVars, bodyVars
      <3> QED
        BY <1>3, <2>0, <3>1
    <2> QED
      BY <2>1, <2>2
  <1>5. CASE OpenView \/ Poll \/ ViewStep
    <2>1. UNCHANGED slot
      BY <1>5, ViewFrame DEF otherThanView, ringVars
    <2>2. CASE ReadStamp
      BY <2>1, <2>2 DEF ReadStamp, TextSound
    <2>3. CASE ~ReadStamp
      <3>1. vpc' # "text"
        BY <1>5, <2>3 DEF OpenView, Poll, ViewStep, CheckHead, ReadText, OutputDone
      <3> QED
        BY <3>1 DEF TextSound
    <2> QED
      BY <2>2, <2>3
  <1>6. CASE FileStep
    BY <1>3, <1>6, FileFrame DEF logSide, ringVars
  <1>7. CASE ChangeParams \/ RequestSave \/ SpaceMeasured
    BY <1>3, <1>7, OtherFrame DEF logSide, ringVars
  <1>8. CASE UNCHANGED vars
    BY <1>3, <1>8 DEF vars, ringVars, fileSide
  <1> QED
    BY <1>4, <1>5, <1>6, <1>7, <1>8 DEF Next

(* The viewer reads the ring without the semaphore and field after field.   *)
(* Still every line begins with a newer record than the one before ended    *)
(* with, and a line in which two records mix began with one that the ring   *)
(* has forgotten, as long as the viewer's task shares its priority with no  *)
(* writer (App_logger.c:467-499).                                           *)
THEOREM ViewerForward ==
  ASSUME OwnPriority
  PROVE  Spec => ViewerGoesForward
  <1> DEFINE Inv == RingSound /\ ViewInv /\ Round /\ TextSound
  <1>1. Init => Inv
    <2> SUFFICES ASSUME Init PROVE Inv
      OBVIOUS
    <2>1. ~Fresh /\ ~Storing /\ ~Fixing /\ RingSound
      BY DEF Init, Fresh, Storing, Fixing, RingSound
    <2>2. \A i \in Slots : i >= 0 /\ slot[i] = NoRec
      BY DEF Init, Slots
    <2>3. ViewInv
      BY <2>1, <2>2 DEF Init, ViewInv, Growing, FirstRound, ViewSound, Printing, NoRec
    <2> QED
      BY <2>1, <2>2, <2>3 DEF Init, Round, TextSound
  <1>2. TypeOK /\ SemInv /\ LogTypes /\ LogIsRecent /\ Inv /\ [Next]_vars => Inv'
    BY RingSimulates, ViewKept, RoundKept, TextKept
  <1>3. TypeOK /\ Inv /\ [Next]_vars
          => [/\ vpc = "stamp" /\ vpc' = "text" => shown' > ends
              /\ vpc = "text" /\ vpc' = "output" =>
                   ends' = shown \/ (ends' > shown /\ shown <= Forgotten)]_vars
    <2> SUFFICES ASSUME TypeOK, Inv, Next
                 PROVE  /\ vpc = "stamp" /\ vpc' = "text" => shown' > ends
                        /\ vpc = "text" /\ vpc' = "output" =>
                             ends' = shown \/ (ends' > shown /\ shown <= Forgotten)
      OBVIOUS
    <2>1. /\ vpc = "stamp" /\ vpc' = "text" => ReadStamp
          /\ vpc = "text" /\ vpc' = "output" => ReadText
      <3>1. CASE \E t \in Loggers : Log(t) \/ LogStep(t) \/ Timeout(t)
        BY <3>1, LogFrame DEF fileSide, viewVars
      <3>2. CASE FileStep
        BY <3>2, FileFrame DEF logSide, viewVars
      <3>3. CASE ChangeParams \/ RequestSave \/ SpaceMeasured
        BY <3>3, OtherFrame DEF logSide, viewVars
      <3>4. CASE OpenView \/ Poll \/ ViewStep
        BY <3>4 DEF OpenView, Poll, ViewStep, CheckHead, ReadStamp, ReadText,
           OutputDone, ViewAt
      <3> QED
        BY <3>1, <3>2, <3>3, <3>4 DEF Next
    <2>2. slot[vidx] \in Nat /\ shown \in Nat /\ ends \in Nat
      BY ViewFacts
    <2>3. ReadStamp => shown' > ends
      BY DEF ReadStamp, ViewAt, ViewInv, ViewSound, Printing
    <2>4. ReadText => ends' = shown \/ (ends' > shown /\ shown <= Forgotten)
      BY <2>2 DEF ReadText, ViewAt, TextSound
    <2> QED
      BY <2>1, <2>3, <2>4
  <1> HIDE DEF Inv
  <1> QED
    BY <1>1, <1>2, <1>3, TypeCorrect, SemInvAlways, LogAlways, PTL
    DEF Spec, ViewerGoesForward
===============================================================================
