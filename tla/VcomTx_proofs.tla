----------------------------- MODULE VcomTx_proofs -----------------------------
(***************************************************************************)
(* Theorems about the transmission on a virtual COM port, for any number   *)
(* of strings and of transfer descriptors: its type correctness, that the  *)
(* permission to send is not lost, that the one buffer is not formatted    *)
(* into while it is on its way, and that one transfer is.                  *)
(***************************************************************************)
EXTENDS VcomTx, SequenceTheorems, TLAPS

(* Who can give the permission knows that the port has been opened: TypeOK  *)
(* says it of the event and the transfers alone.                            *)
PortOpened ==
  flag \/ queue # << >> \/ completed # << >> \/ pc \in {"send", "end", "renew"}
    => opened

Typed == TypeOK /\ PortOpened

(* What taking the first element of a queue leaves.                         *)
LEMMA TailFacts ==
  ASSUME NEW S, NEW q \in Seq(S), q # << >>
  PROVE  /\ Tail(q) \in Seq(S) /\ Head(q) \in S
         /\ Len(Tail(q)) = Len(q) - 1 /\ Len(q) \in Nat /\ Len(q) > 0
  BY EmptySeq, HeadTailProperties, LenProperties

(* What appending to a queue gives.                                         *)
LEMMA AppendFacts ==
  ASSUME NEW S, NEW q \in Seq(S), NEW x \in S
  PROVE  /\ Append(q, x) \in Seq(S) /\ Append(q, x) # << >>
         /\ Len(Append(q, x)) = Len(q) + 1 /\ Len(q) \in Nat
         /\ Len(q) = 0 => Append(q, x)[1] = x
  BY AppendProperties, LenProperties

(* The first transfer has a kind.                                           *)
LEMMA KindFact == ASSUME TypeOK, queue # << >> PROVE Head(queue).kind \in Kinds
  <1>1. queue \in Seq(Transfer)
    BY DEF TypeOK
  <1>2. Head(queue) \in Transfer
    BY <1>1, TailFacts
  <1> QED
    BY <1>2 DEF Transfer

-------------------------------------------------------------------------------
(* Type correctness is inductive: the steps of the terminal keep it, ...    *)
LEMMA TerminalTypes == ASSUME Typed, Terminal PROVE Typed'
  <1> USE DEF Typed, TypeOK, PortOpened
  <1>1. CASE Mnudrv1_printf
    <2>1. (str + 1) % Chunks \in Strings
      BY SizeAssumption DEF Strings
    <2>2. {"short", "full"} \subseteq Kinds
      BY DEF Kinds
    <2> QED
      BY <1>1, <2>1, <2>2 DEF Mnudrv1_printf, port, past
  <1>2. CASE TestEnabled
    BY <1>2 DEF TestEnabled, port, past
  <1>3. CASE WaitEnabled
    BY <1>3 DEF WaitEnabled, port, past
  <1>4. CASE WaitEnabledTimeout
    BY <1>4 DEF WaitEnabledTimeout, port, past
  <1>5. CASE SendData
    <2>1. PICK x \in Transfer : queue' = Append(queue, x)
      BY <1>5 DEF SendData, Transfer
    <2>2. queue' \in Seq(Transfer) /\ Len(queue') = Len(queue) + 1 /\ Len(queue) \in Nat
      BY <2>1, AppendFacts
    <2>3. Len(queue') <= MaxTransfers
      BY <1>5, <2>2, SizeAssumption DEF SendData
    <2> QED
      BY <1>5, <2>2, <2>3 DEF SendData, AfterSend, port, past
  <1>6. CASE SendFails
    BY <1>6 DEF SendFails, port
  <1>7. CASE WaitEnd
    BY <1>7 DEF WaitEnd, port, past
  <1>8. CASE Renew
    BY <1>8 DEF Renew, RenewFlag, port, past
  <1>9. CASE WaitEndTimeout
    BY <1>9 DEF WaitEndTimeout, port
  <1> QED
    BY <1>1, <1>2, <1>3, <1>4, <1>5, <1>6, <1>7, <1>8, <1>9 DEF Terminal

(* ... and so do the callbacks of the stack ...                             *)
LEMMA CallbackTypes == ASSUME Typed, USB_DEV PROVE Typed'
  <1> USE DEF Typed, TypeOK, PortOpened
  <1>1. CASE DTE_ACTIVATED
    BY <1>1 DEF DTE_ACTIVATED, Opens, terminal
  <1>2. CASE DTE_DEACTIVATED
    BY <1>2 DEF DTE_DEACTIVATED, terminal, past
  <1>3. CASE DATA_RECEIVED
    BY <1>3 DEF DATA_RECEIVED, Opens, terminal
  <1>4. CASE SEND_COMPLETE
    <2>1. completed' \in Seq(Kinds) /\ Len(completed') <= MaxTransfers
      <3>1. completed # << >> /\ completed' = Tail(completed)
        BY <1>4 DEF SEND_COMPLETE
      <3>2. completed' \in Seq(Kinds) /\ Len(completed') = Len(completed) - 1
             /\ Len(completed) \in Nat
        BY <3>1, TailFacts
      <3> QED
        BY <3>2, SizeAssumption
    <2>2. queue' \in Seq(Transfer) /\ Len(queue') <= MaxTransfers
      <3>1. CASE UNCHANGED queue
        BY <3>1
      <3>2. CASE queue' # queue
        <4>1. PICK x \in Transfer : queue' = Append(queue, x) /\ Len(queue) < MaxTransfers
          BY <1>4, <3>2 DEF SEND_COMPLETE, Transfer, Kinds
        <4>2. queue' \in Seq(Transfer) /\ Len(queue') = Len(queue) + 1 /\ Len(queue) \in Nat
          BY <4>1, AppendFacts
        <4> QED
          BY <4>1, <4>2, SizeAssumption
      <3> QED
        BY <3>1, <3>2
    <2>3. early' \subseteq {"timeout", "opened", "zero"}
      BY <1>4 DEF SEND_COMPLETE
    <2> QED
      BY <1>4, <2>1, <2>2, <2>3 DEF SEND_COMPLETE, port, terminal
  <1>5. CASE BUS_RESET
    BY <1>5, EmptySeq, SizeAssumption DEF BUS_RESET, terminal
  <1>6. CASE CONFIG_CHANGED
    BY <1>6 DEF CONFIG_CHANGED, Configured, terminal, past
  <1> QED
    BY <1>1, <1>2, <1>3, <1>4, <1>5, <1>6 DEF USB_DEV

(* ... and the reading host.                                                *)
LEMMA HostTypes == ASSUME Typed, HostReads PROVE Typed'
  <1> USE DEF Typed, TypeOK, PortOpened
  <1>1. queue # << >> /\ queue' = Tail(queue)
        /\ completed' = Append(completed, Head(queue).kind) /\ Len(completed) < MaxTransfers
    BY DEF HostReads
  <1>2. /\ queue' \in Seq(Transfer) /\ Head(queue) \in Transfer
        /\ Len(queue') = Len(queue) - 1 /\ Len(queue) \in Nat
    BY <1>1, TailFacts
  <1>3. /\ completed' \in Seq(Kinds)
        /\ Len(completed') = Len(completed) + 1 /\ Len(completed) \in Nat
    <2>1. Head(queue).kind \in Kinds
      BY <1>1, KindFact
    <2> QED
      BY <1>1, <2>1, AppendFacts
  <1>4. Len(queue') <= MaxTransfers /\ Len(completed') <= MaxTransfers
    BY <1>1, <1>2, <1>3, SizeAssumption
  <1> QED
    BY <1>1, <1>2, <1>3, <1>4 DEF HostReads, port, terminal, past

(* Transfers and completions stay inside the controller's descriptors, and  *)
(* nothing may be sent before the host has opened the port.                 *)
LEMMA TypedAlways == Spec => []Typed
  <1>1. Init => Typed
    <2> SUFFICES ASSUME Init PROVE Typed
      OBVIOUS
    <2>1. str \in Strings /\ kind \in Kinds
      BY SizeAssumption DEF Init, Strings, Kinds
    <2>2. /\ queue \in Seq(Transfer) /\ Len(queue) <= MaxTransfers
          /\ completed \in Seq(Kinds) /\ Len(completed) <= MaxTransfers
      BY EmptySeq, SizeAssumption DEF Init
    <2> QED
      BY <2>1, <2>2 DEF Init, Typed, TypeOK, PortOpened
  <1>2. Typed /\ [Next]_vars => Typed'
    <2> SUFFICES ASSUME Typed, [Next]_vars PROVE Typed'
      OBVIOUS
    <2>1. CASE UNCHANGED vars
      BY <2>1 DEF Typed, TypeOK, PortOpened, vars, port, terminal, past
    <2> QED
      BY <2>1, TerminalTypes, CallbackTypes, HostTypes DEF Next
  <1> QED
    BY <1>1, <1>2, PTL DEF Spec

(* The types hold, for every number of strings and descriptors.             *)
THEOREM TypeCorrect == Spec => []TypeOK
  <1>1. Typed => TypeOK
    BY DEF Typed
  <1> QED
    BY <1>1, TypedAlways, PTL

-------------------------------------------------------------------------------
(* PermissionNotLost without "configured": a reset does not take the        *)
(* permission away, so that it is still there after it.                     *)
Permitted ==
  tx_enabled /\ ~dropped =>
    \/ flag \/ pc \in {"send", "renew"}
    \/ queue # << >> \/ completed # << >>

(* The permission is only handed on, from the event to the terminal, the    *)
(* transfer, its completion and back (lines 265-293, 341-343 and 393-437 of *)
(* USB_virtual_com1.c), for any number of transfer descriptors.             *)
THEOREM PermissionKept == Spec => []PermissionNotLost
  <1>1. Init => Permitted
    BY DEF Init, Permitted
  <1>2. Typed /\ Permitted /\ [Next]_vars => Permitted'
    <2> SUFFICES ASSUME Typed, Permitted, [Next]_vars PROVE Permitted'
      OBVIOUS
    <2> USE DEF Permitted
    <2>1. CASE Mnudrv1_printf \/ TestEnabled \/ WaitEnabled \/ WaitEnabledTimeout
      BY <2>1 DEF Mnudrv1_printf, TestEnabled, WaitEnabled, WaitEnabledTimeout, port, past
    <2>2. CASE SendData
      <3>1. PICK x \in Transfer : queue' = Append(queue, x)
        BY <2>2 DEF SendData, Transfer, Typed, TypeOK
      <3>2. queue' # << >>
        BY <3>1, AppendFacts DEF Typed, TypeOK
      <3> QED
        BY <2>2, <3>2 DEF SendData
    <2>3. CASE SendFails \/ WaitEnd \/ Renew \/ WaitEndTimeout
      BY <2>3 DEF SendFails, WaitEnd, Renew, RenewFlag, WaitEndTimeout, port, past
    <2>4. CASE DTE_ACTIVATED \/ DTE_DEACTIVATED \/ DATA_RECEIVED
      BY <2>4 DEF DTE_ACTIVATED, DTE_DEACTIVATED, DATA_RECEIVED, Opens
    <2>5. CASE SEND_COMPLETE
      BY <2>5 DEF SEND_COMPLETE
    <2>6. CASE BUS_RESET
      BY <2>6 DEF BUS_RESET, terminal
    <2>7. CASE CONFIG_CHANGED
      BY <2>7 DEF CONFIG_CHANGED, Configured, terminal, past
    <2>8. CASE HostReads
      <3>1. Head(queue).kind \in Kinds
        BY <2>8, KindFact DEF HostReads, Typed
      <3>2. completed' # << >>
        BY <2>8, <3>1, AppendFacts DEF HostReads, Typed, TypeOK
      <3> QED
        BY <3>2
    <2>9. CASE UNCHANGED vars
      BY <2>9 DEF vars, port, terminal, past
    <2> QED
      BY <2>1, <2>2, <2>3, <2>4, <2>5, <2>6, <2>7, <2>8, <2>9 DEF Next, Terminal, USB_DEV
  <1>3. Permitted => PermissionNotLost
    BY DEF Permitted, PermissionNotLost
  <1> QED
    BY <1>1, <1>2, <1>3, TypedAlways, PTL DEF Spec

-------------------------------------------------------------------------------
(* Why the buffer is safe: as long as nothing was early there is one        *)
(* transfer or completion at most, only while the terminal waits for its    *)
(* end, and the event is not set before it is done.                         *)
Idle == queue = << >> /\ completed = << >>

Own ==
  early = {} =>
    /\ pc # "end" => Idle
    /\ pc = "send" => ~flag
    /\ ~Idle => ~flag
    /\ \/ queue = << >> /\ Len(completed) <= 1
       \/ completed = << >> /\ Len(queue) = 1 /\ queue[1].str = str

(* The steps of the terminal keep it: a string is handed over when nothing  *)
(* is on its way.                                                           *)
LEMMA TerminalOwns == ASSUME Typed, Own, Terminal PROVE Own'
  <1> USE DEF Own, Idle
  <1>1. CASE Mnudrv1_printf
    <2>1. /\ UNCHANGED <<flag, queue, completed, early>>
          /\ pc # "end" /\ pc # "send" /\ pc' # "end" /\ pc' # "send"
      BY <1>1 DEF Mnudrv1_printf, past
    <2> QED
      BY <2>1
  <1>2. CASE TestEnabled \/ WaitEnabledTimeout
    BY <1>2 DEF TestEnabled, WaitEnabledTimeout, port, past
  <1>3. CASE WaitEnabled
    BY <1>3 DEF WaitEnabled, port, past
  <1>4. CASE SendData
    <2>1. SUFFICES ASSUME early' = {} PROVE Own'
      OBVIOUS
    <2>2. queue = << >> /\ completed = << >> /\ ~flag
      BY <1>4, <2>1 DEF SendData, past
    <2>3. [str |-> str, kind |-> kind] \in Transfer
      BY DEF Typed, TypeOK, Transfer
    <2>4. Len(queue') = 1 /\ queue'[1] = [str |-> str, kind |-> kind]
      BY <1>4, <2>2, <2>3, AppendFacts, EmptySeq DEF SendData, Typed, TypeOK
    <2>5. queue'[1].str = str'
      BY <1>4, <2>4 DEF SendData
    <2> QED
      BY <1>4, <2>2, <2>4, <2>5 DEF SendData, AfterSend
  <1>5. CASE SendFails
    BY <1>5 DEF SendFails, port
  <1>6. CASE WaitEnd
    BY <1>6 DEF WaitEnd, port, past
  <1>7. CASE Renew
    BY <1>7 DEF Renew, RenewFlag, port, past
  <1>8. CASE WaitEndTimeout
    BY <1>8 DEF WaitEndTimeout
  <1> QED
    BY <1>1, <1>2, <1>3, <1>4, <1>5, <1>6, <1>7, <1>8 DEF Terminal

(* So do the callbacks and the host: a completion leaves nothing behind.    *)
LEMMA OthersOwn == ASSUME Typed, Own, USB_DEV \/ HostReads PROVE Own'
  <1> USE DEF Own, Idle
  <1>1. CASE DTE_ACTIVATED \/ DATA_RECEIVED
    <2>1. UNCHANGED <<pc, str, queue, completed>> /\ Opens
      BY <1>1 DEF DTE_ACTIVATED, DATA_RECEIVED, terminal
    <2>2. early' = {} => queue = << >> /\ completed = << >> /\ pc # "send" /\ early = {}
      BY <2>1 DEF Opens
    <2> QED
      BY <2>1, <2>2
  <1>2. CASE DTE_DEACTIVATED
    BY <1>2 DEF DTE_DEACTIVATED, terminal, past
  <1>3. CASE SEND_COMPLETE
    <2>1. SUFFICES ASSUME early' = {} PROVE Own'
      OBVIOUS
    <2>2. completed # << >> /\ completed' = Tail(completed) /\ UNCHANGED <<pc, queue>>
          /\ early = {}
      BY <1>3, <2>1 DEF SEND_COMPLETE, terminal
    <2>3. queue = << >> /\ pc = "end" /\ Len(completed) = 1
      <3>1. completed \in Seq(Kinds)
        BY DEF Typed, TypeOK
      <3>2. Len(completed) \in Nat /\ Len(completed) > 0
        BY <2>2, <3>1, TailFacts
      <3>3. queue = << >> /\ pc = "end" /\ Len(completed) <= 1
        BY <2>2
      <3> QED
        BY <3>2, <3>3
    <2>4. completed' = << >>
      BY <2>2, <2>3, TailFacts, EmptySeq DEF Typed, TypeOK
    <2> QED
      BY <2>2, <2>3, <2>4, EmptySeq
  <1>4. CASE BUS_RESET
    BY <1>4, EmptySeq DEF BUS_RESET, terminal
  <1>5. CASE CONFIG_CHANGED
    BY <1>5 DEF CONFIG_CHANGED, Configured, terminal, past
  <1>6. CASE HostReads
    <2>1. SUFFICES ASSUME early' = {} PROVE Own'
      OBVIOUS
    <2>2. /\ queue # << >> /\ queue' = Tail(queue) /\ UNCHANGED <<pc, flag>> /\ early = {}
          /\ completed' = Append(completed, Head(queue).kind)
      BY <1>6, <2>1 DEF HostReads, terminal, past
    <2>3. completed = << >> /\ Len(queue) = 1 /\ pc = "end" /\ ~flag
      BY <2>2
    <2>4. Head(queue).kind \in Kinds
      BY <2>2, KindFact DEF Typed
    <2>5. Len(completed') = 1
      BY <2>2, <2>3, <2>4, AppendFacts, EmptySeq DEF Typed, TypeOK
    <2>6. queue' = << >>
      BY <2>2, <2>3, TailFacts, EmptySeq DEF Typed, TypeOK
    <2> QED
      BY <2>2, <2>3, <2>5, <2>6
  <1> QED
    BY <1>1, <1>2, <1>3, <1>4, <1>5, <1>6 DEF USB_DEV

(* Hence it always holds.                                                   *)
LEMMA OwnAlways == Spec => []Own
  <1>1. Init => Own
    BY EmptySeq DEF Init, Own, Idle
  <1>2. Typed /\ Own /\ [Next]_vars => Own'
    <2> SUFFICES ASSUME Typed, Own, [Next]_vars PROVE Own'
      OBVIOUS
    <2>1. CASE UNCHANGED vars
      BY <2>1 DEF Own, Idle, vars, port, terminal, past
    <2> QED
      BY <2>1, TerminalOwns, OthersOwn DEF Next
  <1> QED
    BY <1>1, <1>2, TypedAlways, PTL DEF Spec

(* The one buffer of the driver holds the string that is on its way         *)
(* (comment at lines 385-387 of USB_virtual_com1.c), for any number of      *)
(* strings and descriptors, until a wait times out, an empty packet is sent *)
(* or the port is opened during a transfer.                                 *)
THEOREM BufferKept == Spec => []BufferSafe
  <1>1. Typed /\ Own => BufferSafe
    <2> SUFFICES ASSUME Typed, Own, early = {}, NEW i \in DOMAIN queue
                 PROVE  queue[i].str = str
      BY DEF BufferSafe
    <2>1. DOMAIN queue = 1 .. Len(queue) /\ Len(queue) \in Nat
      BY LenProperties DEF Typed, TypeOK
    <2>2. queue # << >>
      BY <2>1, EmptySeq
    <2>3. Len(queue) = 1 /\ queue[1].str = str
      BY <2>2 DEF Own
    <2>4. i = 1
      BY <2>1, <2>3
    <2> QED
      BY <2>3, <2>4
  <1> QED
    BY <1>1, OwnAlways, TypedAlways, PTL

(* One permission, one transfer: under the same conditions no more than one *)
(* transfer, or completion still to be called back, is outstanding, and     *)
(* none when a string is handed over.  So the stack never refuses a string  *)
(* for want of a transfer descriptor, only because the port is not          *)
(* configured, and no completion can be taken for that of a later string    *)
(* (lines 285-290, 341-347 and 393-437 of USB_virtual_com1.c).              *)
OneOutstanding ==
  early = {} =>
    /\ Len(queue) + Len(completed) <= 1
    /\ pc = "send" => Len(queue) + Len(completed) = 0

(* It follows from the same invariant.                                      *)
THEOREM OneTransferAtATime == Spec => []OneOutstanding
  <1>1. Typed /\ Own => OneOutstanding
    <2> SUFFICES ASSUME Typed, Own, early = {}
                 PROVE  /\ Len(queue) + Len(completed) <= 1
                        /\ pc = "send" => Len(queue) + Len(completed) = 0
      BY DEF OneOutstanding
    <2>1. /\ Len(queue) \in Nat /\ Len(completed) \in Nat
          /\ queue = << >> => Len(queue) = 0
          /\ completed = << >> => Len(completed) = 0
      BY LenProperties, EmptySeq DEF Typed, TypeOK
    <2>2. \/ queue = << >> /\ Len(completed) <= 1
          \/ completed = << >> /\ Len(queue) = 1
      BY DEF Own
    <2>3. pc = "send" => queue = << >> /\ completed = << >>
      BY DEF Own, Idle
    <2> QED
      BY <2>1, <2>2, <2>3
  <1> QED
    BY <1>1, OwnAlways, TypedAlways, PTL
===============================================================================
