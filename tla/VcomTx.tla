--------------------------------- MODULE VcomTx --------------------------------
(***************************************************************************)
(* Transmission on a virtual COM port: the terminal task formats each      *)
(* string into the one buffer of its driver (Mnudrv1_printf in             *)
(* App/VT100/Monitor_usb_drv.c), hands it to the USB stack and waits until *)
(* it is sent (VCom1_USB_send_data, VCom1_USB_wait_sending_end in          *)
(* App/USB_2VCOM/USB_virtual_com1.c).  The callbacks of the stack run in   *)
(* USB_DEV, which has the higher priority: each is one step between any    *)
(* two steps of the terminal.                                              *)
(*                                                                         *)
(* VCOM_FLAG_TRANSMIT_EN, an event that a wait clears, is the permission   *)
(* to send: it is taken before a transfer and given back by its            *)
(* completion.  The buffer is not copied: what the host receives is what   *)
(* the buffer holds when the transfer takes place.                         *)
(***************************************************************************)
EXTENDS Naturals, Sequences

CONSTANTS
  Chunks,               \* bound: strings are numbered modulo Chunks
  MaxTransfers          \* bound: transfer descriptors of the controller

ASSUME SizeAssumption == Chunks \in Nat \ {0} /\ MaxTransfers \in Nat \ {0}

Strings == 0 .. Chunks - 1
Kinds   == {"short", "full", "zero"}

VARIABLES
  configured, tx_enabled,
  flag,                 \* VCOM_FLAG_TRANSMIT_EN
  str, kind,            \* the string in the buffer; "full": whole packets
  queue,                \* transfers in the controller: their string and kind
  completed,            \* kinds of the completions not yet called back
  pc,                   \* the terminal
  opened,               \* history: the host has opened the port
  early,                \* history: why the buffer may be free too early
  dropped               \* history: a permission was lost and not renewed

port     == <<configured, tx_enabled>>
terminal == <<str, kind, pc>>
past     == <<opened, early, dropped>>
vars     == <<port, flag, terminal, queue, completed, past>>

Transfer == [str : Strings, kind : Kinds]

Init ==
  /\ configured = FALSE /\ tx_enabled = FALSE /\ flag = FALSE
  /\ str = 0 /\ kind = "short"
  /\ queue = << >> /\ completed = << >>
  /\ pc = "idle" /\ opened = FALSE /\ early = {} /\ dropped = FALSE

-------------------------------------------------------------------------------
(* The terminal task                                                        *)

\* Mnudrv1_printf formats into the buffer.
Mnudrv1_printf ==
  /\ pc = "idle" /\ pc' = "enabled"
  /\ str' = (str + 1) % Chunks
  /\ kind' \in {"short", "full"}
  /\ UNCHANGED <<port, flag, queue, completed, past>>

\* Faulty: the test is inverted.
IsEnabledNot == ~tx_enabled

IsEnabled == tx_enabled

TestEnabled ==
  /\ pc = "enabled"
  /\ pc' = IF IsEnabled THEN "wait" ELSE "idle"
  /\ UNCHANGED <<port, flag, str, kind, queue, completed, past>>

\* The permission is taken.
WaitEnabled ==
  /\ pc = "wait" /\ flag
  /\ flag' = FALSE /\ pc' = "send"
  /\ UNCHANGED <<port, str, kind, queue, completed, past>>

WaitEnabledTimeout ==
  /\ pc = "wait" /\ ~flag /\ pc' = "idle"
  /\ UNCHANGED <<port, flag, str, kind, queue, completed, past>>

\* Faulty: the end of the transfer is not waited for.
AfterSendEarly == "idle"

AfterSend == "end"

SendData ==
  /\ pc = "send" /\ configured /\ Len(queue) < MaxTransfers
  /\ queue' = Append(queue, [str |-> str, kind |-> kind])
  /\ pc' = AfterSend
  /\ UNCHANGED <<port, flag, str, kind, completed, past>>

\* The stack refuses: the permission is not given back.
SendFails ==
  /\ pc = "send" /\ (~configured \/ Len(queue) = MaxTransfers)
  /\ pc' = "idle" /\ dropped' = TRUE
  /\ UNCHANGED <<port, flag, str, kind, queue, completed, opened, early>>

\* VCom1_USB_wait_sending_end: the wait clears the event ...
WaitEnd ==
  /\ pc = "end" /\ flag
  /\ flag' = FALSE /\ pc' = "renew"
  /\ UNCHANGED <<port, str, kind, queue, completed, past>>

\* Faulty: the event is not set again.
RenewNot == UNCHANGED flag

RenewFlag == flag' = TRUE

\* ... and sets it again for the next string.
Renew ==
  /\ pc = "renew"
  /\ RenewFlag /\ pc' = "idle"
  /\ UNCHANGED <<port, str, kind, queue, completed, past>>

\* Its result is ignored.
WaitEndTimeout ==
  /\ pc = "end" /\ ~flag /\ pc' = "idle"
  /\ early' = early \cup {"timeout"}
  /\ UNCHANGED <<port, flag, str, kind, queue, completed, opened, dropped>>

Terminal ==
  \/ Mnudrv1_printf \/ TestEnabled \/ WaitEnabled \/ WaitEnabledTimeout
  \/ SendData \/ SendFails \/ WaitEnd \/ Renew \/ WaitEndTimeout

-------------------------------------------------------------------------------
(* Callbacks, in the task USB_DEV                                           *)

\* Permission is given, whatever is still on its way.
Opens ==
  /\ tx_enabled' = TRUE /\ flag' = TRUE
  /\ opened' = TRUE /\ dropped' = FALSE
  /\ early' = IF queue # << >> \/ completed # << >> \/ pc = "send"
                THEN early \cup {"opened"} ELSE early

DTE_ACTIVATED ==
  /\ configured
  /\ Opens
  /\ UNCHANGED <<configured, terminal, queue, completed>>

DTE_DEACTIVATED ==
  /\ configured
  /\ tx_enabled' = FALSE /\ flag' = FALSE
  /\ UNCHANGED <<configured, terminal, queue, completed, past>>

\* A reception enables the port too, when it is not.
DATA_RECEIVED ==
  /\ configured /\ ~tx_enabled
  /\ Opens
  /\ UNCHANGED <<configured, terminal, queue, completed>>

\* Whole packets are followed by an empty one, whose completion is announced
\* like that of a string.
SEND_COMPLETE ==
  /\ completed # << >> /\ completed' = Tail(completed)
  /\ flag' = TRUE
  /\ IF Head(completed) = "full" /\ Len(queue) < MaxTransfers
       THEN /\ queue' = Append(queue, [str |-> str, kind |-> "zero"])
            /\ early' = early \cup {"zero"}
       ELSE UNCHANGED <<queue, early>>
  /\ UNCHANGED <<port, terminal, opened, dropped>>

\* The transfers are dropped, without a completion.
BUS_RESET ==
  /\ configured /\ completed = << >>
  /\ configured' = FALSE
  /\ queue' = << >> /\ dropped' = (dropped \/ queue # << >>)
  /\ UNCHANGED <<tx_enabled, flag, terminal, completed, opened, early>>

\* Faulty: the permission is there from the start.
ConfiguredReady == configured' = TRUE /\ flag' = TRUE

Configured == configured' = TRUE /\ UNCHANGED flag

CONFIG_CHANGED ==
  /\ ~configured
  /\ Configured
  /\ UNCHANGED <<tx_enabled, terminal, queue, completed, past>>

USB_DEV ==
  \/ DTE_ACTIVATED \/ DTE_DEACTIVATED \/ DATA_RECEIVED
  \/ SEND_COMPLETE \/ BUS_RESET \/ CONFIG_CHANGED

\* The host takes the first transfer (external).
HostReads ==
  /\ configured /\ queue # << >> /\ Len(completed) < MaxTransfers
  /\ queue' = Tail(queue) /\ completed' = Append(completed, Head(queue).kind)
  /\ UNCHANGED <<port, flag, terminal, past>>

Next == Terminal \/ USB_DEV \/ HostReads

Spec == Init /\ [][Next]_vars

\* Every wait of the terminal has a time-out; the host goes on reading.
FairSpec == Spec /\ WF_vars(Terminal) /\ WF_vars(SEND_COMPLETE) /\ WF_vars(HostReads)

-------------------------------------------------------------------------------
\* Types; and there is no permission, and no transfer, before the host has
\* opened the port for the first time (lines 265-272 and 288-293).
TypeOK ==
  /\ configured \in BOOLEAN /\ tx_enabled \in BOOLEAN /\ flag \in BOOLEAN
  /\ str \in Strings /\ kind \in Kinds
  /\ queue \in Seq(Transfer) /\ completed \in Seq(Kinds)
  /\ Len(queue) <= MaxTransfers /\ Len(completed) <= MaxTransfers
  /\ pc \in {"idle", "enabled", "wait", "send", "end", "renew"}
  /\ opened \in BOOLEAN /\ dropped \in BOOLEAN
  /\ early \subseteq {"timeout", "opened", "zero"}
  /\ flag \/ queue # << >> => opened

\* The buffer holds the string of every transfer that is not yet done, as the
\* comment at lines 385-387 wants it, unless the wait for the end has timed out
\* (its result is ignored), an empty packet was sent (its completion comes while
\* the next string is on its way) or the port was opened during a transfer.
BufferSafe ==
  early = {} => \A i \in DOMAIN queue : queue[i].str = str

\* The permission to send is never lost: while the port is open it is set, or
\* the terminal is about to use or renew it, or a transfer or its completion
\* will bring it back; only a transfer that was refused or dropped by a reset
\* loses it, until the port is opened again (lines 265-293, 341-343, 393-437).
PermissionNotLost ==
  configured /\ tx_enabled /\ ~dropped =>
    \/ flag \/ pc \in {"send", "renew"}
    \/ queue # << >> \/ completed # << >>

\* A port that stays open, and whose host goes on reading, goes on accepting
\* strings, whatever completions, time-outs and empty packets cross.
OutputGoesOn ==
  <>[](configured /\ tx_enabled /\ ~dropped) => []<>(pc = "end")
===============================================================================
