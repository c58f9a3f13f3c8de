-------------------------------- MODULE BleLink --------------------------------
(***************************************************************************)
(* How the main controller (MK66) configures and starts the BLE chip       *)
(* (KW40) over SPI: MKW40/MKW40_Channel.c and the slave driver             *)
(* K66BLEZ1_MKW40_Channel.c on one side, KW40_Firmware/App/Main.c and      *)
(* App_comm_channel.c on the other.                                        *)
(*                                                                         *)
(* The KW40 is the SPI master: every 2 ms its SPI task clocks one packet   *)
(* in each direction.  The MK66 can only leave a packet in its DMA (Arm)   *)
(* and wait up to 50 ms for the event the DMA interrupt sets.  What the    *)
(* MK66 receives is not looked at while it sets the chip up, so only the   *)
(* packets to the KW40 are modelled; a packet is one step.                 *)
(***************************************************************************)
EXTENDS Naturals

CONSTANT MaxTimeouts    \* bound: exchanges that the MK66 gives up on

ASSUME TimeoutAssumption == MaxTimeouts \in Nat

Params == {"pin", "name", "rev"}

\* Faulty: the chip is not reset first.
PacketNoReset == <<"empty", "pin", "name", "rev", "DONE", "empty">>

\* The packets of MKW40_setup_params in order, and the one sent ever after.
Packet == <<"RESET", "pin", "name", "rev", "DONE", "empty">>
Run    == 6

VARIABLES
  \* MK66
  stage,      \* index of the packet being sent
  mpc,        \* "arm", "wait", "settle" or "backoff"
  armed,      \* the packet in the DMA of the SPI slave, "none" once it is gone
  rxend,      \* event MKW40_RXEND
  activated,  \* mkw40_activated
  \* KW40
  kpc,        \* "boot": no task yet; "first": the SPI task is about to make its
              \* first exchange; "wait": for the settings; "ble": stack running;
              \* "hung": a flag was set in an event object not yet created
  value,      \* who gave each parameter its value
  done,       \* EVENT_SETTINGS_DONE
  \* history
  clocked,    \* an exchange was made since the MK66 began to settle
  slow,       \* the KW40 once needed longer to boot than the MK66 settles
  timeouts

linkVars == <<armed, rxend>>
mkVars   == <<stage, mpc, activated, slow, timeouts>>
kwVars   == <<kpc, value, done>>
vars     == <<linkVars, mkVars, kwVars, clocked>>

Same(v) == [p \in Params |-> v]

\* The MK66 starts, after power on or after its own watchdog.  The KW40 starts
\* with it or still runs with the parameters of the MK66's previous life.
Init ==
  /\ stage = 1 /\ mpc = "arm" /\ activated = FALSE
  /\ armed = "none" /\ rxend = FALSE
  /\ \/ kpc = "boot" /\ value = Same("unset")
     \/ kpc = "wait" /\ value = Same("default")
     \/ kpc = "ble" /\ value = Same("old")
  /\ done = FALSE
  /\ clocked = FALSE /\ slow = FALSE /\ timeouts = 0

-------------------------------------------------------------------------------
(* MK66                                                                     *)

\* MKW40_SPI_slave_read_write_buf: FIFO cleared, DMA started.  The event is
\* not cleared.
Arm ==
  /\ mpc = "arm"
  /\ armed' = Packet[stage]
  /\ mpc' = "wait"
  /\ UNCHANGED <<rxend, stage, activated, slow, timeouts, kwVars, clocked>>

\* Faulty: the stage is not capped.
ArrivedNoCap ==
  /\ mpc = "wait" /\ rxend
  /\ rxend' = FALSE
  /\ stage' = stage + 1
  /\ mpc' = IF stage = 1 THEN "settle" ELSE "arm"
  /\ activated' = (stage' = Run)
  /\ clocked' = (clocked /\ stage # 1)
  /\ UNCHANGED <<armed, slow, timeouts, kwVars>>

\* Faulty: no pause after the reset.
ArrivedNoPause ==
  /\ mpc = "wait" /\ rxend
  /\ rxend' = FALSE
  /\ stage' = IF stage = Run THEN Run ELSE stage + 1
  /\ mpc' = "arm"
  /\ activated' = (stage' = Run)
  /\ UNCHANGED <<armed, slow, timeouts, kwVars, clocked>>

\* The wait ends with the event, which the lwevent clears by itself.
Arrived ==
  /\ mpc = "wait" /\ rxend
  /\ rxend' = FALSE
  /\ stage' = IF stage = Run THEN Run ELSE stage + 1
  /\ mpc' = IF stage = 1 THEN "settle" ELSE "arm"
  /\ activated' = (stage' = Run)
  /\ clocked' = (clocked /\ stage # 1)
  /\ UNCHANGED <<armed, slow, timeouts, kwVars>>

\* The wait ends after 10 ticks of 5 ms.  An SPI task that runs makes an exchange
\* every 2 ms, so only a KW40 that does not run it lets the MK66 time out.  The
\* DMA stays armed.
Silent == kpc \in {"boot", "hung"}

\* Faulty: the result of the wait is ignored.
TimeoutIgnored ==
  /\ mpc = "wait" /\ ~rxend /\ Silent
  /\ timeouts < MaxTimeouts
  /\ timeouts' = timeouts + 1
  /\ stage' = IF stage = Run THEN Run ELSE stage + 1
  /\ mpc' = "arm"
  /\ UNCHANGED <<linkVars, activated, slow, kwVars, clocked>>

Timeout ==
  /\ mpc = "wait" /\ ~rxend /\ Silent
  /\ timeouts < MaxTimeouts
  /\ timeouts' = timeouts + 1
  /\ mpc' = IF stage = Run THEN "arm" ELSE "backoff"
  /\ UNCHANGED <<linkVars, stage, activated, slow, kwVars, clocked>>

\* OS_Time_delay(100) after the reset: a running SPI task uses it.
Settle ==
  /\ mpc = "settle"
  /\ Silent \/ clocked
  /\ mpc' = "arm"
  /\ slow' = (slow \/ kpc \in {"boot", "first"})
  /\ UNCHANGED <<linkVars, stage, activated, timeouts, kwVars, clocked>>

\* OS_Time_delay(10), then everything again from the reset.
Retry ==
  /\ mpc = "backoff"
  /\ mpc' = "arm"
  /\ stage' = 1
  /\ UNCHANGED <<linkVars, activated, slow, timeouts, kwVars, clocked>>

-------------------------------------------------------------------------------
(* KW40                                                                     *)

\* Main_task up to Init_master_channel_task.
Boot ==
  /\ kpc = "boot"
  /\ kpc' = "first"
  /\ UNCHANGED <<linkVars, mkVars, value, done, clocked>>

\* BSP_SPI_DMA_read_write: the armed packet goes over, or nothing of meaning.
Clock ==
  /\ armed' = "none"
  /\ rxend' = (rxend \/ armed # "none")
  /\ clocked' = TRUE

\* App_reset: the chip starts again.
Reset ==
  /\ kpc' = "boot" /\ value' = Same("unset") /\ done' = FALSE

\* The SPI task has the higher priority and waits busily, so its first exchange
\* comes before Main_task creates the event and sets the default parameters.
FirstExchange ==
  /\ kpc = "first"
  /\ Clock
  /\ \/ armed = "RESET" /\ Reset
     \/ armed # "RESET" /\ kpc' = "wait" /\ value' = Same("default") /\ done' = FALSE
     \/ armed = "DONE" /\ kpc' = "hung" /\ UNCHANGED <<value, done>>
  /\ UNCHANGED mkVars

\* Faulty: no exchanges once the stack runs.
ExchangeStops ==
  /\ kpc = "wait"
  /\ Clock
  /\ \/ armed = "RESET" /\ Reset
     \/ armed \in Params /\ value' = [value EXCEPT ![armed] = "mk66"]
                         /\ UNCHANGED <<kpc, done>>
     \/ armed = "DONE" /\ done' = TRUE /\ UNCHANGED <<kpc, value>>
     \/ armed \in {"empty", "none"} /\ UNCHANGED kwVars
  /\ UNCHANGED mkVars

\* Parse_received_data, App_accept_parameter
Exchange ==
  /\ kpc \in {"wait", "ble"}
  /\ Clock
  /\ \/ armed = "RESET" /\ Reset
     \/ armed \in Params /\ value' = [value EXCEPT ![armed] = "mk66"]
                         /\ UNCHANGED <<kpc, done>>
     \/ armed = "DONE" /\ done' = TRUE /\ UNCHANGED <<kpc, value>>
     \/ armed \in {"empty", "none"} /\ UNCHANGED kwVars
  /\ UNCHANGED mkVars

\* Faulty: the stack starts without waiting for the settings.
StartBleEagerly ==
  /\ kpc = "wait"
  /\ kpc' = "ble"
  /\ done' = FALSE
  /\ UNCHANGED <<linkVars, mkVars, value, clocked>>

\* Main_task gets the event, builds the names and starts the BLE stack.
StartBle ==
  /\ kpc = "wait" /\ done
  /\ kpc' = "ble"
  /\ done' = FALSE
  /\ UNCHANGED <<linkVars, mkVars, value, clocked>>

-------------------------------------------------------------------------------
MkNext == Arm \/ Arrived \/ Settle \/ Retry
KwNext == Boot \/ FirstExchange \/ Exchange \/ StartBle
Next   == MkNext \/ Timeout \/ KwNext

Spec == Init /\ [][Next]_vars

(* Both chips keep running: delays end, the KW40 boots, its SPI task is      *)
(* periodic, and each task gets the processor.                               *)
FairSpec ==
  /\ Spec
  /\ WF_vars(MkNext)
  /\ WF_vars(Boot) /\ WF_vars(FirstExchange) /\ WF_vars(Exchange)
  /\ WF_vars(StartBle)

-------------------------------------------------------------------------------
TypeOK ==
  /\ stage \in 1 .. Run
  /\ mpc \in {"arm", "wait", "settle", "backoff"}
  /\ armed \in {Packet[i] : i \in 1 .. Run} \cup {"none"}
  /\ rxend \in BOOLEAN /\ activated \in BOOLEAN
  /\ kpc \in {"boot", "first", "wait", "ble", "hung"}
  /\ value \in [Params -> {"unset", "default", "old", "mk66"}]
  /\ done \in BOOLEAN /\ clocked \in BOOLEAN /\ slow \in BOOLEAN
  /\ timeouts \in 0 .. MaxTimeouts

(* Once the MK66 reports the BLE device as activated, the KW40 holds the     *)
(* parameters of the MK66: the comment on the loop of Task_MKW40 says it is  *)
(* repeated until the parameters could be initialised.                       *)
ActivatedIsConfigured == activated => value = Same("mk66")

(* The same, when every exchange came in time and no boot took longer than   *)
(* the pause after the reset: the sequence of MKW40_setup_params is right,   *)
(* whatever the KW40 was doing when the MK66 started.                        *)
TimelySetupConfigures ==
  activated /\ timeouts = 0 /\ ~slow => value = Same("mk66")

(* A running stack's parameters never change under it (the pin is read when  *)
(* a peer pairs): only a reset of the chip gives it new ones.                *)
RunningStackUntouched ==
  [][kpc = "ble" /\ kpc' = "ble" => value' = value]_vars

(* The stack starts only when the MK66 has gone through all its settings.    *)
StartsWhenTold ==
  [][kpc = "wait" /\ kpc' = "ble" => stage >= 5]_vars

(* The event is never set before it was created.                             *)
NeverHung == kpc # "hung"

(* The setup loop ends.                                                      *)
SetupEnds == <>[]activated

(* What the MK66 reports as activated does come up.                          *)
ActivatedComesUp == activated ~> kpc = "ble"
===============================================================================
