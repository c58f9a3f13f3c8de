----------------------------- MODULE BleLink_proofs ----------------------------
(***************************************************************************)
(* Theorems about the set-up of the KW40 by the MK66, for any number of    *)
(* exchanges that time out: its type correctness, what a set-up in time    *)
(* achieves, what the running stack is safe from, and that no step of the  *)
(* set-up goes back or waits for nobody.                                   *)
(***************************************************************************)
EXTENDS BleLink, TLAPS

(* What the six packets are.                                                *)
LEMMA PacketFacts ==
  /\ Run = 6
  /\ Packet[1] = "RESET" /\ Packet[2] = "pin" /\ Packet[3] = "name"
  /\ Packet[4] = "rev" /\ Packet[5] = "DONE" /\ Packet[6] = "empty"
  /\ {Packet[i] : i \in 1 .. Run} = {"RESET", "pin", "name", "rev", "DONE", "empty"}
  <1>1. Run = 6 BY DEF Run
  <1>2. /\ Packet[1] = "RESET" /\ Packet[2] = "pin" /\ Packet[3] = "name"
        /\ Packet[4] = "rev" /\ Packet[5] = "DONE" /\ Packet[6] = "empty"
    BY DEF Packet
  <1>3. 1 .. Run = {1, 2, 3, 4, 5, 6}
    BY <1>1
  <1> QED
    BY <1>1, <1>2, <1>3

(* A parameter received is one of the three.                                *)
LEMMA ValueTypes ==
  ASSUME TypeOK, armed \in Params
  PROVE  [value EXCEPT ![armed] = "mk66"] \in [Params -> {"unset", "default", "old", "mk66"}]
  BY DEF TypeOK

-------------------------------------------------------------------------------
(* Type correctness is inductive: the steps of the MK66 ...                 *)
LEMMA MkTypes == ASSUME TypeOK, MkNext \/ Timeout PROVE TypeOK'
  <1> USE PacketFacts, TimeoutAssumption DEF TypeOK
  <1>1. CASE Arm
    <2>1. Packet[stage] \in {Packet[i] : i \in 1 .. Run}
      OBVIOUS
    <2> QED
      BY <1>1, <2>1 DEF Arm, kwVars
  <1>2. CASE Arrived
    <2>1. stage \in {1, 2, 3, 4, 5, 6}
      OBVIOUS
    <2>2. stage' \in 1 .. 6
      BY <1>2, <2>1 DEF Arrived
    <2>3. activated' \in BOOLEAN
      BY <1>2 DEF Arrived
    <2>4. clocked' \in BOOLEAN
      BY <1>2 DEF Arrived
    <2>5. mpc' \in {"arm", "wait", "settle", "backoff"} /\ rxend' \in BOOLEAN
      BY <1>2 DEF Arrived
    <2>6. UNCHANGED <<armed, slow, timeouts, kpc, value, done>>
      BY <1>2 DEF Arrived, kwVars
    <2> QED
      BY <2>2, <2>3, <2>4, <2>5, <2>6
  <1>3. CASE Settle
    BY <1>3 DEF Settle, linkVars, kwVars
  <1>4. CASE Retry
    BY <1>4 DEF Retry, linkVars, kwVars
  <1>5. CASE Timeout
    BY <1>5 DEF Timeout, linkVars, kwVars
  <1> QED
    BY <1>1, <1>2, <1>3, <1>4, <1>5 DEF MkNext

(* ... and those of the KW40.                                               *)
LEMMA KwTypes == ASSUME TypeOK, KwNext PROVE TypeOK'
  <1>1. CASE Boot
    BY <1>1 DEF TypeOK, Boot, linkVars, mkVars
  <1>2. CASE StartBle
    BY <1>2 DEF TypeOK, StartBle, linkVars, mkVars
  <1>3. CASE FirstExchange
    <2>1. Same("default") \in [Params -> {"unset", "default", "old", "mk66"}]
          /\ Same("unset") \in [Params -> {"unset", "default", "old", "mk66"}]
      BY DEF Same
    <2> QED
      BY <1>3, <2>1 DEF TypeOK, FirstExchange, Clock, Reset, mkVars
  <1>4. CASE Exchange
    <2>1. Same("unset") \in [Params -> {"unset", "default", "old", "mk66"}]
      BY DEF Same
    <2>2. CASE armed = "RESET" /\ Reset
      BY <1>4, <2>1, <2>2 DEF TypeOK, Exchange, Clock, Reset, mkVars
    <2>3. CASE armed \in Params /\ value' = [value EXCEPT ![armed] = "mk66"] /\ UNCHANGED <<kpc, done>>
      BY <1>4, <2>3, ValueTypes DEF TypeOK, Exchange, Clock, mkVars
    <2>4. CASE UNCHANGED <<kpc, value>> /\ done' \in BOOLEAN
      BY <1>4, <2>4 DEF TypeOK, Exchange, Clock, mkVars
    <2> QED
      BY <1>4, <2>2, <2>3, <2>4 DEF TypeOK, Exchange, kwVars
  <1> QED
    BY <1>1, <1>2, <1>3, <1>4 DEF KwNext

(* Every variable keeps its type (both programs, TypeOK).                   *)
THEOREM TypeCorrect == Spec => []TypeOK
  <1>1. Init => TypeOK
    <2> SUFFICES ASSUME Init PROVE TypeOK
      OBVIOUS
    <2>1. value \in [Params -> {"unset", "default", "old", "mk66"}]
      BY DEF Init, Same
    <2>2. /\ stage \in 1 .. Run /\ mpc = "arm" /\ armed = "none"
          /\ kpc \in {"boot", "wait", "ble"} /\ timeouts \in 0 .. MaxTimeouts
      BY PacketFacts, TimeoutAssumption DEF Init
    <2>3. /\ rxend \in BOOLEAN /\ activated \in BOOLEAN /\ done \in BOOLEAN
          /\ clocked \in BOOLEAN /\ slow \in BOOLEAN
      BY DEF Init
    <2> QED
      BY <2>1, <2>2, <2>3 DEF TypeOK
  <1>2. TypeOK /\ [Next]_vars => TypeOK'
    <2> SUFFICES ASSUME TypeOK, [Next]_vars PROVE TypeOK'
      OBVIOUS
    <2>1. CASE UNCHANGED vars
      BY <2>1 DEF TypeOK, vars, linkVars, mkVars, kwVars
    <2> QED
      BY <2>1, MkTypes, KwTypes DEF Next
  <1> QED
    BY <1>1, <1>2, PTL DEF Spec

-------------------------------------------------------------------------------
(* A chip that has just begun to boot leaves at most one event behind, so   *)
(* the MK66 cannot have gone further than the name before the first         *)
(* exchange; a reset is only armed in the first stage, or left armed after  *)
(* it; so nothing times out later, and the stages never go back.            *)
EarlyBoot ==
  /\ kpc # "hung"
  /\ kpc \in {"boot", "first"} =>
       /\ stage <= 3 /\ (rxend => stage <= 2)
       /\ armed \in {"none", "RESET", "pin", "name"}

EarlyReset ==
  armed = "RESET" => \/ stage = 1
                     \/ stage = 2 /\ mpc \in {"settle", "arm"} /\ ~rxend

NoReturn ==
  /\ mpc = "settle" => stage = 2 /\ (armed = "RESET" => ~clocked)
  /\ mpc = "backoff" => stage <= 3
  /\ armed = "rev" => stage >= 4
  /\ armed = "DONE" => stage >= 5
  /\ armed = "empty" => stage >= 6
  /\ done => stage >= 5 /\ armed \notin Params
  /\ activated => stage = Run

(* A running stack either still waits for the reset of the first stage, or  *)
(* has been told to start.                                                  *)
Running ==
  kpc = "ble" =>
    /\ armed \notin Params
    /\ \/ stage = 1 /\ ~rxend /\ mpc \in {"arm", "wait"} /\ armed \in {"none", "RESET"}
       \/ stage >= 5

Link == EarlyBoot /\ EarlyReset /\ NoReturn /\ Running

(* The MK66's steps keep it.                                                *)
LEMMA MkLinks == ASSUME TypeOK, Link, MkNext \/ Timeout PROVE Link'
  <1> USE PacketFacts DEF TypeOK, Link, EarlyBoot, EarlyReset, NoReturn, Running, Params
  <1>1. CASE Arm
    <2>1. stage \in {1, 2, 3, 4, 5, 6}
      OBVIOUS
    <2> QED
      BY <1>1, <2>1 DEF Arm, kwVars
  <1>2. CASE Arrived
    BY <1>2 DEF Arrived, kwVars
  <1>3. CASE Settle
    BY <1>3 DEF Settle, linkVars, kwVars, Silent
  <1>4. CASE Retry
    BY <1>4 DEF Retry, linkVars, kwVars
  <1>5. CASE Timeout
    BY <1>5 DEF Timeout, linkVars, kwVars, Silent
  <1> QED
    BY <1>1, <1>2, <1>3, <1>4, <1>5 DEF MkNext

(* The KW40's steps keep it.                                                *)
LEMMA KwLinks == ASSUME TypeOK, Link, KwNext PROVE Link'
  <1> USE PacketFacts DEF TypeOK, Link, EarlyBoot, EarlyReset, NoReturn, Running, Params
  <1>1. CASE Boot
    BY <1>1 DEF Boot, linkVars, mkVars
  <1>2. CASE StartBle
    BY <1>2 DEF StartBle, linkVars, mkVars
  <1>3. CASE FirstExchange
    BY <1>3 DEF FirstExchange, Clock, Reset, mkVars
  <1>4. CASE Exchange
    BY <1>4 DEF Exchange, Clock, Reset, mkVars, kwVars
  <1> QED
    BY <1>1, <1>2, <1>3, <1>4 DEF KwNext

(* The invariant of the link.                                               *)
LEMMA LinkAlways == Spec => [](TypeOK /\ Link)
  <1>1. Init => Link
    BY PacketFacts DEF Init, Link, EarlyBoot, EarlyReset, NoReturn, Running, Params
  <1>2. TypeOK /\ Link /\ [Next]_vars => Link'
    <2> SUFFICES ASSUME TypeOK, Link, [Next]_vars PROVE Link'
      OBVIOUS
    <2>1. CASE UNCHANGED vars
      BY <2>1 DEF Link, EarlyBoot, EarlyReset, NoReturn, Running, vars, linkVars, mkVars, kwVars
    <2> QED
      BY <2>1, MkLinks, KwLinks DEF Next
  <1> QED
    BY <1>1, <1>2, TypeCorrect, PTL DEF Spec

(* No flag is set in an event object that does not exist yet: SETT_DONE is  *)
(* never in the first exchange (App_comm_channel.c:97).                     *)
THEOREM NeverHangs == Spec => []NeverHung
  <1>1. Link => NeverHung
    BY DEF Link, EarlyBoot, NeverHung
  <1> QED
    BY <1>1, LinkAlways, PTL

(* The parameters of a running stack are not changed (Main.c:93-117).       *)
THEOREM RunningUntouched == Spec => RunningStackUntouched
  <1>1. TypeOK /\ Link /\ [Next]_vars => [kpc = "ble" /\ kpc' = "ble" => value' = value]_vars
    <2> SUFFICES ASSUME TypeOK, Link, Next, kpc = "ble", kpc' = "ble" PROVE value' = value
      OBVIOUS
    <2>1. armed \notin Params
      BY DEF Link, Running
    <2>2. CASE MkNext \/ Timeout
      BY <2>2 DEF MkNext, Timeout, Arm, Arrived, Settle, Retry, kwVars
    <2>3. CASE KwNext
      BY <2>1, <2>3 DEF KwNext, Boot, FirstExchange, Exchange, StartBle, Reset, kwVars
    <2> QED
      BY <2>2, <2>3 DEF Next
  <1> QED
    BY <1>1, LinkAlways, PTL DEF Spec, RunningStackUntouched

(* The stack starts only when the settings are through (Main.c:207).        *)
THEOREM StartsOnlyWhenTold == Spec => StartsWhenTold
  <1>1. TypeOK /\ Link /\ [Next]_vars => [kpc = "wait" /\ kpc' = "ble" => stage >= 5]_vars
    <2> SUFFICES ASSUME TypeOK, Link, Next, kpc = "wait", kpc' = "ble" PROVE stage >= 5
      OBVIOUS
    <2>1. StartBle
      BY DEF Next, MkNext, Timeout, Arm, Arrived, Settle, Retry, kwVars,
             KwNext, Boot, FirstExchange, Exchange, Reset
    <2> QED
      BY <2>1 DEF StartBle, Link, NoReturn
  <1> QED
    BY <1>1, LinkAlways, PTL DEF Spec, StartsWhenTold

-------------------------------------------------------------------------------
(* While all exchanges are timely each packet is gone before the next one   *)
(* is armed, and its event is for it; the KW40 waits from the end of the    *)
(* pause on, and has got the parameters of the stages passed.               *)
Given(j) == value[Packet[j]] = "mk66"

InStep ==
  /\ mpc # "backoff"
  /\ mpc \in {"arm", "settle"} => armed = "none" /\ ~rxend
  /\ mpc = "wait" => \/ armed = Packet[stage] /\ ~rxend
                     \/ armed = "none" /\ rxend
  /\ stage > 2 \/ (stage = 2 /\ mpc # "settle") => kpc \in {"wait", "ble"}
  /\ \A j \in 2 .. 4 : j < stage \/ (j = stage /\ mpc = "wait" /\ rxend) => Given(j)

Timely == timeouts = 0 /\ ~slow => InStep

(* The MK66's steps keep it.                                                *)
LEMMA MkTimely == ASSUME TypeOK, Link, Timely, MkNext \/ Timeout PROVE Timely'
  <1> SUFFICES ASSUME timeouts' = 0, ~slow' PROVE InStep'
    BY DEF Timely
  <1>1. timeouts = 0 /\ ~slow /\ ~Timeout
    BY DEF MkNext, Arm, Arrived, Settle, Retry, Timeout, TypeOK
  <1>2. InStep
    BY <1>1 DEF Timely
  <1>3. value' = value /\ kpc' = kpc
    BY <1>1 DEF MkNext, Arm, Arrived, Settle, Retry, kwVars
  <1> USE PacketFacts, <1>1, <1>2, <1>3 DEF TypeOK, InStep, Given
  <1>4. CASE Arm
    BY <1>4 DEF Arm
  <1>5. CASE Arrived
    BY <1>5 DEF Arrived, Link, NoReturn, EarlyReset
  <1>6. CASE Settle
    BY <1>6 DEF Settle, linkVars, Link, NoReturn, Running, EarlyBoot
  <1>7. CASE Retry
    BY <1>7 DEF Retry
  <1> QED
    BY <1>4, <1>5, <1>6, <1>7 DEF MkNext

(* The KW40's steps keep it.                                                *)
LEMMA KwTimely == ASSUME TypeOK, Link, Timely, KwNext PROVE Timely'
  <1> SUFFICES ASSUME timeouts' = 0, ~slow' PROVE InStep'
    BY DEF Timely
  <1>1. timeouts = 0 /\ ~slow /\ stage' = stage /\ mpc' = mpc
    BY DEF KwNext, Boot, FirstExchange, Exchange, StartBle, mkVars
  <1>2. InStep
    BY <1>1 DEF Timely
  <1> USE PacketFacts, <1>1, <1>2 DEF TypeOK, InStep, Given
  <1>3. CASE Boot
    BY <1>3 DEF Boot, linkVars
  <1>4. CASE StartBle
    BY <1>4 DEF StartBle, linkVars
  <1>5. CASE FirstExchange
    <2>1. stage = 1 \/ (stage = 2 /\ mpc = "settle")
      BY <1>5 DEF FirstExchange
    <2>2. \A j \in 2 .. 4 : ~(j < stage) /\ ~(j = stage /\ mpc = "wait")
      BY <2>1
    <2>3. armed' = "none" /\ (armed # "none" => rxend') /\ (armed = "none" => rxend' = rxend)
      BY <1>5 DEF FirstExchange, Clock
    <2>4. ~(stage > 2 \/ (stage = 2 /\ mpc # "settle"))
      BY <2>1
    <2>5. mpc = "wait" => rxend'
      BY <2>3
    <2>6. mpc \in {"arm", "settle"} => ~rxend'
      BY <2>3
    <2> QED
      BY <2>2, <2>3, <2>4, <2>5, <2>6
  <1>6. CASE Exchange
    <2>1. armed' = "none" /\ (armed # "none" => rxend') /\ (armed = "none" => rxend' = rxend)
      BY <1>6 DEF Exchange, Clock
    <2>2. mpc = "wait" => rxend'
      BY <2>1
    <2>3. mpc \in {"arm", "settle"} => ~rxend'
      BY <2>1
    <2>4. armed = "none" \/ (mpc = "wait" /\ armed = Packet[stage])
      OBVIOUS
    <2>5. stage \in {1, 2, 3, 4, 5, 6}
      OBVIOUS
    <2>6. armed = "RESET" => stage = 1
      BY <2>4, <2>5
    <2>7. stage > 2 \/ (stage = 2 /\ mpc # "settle") => kpc' \in {"wait", "ble"}
      BY <1>6, <2>6 DEF Exchange, kwVars
    <2>8. ASSUME NEW j \in 2 .. 4, j < stage \/ (j = stage /\ mpc = "wait")
          PROVE  value'[Packet[j]] = "mk66"
      <3>1. armed # "RESET"
        BY <2>6, <2>8
      <3>2. j \in {2, 3, 4} /\ Packet[j] \in Params
        BY DEF Params
      <3>3. CASE armed = Packet[j]
        BY <1>6, <3>2, <3>3 DEF Exchange, Params
      <3>4. CASE armed # Packet[j]
        <4>1. value[Packet[j]] = "mk66"
          BY <2>4, <2>8, <3>4
        <4>2. CASE armed \in Params
          BY <1>6, <3>2, <3>4, <4>1, <4>2 DEF Exchange, Params
        <4>3. CASE armed \notin Params
          BY <1>6, <3>1, <4>1, <4>3 DEF Exchange, kwVars
        <4> QED
          BY <4>2, <4>3
      <3> QED
        BY <3>3, <3>4
    <2> QED
      BY <2>1, <2>2, <2>3, <2>7, <2>8
  <1> QED
    BY <1>3, <1>4, <1>5, <1>6 DEF KwNext

(* Hence a set-up in which nothing is late stays in step.                   *)
LEMMA TimelyAlways == Spec => []Timely
  <1>1. Init => Timely
    BY PacketFacts DEF Init, Timely, InStep
  <1>2. TypeOK /\ Link /\ Timely /\ [Next]_vars => Timely'
    <2> SUFFICES ASSUME TypeOK, Link, Timely, [Next]_vars PROVE Timely'
      OBVIOUS
    <2>1. CASE UNCHANGED vars
      BY <2>1 DEF Timely, InStep, Given, vars, linkVars, mkVars, kwVars
    <2> QED
      BY <2>1, MkTimely, KwTimely DEF Next
  <1> QED
    BY <1>1, <1>2, LinkAlways, PTL DEF Spec

(* When nothing is late, an activated device has its parameters             *)
(* (MKW40_setup_params), whatever the chip did when the MK66 started.       *)
THEOREM TimelyConfigures == Spec => []TimelySetupConfigures
  <1>1. TypeOK /\ Link /\ Timely => TimelySetupConfigures
    <2> SUFFICES ASSUME TypeOK, Link, Timely, activated, timeouts = 0, ~slow
                 PROVE  value = Same("mk66")
      BY DEF TimelySetupConfigures
    <2>1. stage = 6 /\ InStep
      BY PacketFacts DEF Link, NoReturn, Timely
    <2>2. Given(2) /\ Given(3) /\ Given(4)
      BY <2>1 DEF InStep
    <2> QED
      BY <2>2, PacketFacts DEF Given, TypeOK, Same, Params
  <1> QED
    BY <1>1, LinkAlways, TimelyAlways, PTL

-------------------------------------------------------------------------------
(* Once the end of the settings has been given, or while a stack of the     *)
(* MK66's previous life still runs, no setting is on its way.               *)
Told ==
  /\ armed = "DONE" /\ stage = 5 => mpc = "wait"
  /\ kpc = "ble" \/ done =>
       \/ stage = 1 /\ armed \in {"none", "RESET"}
       \/ /\ stage >= 5 /\ armed \in {"none", "empty"}
          /\ stage = 5 => mpc = "wait" /\ rxend

(* The event of an exchange is set or still to come, as long as the MK66    *)
(* waits for it.                                                            *)
EventDue == mpc = "wait" => rxend \/ armed # "none"

(* The MK66's steps keep both.                                              *)
LEMMA MkTold == ASSUME TypeOK, Link, Told, EventDue, MkNext \/ Timeout PROVE Told' /\ EventDue'
  <1> USE PacketFacts DEF TypeOK, Link, EarlyBoot, NoReturn, Running, Told, EventDue
  <1>1. CASE Arm
    <2>1. stage \in {1, 2, 3, 4, 5, 6}
      OBVIOUS
    <2> QED
      BY <1>1, <2>1 DEF Arm, kwVars
  <1>2. CASE Arrived
    BY <1>2 DEF Arrived, kwVars
  <1>3. CASE Settle
    BY <1>3 DEF Settle, linkVars, kwVars
  <1>4. CASE Retry
    BY <1>4 DEF Retry, linkVars, kwVars
  <1>5. CASE Timeout
    BY <1>5 DEF Timeout, linkVars, kwVars, Silent
  <1> QED
    BY <1>1, <1>2, <1>3, <1>4, <1>5 DEF MkNext

(* So do the KW40's.                                                        *)
LEMMA KwTold == ASSUME TypeOK, Link, Told, EventDue, KwNext PROVE Told' /\ EventDue'
  <1> USE PacketFacts
      DEF TypeOK, Link, EarlyBoot, EarlyReset, NoReturn, Running, Told, EventDue, Params
  <1>1. CASE Boot
    BY <1>1 DEF Boot, linkVars, mkVars
  <1>2. CASE StartBle
    BY <1>2 DEF StartBle, linkVars, mkVars
  <1>3. CASE FirstExchange
    BY <1>3 DEF FirstExchange, Clock, Reset, mkVars
  <1>4. CASE Exchange
    <2>1. /\ armed' = "none" /\ rxend' = (rxend \/ armed # "none")
          /\ UNCHANGED <<stage, mpc>>
      BY <1>4 DEF Exchange, Clock, mkVars
    <2>2. EventDue'
      BY <2>1
    <2>3. CASE armed = "RESET"
      BY <1>4, <2>1, <2>3 DEF Exchange, Reset
    <2>4. CASE armed = "DONE"
      BY <1>4, <2>1, <2>4 DEF Exchange
    <2>5. CASE armed \notin {"RESET", "DONE"}
      <3>1. UNCHANGED <<kpc, done>>
        BY <1>4, <2>5 DEF Exchange, kwVars
      <3> QED
        BY <2>1, <2>2, <2>5, <3>1
    <2> QED
      BY <2>2, <2>3, <2>4, <2>5
  <1> QED
    BY <1>1, <1>2, <1>3, <1>4 DEF KwNext

(* Hence they always hold.                                                  *)
LEMMA ToldAlways == Spec => [](Told /\ EventDue)
  <1>1. Init => Told /\ EventDue
    BY DEF Init, Told, EventDue
  <1>2. TypeOK /\ Link /\ Told /\ EventDue /\ [Next]_vars => Told' /\ EventDue'
    <2> SUFFICES ASSUME TypeOK, Link, Told, EventDue, [Next]_vars PROVE Told' /\ EventDue'
      OBVIOUS
    <2>1. CASE UNCHANGED vars
      BY <2>1 DEF Told, EventDue, vars, linkVars, mkVars, kwVars
    <2> QED
      BY <2>1, MkTold, KwTold DEF Next
  <1> QED
    BY <1>1, <1>2, LinkAlways, PTL DEF Spec

(* What keeps the two users of the KW40's transmit queue apart (the module  *)
(* TxQueue takes it for granted): a setting, or the end of the settings,    *)
(* reaches the KW40 only while Main_task still waits for that end, however  *)
(* boots, time-outs, retries and restarts of the MK66 fall (the cases       *)
(* SETT_DONE and SETT_WRITE of App_comm_channel.c).                         *)
THEOREM SettingsBeforeRun ==
  Spec => [][kpc # "first" /\ armed' = "none" /\ armed \in Params \cup {"DONE"}
             => kpc = "wait" /\ ~done]_vars
  <1>1. /\ TypeOK /\ Link /\ Told /\ [Next]_vars
        => [kpc # "first" /\ armed' = "none" /\ armed \in Params \cup {"DONE"}
            => kpc = "wait" /\ ~done]_vars
    <2> SUFFICES ASSUME TypeOK, Link, Told, Next,
                        armed \in Params \cup {"DONE"}, armed' = "none", kpc # "first"
                 PROVE  kpc = "wait" /\ ~done
      OBVIOUS
    <2>1. ~ (MkNext \/ Timeout \/ Boot \/ StartBle)
      BY PacketFacts
         DEF MkNext, Arm, Arrived, Settle, Retry, Timeout, Boot, StartBle, linkVars, Params, TypeOK
    <2>2. FirstExchange \/ Exchange
      BY <2>1 DEF Next, KwNext
    <2> QED
      BY <2>2 DEF FirstExchange, Exchange, Told, Params
  <1> QED
    BY <1>1, LinkAlways, ToldAlways, PTL DEF Spec

(* The MK66 never waits for an event that nobody is left to set: either it  *)
(* is set, or the packet whose exchange sets it is still armed.             *)
THEOREM EventAlwaysDue == Spec => []EventDue
  BY ToldAlways, PTL

(* The set-up never takes back what it has achieved: the stages go one by   *)
(* one, they start again from the reset only before the third setting, and  *)
(* a chip reported as activated stays so (the safety half of SetupEnds).    *)
THEOREM SetupGoesForward ==
  Spec => [][/\ stage' # stage => stage' = stage + 1 \/ (stage' = 1 /\ stage <= 3)
             /\ activated => activated']_vars
  <1>1. /\ TypeOK /\ Link /\ [Next]_vars
        => [/\ stage' # stage => stage' = stage + 1 \/ (stage' = 1 /\ stage <= 3)
            /\ activated => activated']_vars
    <2> SUFFICES ASSUME TypeOK, Link, Next
                 PROVE  /\ stage' # stage => stage' = stage + 1 \/ (stage' = 1 /\ stage <= 3)
                        /\ activated => activated'
      OBVIOUS
    <2>1. CASE KwNext
      BY <2>1 DEF KwNext, Boot, FirstExchange, Exchange, StartBle, mkVars
    <2>2. CASE MkNext \/ Timeout
      BY <2>2 DEF MkNext, Arm, Arrived, Settle, Retry, Timeout, Link, NoReturn, Run, TypeOK
    <2> QED
      BY <2>1, <2>2 DEF Next
  <1> QED
    BY <1>1, LinkAlways, PTL DEF Spec

-------------------------------------------------------------------------------
(* A timely set-up has handed over the end of the settings by the time the  *)
(* MK66 believes the chip to run.                                           *)
Started == kpc = "ble" \/ (kpc = "wait" /\ done)

TimelyTold ==
  /\ timeouts = 0 /\ ~slow
  /\ stage = 6 \/ (stage = 5 /\ mpc = "wait" /\ rxend)
  => Started

(* Every step keeps it.                                                     *)
LEMMA TimelyToldKept ==
  ASSUME TypeOK, Link, Timely, Timely', TimelyTold, [Next]_vars
  PROVE  TimelyTold'
  <1> SUFFICES ASSUME timeouts' = 0, ~slow',
                      stage' = 6 \/ (stage' = 5 /\ mpc' = "wait" /\ rxend')
               PROVE  Started'
    BY DEF TimelyTold
  <1>1. timeouts = 0 /\ ~slow /\ ~Timeout
    BY DEF Next, MkNext, KwNext, Arm, Arrived, Settle, Retry, Timeout, TypeOK,
           Boot, FirstExchange, Exchange, StartBle, mkVars, vars
  <1>2. InStep /\ TimelyTold
    BY <1>1 DEF Timely
  <1> USE PacketFacts, <1>1, <1>2 DEF TypeOK, InStep, TimelyTold, Started
  <1>3. CASE Arm
    BY <1>3 DEF Arm, kwVars
  <1>4. CASE Arrived
    BY <1>4 DEF Arrived, kwVars
  <1>5. CASE Settle
    BY <1>5 DEF Settle, linkVars, kwVars
  <1>6. CASE Retry
    BY <1>6 DEF Retry
  <1>7. CASE Boot \/ FirstExchange
    BY <1>7 DEF Boot, FirstExchange, mkVars
  <1>8. CASE StartBle
    BY <1>8 DEF StartBle
  <1>9. CASE Exchange
    <2>1. /\ stage' = stage /\ mpc' = mpc
          /\ stage = 6 \/ (stage = 5 /\ mpc = "wait")
      BY <1>9 DEF Exchange, mkVars
    <2>2. armed # "RESET" /\ armed \notin Params
      BY <2>1 DEF Params
    <2>3. CASE armed = "DONE"
      BY <1>9, <2>3 DEF Exchange, Params
    <2>4. CASE armed \in {"empty", "none"}
      <3>1. UNCHANGED <<kpc, done>>
        BY <1>9, <2>2, <2>4 DEF Exchange, kwVars
      <3>2. stage = 6 \/ (stage = 5 /\ mpc = "wait" /\ rxend)
        BY <2>1, <2>4
      <3> QED
        BY <3>1, <3>2
    <2> QED
      BY <2>1, <2>2, <2>3, <2>4
  <1>10. CASE UNCHANGED vars
    BY <1>10 DEF vars, linkVars, mkVars, kwVars
  <1> QED
    BY <1>3, <1>4, <1>5, <1>6, <1>7, <1>8, <1>9, <1>10 DEF Next, MkNext, KwNext

(* What "activated" means when nothing was late: the settings are complete  *)
(* and the stack runs, or Main_task holds the event that makes it start it. *)
(* Only an exchange that timed out, or a boot longer than the pause after   *)
(* the reset, can leave an activated chip that never comes up.              *)
THEOREM OnlyDelaysLeaveItDown ==
  Spec => [](activated /\ timeouts = 0 /\ ~slow => Started)
  <1>1. Init => TimelyTold
    BY DEF Init, TimelyTold
  <1>2. TypeOK /\ Link /\ Timely /\ Timely' /\ TimelyTold /\ [Next]_vars => TimelyTold'
    BY TimelyToldKept
  <1>3. TypeOK /\ Link /\ TimelyTold => (activated /\ timeouts = 0 /\ ~slow => Started)
    BY PacketFacts DEF Link, NoReturn, TimelyTold
  <1> QED
    BY <1>1, <1>2, <1>3, LinkAlways, TimelyAlways, PTL DEF Spec
===============================================================================
