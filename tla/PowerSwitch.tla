----------------------------- MODULE PowerSwitch -----------------------------
(***************************************************************************)
(* The power switch and the tasks that reach its pin: init_task starts the *)
(* others (main.cpp), cli_task and network_task put requests in the switch *)
(* queue, switch_task carries them out on GPIO 22 (switch_task.cpp), and   *)
(* monitor_task builds a second driver object for the same pin             *)
(* (monitor_task.cpp:35).  Two cores and preemption interleave their       *)
(* statements freely; a step is one statement that touches shared state.   *)
(*                                                                         *)
(* The queue is taken to exist by the time two tasks use it: how get()     *)
(* creates it, and what happens when that is raced, is SwitchQueue.        *)
(* Time is the FreeRTOS tick (1 ms), counted only while vTaskDelay runs.   *)
(*                                                                         *)
(* A definition marked "Slip" is the next one with a plausible mistake in  *)
(* it; no specification uses it.  The README says which property notices.  *)
(***************************************************************************)
EXTENDS Naturals, Sequences

CONSTANTS
  Durations,    \* times a request may carry, in ticks
  QueueLength,  \* xQueueCreate's first argument; 1 in the firmware
  NoPress       \* not a duration

ASSUME DurationsAssumption == Durations \subseteq Nat /\ NoPress \notin Nat
ASSUME QueueLengthAssumption == QueueLength \in Nat \ {0}

VARIABLES
  pc,          \* the next statement of init_task, switch_task, monitor_task
  wifi_initd,  \* set by wifi_management_task once it is connected
  queue,       \* the switch queue's items
  data,        \* switch_task's local: the request it is carrying out
  left,        \* ticks before its vTaskDelay(data) ends
  dir,         \* GPIO 22: is it an input or an output
  level,       \* GPIO 22: its output register
  led,         \* the LED behind the cyw43 chip
  lost,        \* history: ticks of this press the pin was not driven high
  sure         \* history: monitor_task's driver was built before this press

vars == <<pc, wifi_initd, queue, data, left, dir, level, led, lost, sure>>

Tasks == {"init", "switch", "monitor"}

Driven == dir = "out" /\ level

Go(t, to) == pc' = [pc EXCEPT ![t] = to]

OnlyPc == UNCHANGED <<wifi_initd, queue, data, left, dir, level, led, lost, sure>>

\* Tasks that exist: init_task creates cli_task first, and the others only
\* once the wifi is up.
CliRuns == pc["init"] # "create_cli"
WifiTaskRuns == pc["init"] \notin {"create_cli", "create_wifi"}
NetworkRuns == pc["init"] \in {"create_monitor", "deleted"}

\* switch_task is between xQueueReceive and its switch_.set(false).
Pressing == pc["switch"] \in {"led_on", "set_true", "delay", "set_false"}

InitPoints == {"create_cli", "create_wifi", "wait_wifi", "create_switch",
               "create_network", "create_monitor", "deleted"}
ConstructorPoints == {"absent", "gpio_init", "gpio_put", "gpio_set_dir"}
SwitchPoints == ConstructorPoints \cup
                {"receive", "led_on", "set_true", "delay", "set_false"}
MonitorPoints == ConstructorPoints \cup {"sample"}

TypeOK ==
  /\ pc \in [Tasks -> InitPoints \cup SwitchPoints \cup MonitorPoints]
  /\ pc["init"] \in InitPoints
  /\ pc["switch"] \in SwitchPoints
  /\ pc["monitor"] \in MonitorPoints
  /\ wifi_initd \in BOOLEAN
  /\ queue \in Seq(Durations) /\ Len(queue) <= QueueLength
  /\ data \in Nat
  /\ left \in Nat
  /\ dir \in {"in", "out"}
  /\ level \in BOOLEAN
  /\ led \in BOOLEAN
  /\ lost \in Nat
  /\ sure \in BOOLEAN

\* Reset state of the pin: an input whose output register is low.
Init ==
  /\ pc = [t \in Tasks |-> IF t = "init" THEN "create_cli" ELSE "absent"]
  /\ wifi_initd = FALSE
  /\ queue = <<>>
  /\ data = 0
  /\ left = 0
  /\ dir = "in"
  /\ level = FALSE
  /\ led = FALSE
  /\ lost = 0
  /\ sure = FALSE

-----------------------------------------------------------------------------
(* init_task: create the tasks, waiting for the wifi in between            *)

CreateCli == pc["init"] = "create_cli" /\ Go("init", "create_wifi") /\ OnlyPc

CreateWifi == pc["init"] = "create_wifi" /\ Go("init", "wait_wifi") /\ OnlyPc

\* Slip: nobody waits for the flag.
WaitNothing == pc["init"] = "wait_wifi" /\ Go("init", "create_switch") /\ OnlyPc

\* while (!wifi_initd) taskYIELD()
WaitWifi ==
  pc["init"] = "wait_wifi" /\ wifi_initd /\ Go("init", "create_switch") /\ OnlyPc

\* Slip: the task cannot be created and nobody notices.
CreateSwitchFails ==
  pc["init"] = "create_switch" /\ Go("init", "create_network") /\ OnlyPc

\* The new task has priority over init_task and may run before it goes on.
CreateSwitch ==
  /\ pc["init"] = "create_switch"
  /\ pc' = [pc EXCEPT !["init"] = "create_network", !["switch"] = "gpio_init"]
  /\ OnlyPc

CreateNetwork ==
  pc["init"] = "create_network" /\ Go("init", "create_monitor") /\ OnlyPc

CreateMonitor ==
  /\ pc["init"] = "create_monitor"
  /\ pc' = [pc EXCEPT !["init"] = "deleted", !["monitor"] = "gpio_init"]
  /\ OnlyPc

\* wifi_management_task, here only its `wifi_initd = true`
WifiUp ==
  /\ WifiTaskRuns
  /\ ~wifi_initd
  /\ wifi_initd' = TRUE
  /\ UNCHANGED <<pc, queue, data, left, dir, level, led, lost, sure>>

-----------------------------------------------------------------------------
(* Requests: xQueueSendToBack(switch_comms.get(), &time, 0).  The result   *)
(* is ignored, so a request that meets a full queue is dropped in silence. *)

\* Slip: xQueueOverwrite, the newest request replaces the waiting one.
SendOverwrite(d) ==
  /\ queue' = <<d>>
  /\ UNCHANGED <<pc, wifi_initd, data, left, dir, level, led, lost, sure>>

\* Slip: a queue without a bound.
SendUnbounded(d) ==
  /\ queue' = Append(queue, d)
  /\ UNCHANGED <<pc, wifi_initd, data, left, dir, level, led, lost, sure>>

SendToBack(d) ==
  /\ queue' = IF Len(queue) < QueueLength THEN Append(queue, d) ELSE queue
  /\ UNCHANGED <<pc, wifi_initd, data, left, dir, level, led, lost, sure>>

\* "toggle <ms>" on the command line asks for nothing when ms is 0.
CliToggle(d) == CliRuns /\ d # 0 /\ SendToBack(d)

\* Request 0 over the network; any 4-byte time.
NetworkToggle(d) == NetworkRuns /\ SendToBack(d)

-----------------------------------------------------------------------------
(* pc_switch<22>'s constructor, run by both tasks on their own static      *)
(* object: gpio_init makes the pin a low input, gpio_put(false),           *)
(* gpio_set_dir makes it an output.                                        *)

GpioInit(t) ==
  /\ pc[t] = "gpio_init"
  /\ dir' = "in"
  /\ level' = FALSE
  /\ Go(t, "gpio_put")
  /\ UNCHANGED <<wifi_initd, queue, data, left, led, lost, sure>>

\* Slip: the drivers are constructed with the pin on.
GpioPutTrue(t) ==
  /\ pc[t] = "gpio_put"
  /\ level' = TRUE
  /\ Go(t, "gpio_set_dir")
  /\ UNCHANGED <<wifi_initd, queue, data, left, dir, led, lost, sure>>

\* Slip: gpio_set_dir is left out.
GpioPutLast(t) ==
  /\ pc[t] = "gpio_put"
  /\ level' = FALSE
  /\ Go(t, IF t = "switch" THEN "receive" ELSE "sample")
  /\ UNCHANGED <<wifi_initd, queue, data, left, dir, led, lost, sure>>

GpioPut(t) ==
  /\ pc[t] = "gpio_put"
  /\ level' = FALSE
  /\ Go(t, "gpio_set_dir")
  /\ UNCHANGED <<wifi_initd, queue, data, left, dir, led, lost, sure>>

GpioSetDir(t) ==
  /\ pc[t] = "gpio_set_dir"
  /\ dir' = "out"
  /\ Go(t, IF t = "switch" THEN "receive" ELSE "sample")
  /\ UNCHANGED <<wifi_initd, queue, data, left, level, led, lost, sure>>

-----------------------------------------------------------------------------
(* switch_task's loop                                                      *)

\* What a receive that returns d does to switch_task.
TakeUp(d) ==
  /\ pc["switch"] = "receive"
  /\ data' = d
  /\ lost' = 0
  /\ sure' = (pc["monitor"] = "sample")
  /\ Go("switch", "led_on")
  /\ UNCHANGED <<wifi_initd, left, dir, level, led>>

\* xQueueReceive(switch_comms.get(), &data, portMAX_DELAY)
Receive == queue # <<>> /\ TakeUp(Head(queue)) /\ queue' = Tail(queue)

LedOn ==
  /\ pc["switch"] = "led_on"
  /\ led' = TRUE
  /\ Go("switch", "set_true")
  /\ UNCHANGED <<wifi_initd, queue, data, left, dir, level, lost, sure>>

\* switch_.set(true) and the call of vTaskDelay(data)
SetTrue ==
  /\ pc["switch"] = "set_true"
  /\ level' = TRUE
  /\ left' = data
  /\ Go("switch", "delay")
  /\ UNCHANGED <<wifi_initd, queue, data, dir, led, lost, sure>>

\* A tick interrupt during the delay.
Tick ==
  /\ pc["switch"] = "delay"
  /\ left > 0
  /\ left' = left - 1
  /\ lost' = IF Driven THEN lost ELSE lost + 1
  /\ UNCHANGED <<pc, wifi_initd, queue, data, dir, level, led, sure>>

\* Slip: a delay of no ticks is taken for one without end.
LedOffUnlessZero ==
  /\ pc["switch"] = "delay"
  /\ left = 0 /\ data # 0
  /\ led' = FALSE
  /\ Go("switch", "set_false")
  /\ UNCHANGED <<wifi_initd, queue, data, left, dir, level, lost, sure>>

\* vTaskDelay has returned: the LED goes off before the pin goes low.
LedOff ==
  /\ pc["switch"] = "delay"
  /\ left = 0
  /\ led' = FALSE
  /\ Go("switch", "set_false")
  /\ UNCHANGED <<wifi_initd, queue, data, left, dir, level, lost, sure>>

SetFalse ==
  /\ pc["switch"] = "set_false"
  /\ level' = FALSE
  /\ Go("switch", "receive")
  /\ UNCHANGED <<wifi_initd, queue, data, left, dir, led, lost, sure>>

-----------------------------------------------------------------------------
InitTask ==
  \/ CreateCli \/ CreateWifi \/ WaitWifi
  \/ CreateSwitch \/ CreateNetwork \/ CreateMonitor

\* Slip: a driver object that is not static, built again for each sample.
ConstructEachTime(t) ==
  \/ GpioInit(t) \/ GpioPut(t) \/ GpioSetDir(t)
  \/ /\ pc[t] = "sample"
     /\ Go(t, "gpio_init")
     /\ OnlyPc

Construct(t) == GpioInit(t) \/ GpioPut(t) \/ GpioSetDir(t)

Press == LedOn \/ SetTrue \/ LedOff \/ SetFalse

SwitchTask == Construct("switch") \/ Receive \/ Press

Next ==
  \/ InitTask
  \/ WifiUp
  \/ \E d \in Durations : CliToggle(d) \/ NetworkToggle(d)
  \/ SwitchTask
  \/ Construct("monitor")
  \/ Tick

Spec == Init /\ [][Next]_vars

\* A ready task eventually runs (fixed priorities, equal ones time-sliced,
\* two cores), ticks keep coming, and the access point eventually lets the
\* wifi task connect.  Nobody has to send requests.
Fairness ==
  /\ WF_vars(InitTask)
  /\ WF_vars(WifiUp)
  /\ WF_vars(SwitchTask)
  /\ WF_vars(Construct("monitor"))
  /\ WF_vars(Tick)

FairSpec == Spec /\ Fairness

-----------------------------------------------------------------------------
(* Properties                                                              *)

\* Whenever switch_task is not carrying out a request the button is up, at
\* whatever point of its constructor monitor_task has been preempted.
ReleasedBetweenPresses == ~Pressing => ~Driven

\* A press that began after monitor_task built its driver drives the pin
\* from switch_.set(true) to switch_.set(false), every tick of it.
SettledPressIsWhole ==
  sure /\ pc["switch"] \in {"delay", "set_false"} => Driven /\ lost = 0

\* Once both drivers are built the pin is an output, whichever task ran its
\* constructor last: the switch cannot be left driving a high impedance pin.
PinIsOutput ==
  pc["switch"] \notin ConstructorPoints /\ pc["monitor"] = "sample"
    => dir = "out"

\* switch_task switches an LED that sits behind the wifi chip, so nothing may
\* start it before wifi_management_task has brought the chip up.
LedNeedsWifi == led \/ pc["switch"] = "led_on" => wifi_initd

\* A request in the queue is eventually carried out, including one made on
\* the command line before switch_task exists.
QueuedRequestIsPressed ==
  \A d \in Durations :
    queue # <<>> /\ Head(queue) = d ~> pc["switch"] = "delay" /\ data = d

\* The button comes up again after every press.
PressEnds == Pressing ~> ~Pressing /\ ~Driven

\* The outside view: the firmware keeps the promise of Button.
settled == pc["monitor"] = "sample"

Promise == INSTANCE Button WITH
  waiting <- queue,
  press   <- IF Pressing THEN data ELSE NoPress,
  owed    <- IF pc["switch"] \in {"led_on", "set_true"} THEN data ELSE left,
  down    <- Driven,
  settled <- settled,
  sure    <- sure

ButtonPromise == Promise!Spec

\* What switch_task logs for each request, "switch task: toggling pin for
\* {} ms" (switch_task.cpp:33): by the end of the press the pin has been
\* driven high for the ticks it announced.
TogglesForTheWholeTime == pc["switch"] = "set_false" => lost = 0
=============================================================================
