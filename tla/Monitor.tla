-------------------------------- MODULE Monitor --------------------------------
(***************************************************************************)
(* monitor_task (firmware/src/monitor_task.cpp) in full: once it has built *)
(* its driver for the switch's pin, which is PowerSwitch's part of it, it  *)
(* samples GPIO 21, where the PC shows whether it is on, once a second     *)
(* into pc_state.  current_pc_state() gives that copy to whoever asks, so  *)
(* answers are at best a second old, and "off" until monitor_task exists.  *)
(*                                                                         *)
(* The other tasks are PowerSwitch's: this module adds to its steps and    *)
(* takes none away.  GPIO 21 is set up before the driver is built and      *)
(* touched by nobody else.                                                 *)
(***************************************************************************)
EXTENDS PowerSwitch

VARIABLES
  power,     \* GPIO 21, set by the PC
  state,     \* monitor_task's local: the sample
  pc_state,  \* the atomic copy that current_pc_state() returns
  loop       \* the next statement of its loop

senseVars == <<power, state, pc_state, loop>>

allVars == <<vars, senseVars>>

SenseTypeOK ==
  /\ power \in BOOLEAN
  /\ state \in BOOLEAN
  /\ pc_state \in BOOLEAN
  /\ loop \in {"gpio_get", "store", "delay"}

MonitorInit ==
  /\ Init
  /\ power \in BOOLEAN
  /\ state = FALSE
  /\ pc_state = FALSE
  /\ loop = "gpio_get"

\* The PC is switched on or off, by its button or by itself.
PowerChanges ==
  /\ power' = ~power
  /\ UNCHANGED <<vars, state, pc_state, loop>>

Sampling(point) == pc["monitor"] = "sample" /\ loop = point

GpioGet ==
  /\ Sampling("gpio_get")
  /\ state' = power
  /\ loop' = "store"
  /\ UNCHANGED <<vars, power, pc_state>>

\* pc_state = state, whatever the PC has done since
StoreState ==
  /\ Sampling("store")
  /\ pc_state' = state
  /\ loop' = "delay"
  /\ UNCHANGED <<vars, power, state>>

\* Slip: the pin is read once, in front of the loop.
DelayAndStore ==
  /\ Sampling("delay")
  /\ loop' = "store"
  /\ UNCHANGED <<vars, power, state, pc_state>>

\* vTaskDelay(1000)
Delay ==
  /\ Sampling("delay")
  /\ loop' = "gpio_get"
  /\ UNCHANGED <<vars, power, state, pc_state>>

Sample == GpioGet \/ StoreState \/ Delay

MonitorNext ==
  \/ Next /\ UNCHANGED senseVars
  \/ Sample
  \/ PowerChanges

MonitorSpec == MonitorInit /\ [][MonitorNext]_allVars

\* The loop is run like the other tasks; the PC need do nothing.
MonitorFairSpec == MonitorSpec /\ Fairness /\ WF_allVars(Sample)

-----------------------------------------------------------------------------
\* If the PC stays on, or off, what current_pc_state() returns agrees in the
\* end and for good, although the sample and its store are two steps and
\* nothing is sampled before the wifi has come up and two tasks have been
\* created.
SenseFollows ==
  \A on \in BOOLEAN : <>[](power = on) => <>[](pc_state = on)
=============================================================================
