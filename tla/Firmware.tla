------------------------------- MODULE Firmware -------------------------------
(***************************************************************************)
(* SwitchQueue and PowerSwitch in one system: the tasks of PowerSwitch     *)
(* reach their queue only through get(), access by access, and only once   *)
(* init_task has created them (main.cpp).  cli_task runs from the start,   *)
(* switch_task calls get() at the top of its loop (switch_task.cpp:32),    *)
(* network_task follows it.                                                *)
(*                                                                         *)
(* PowerSwitch takes one queue as given.  Here `queue` is what the handle  *)
(* names at the moment, and the module asks how far that assumption holds  *)
(* when the firmware boots.                                                *)
(***************************************************************************)
EXTENDS Naturals, Sequences

CONSTANTS Cli, Network, Switch, NULL, Durations, NoPress

ASSUME NamesAssumption ==
  /\ Switch \notin {Cli, Network} /\ Cli # Network
  /\ NULL \notin {Cli, Network, Switch}
ASSUME DurationsAssumption == Durations \subseteq Nat /\ NoPress \notin Nat

VARIABLES
  initialized, handle, created, stores, got, overlap,  \* as in SwitchQueue
  get,    \* SwitchQueue's pc: where each task is in get() and its use
  items,  \* what each queue holds
  pc, wifi_initd, data, left, dir, level, led, lost, sure,  \* as in PowerSwitch
  warm    \* history: a get() had come back before switch_task was created

queueVars == <<initialized, handle, created, stores, got, overlap, get, items>>
powerVars == <<pc, wifi_initd, data, left, dir, level, led, lost, sure>>
vars == <<queueVars, powerVars, warm>>

full == {q \in DOMAIN items : items[q] # <<>>}

Get == INSTANCE SwitchQueue WITH
  Senders <- {Cli, Network}, Receiver <- Switch, pc <- get

queue == IF handle = NULL THEN <<>> ELSE items[handle]

Power == INSTANCE PowerSwitch WITH QueueLength <- 1

TypeOK ==
  /\ Get!TypeOK
  /\ Power!TypeOK
  /\ items \in [Get!Tasks -> {<<>>} \cup {<<d>> : d \in Durations}]
  /\ warm \in BOOLEAN

Init ==
  /\ items = [q \in Get!Tasks |-> <<>>]
  /\ Get!Init
  /\ Power!Init
  /\ warm = FALSE

-----------------------------------------------------------------------------
\* The tasks that exist and are at a use of the queue.
AtQueue(t) ==
  CASE t = Cli     -> Power!CliRuns
    [] t = Network -> Power!NetworkRuns
    [] t = Switch  -> pc["switch"] = "receive"

\* An access of get(), or the assertion on what it gave back.
InQueue(t) ==
  /\ AtQueue(t)
  /\ UNCHANGED <<items, powerVars, warm>>
  /\ Get!Get(t) \/ Get!UseNull(t)

\* Slip: a queue of more than one item.
PutLonger(d, q) == items' = [items EXCEPT ![q] = Append(@, d)]

\* xQueueSendToBack(q, &d, 0)
Put(d, q) == items' = [items EXCEPT ![q] = IF @ = <<>> THEN <<d>> ELSE @]

\* toggle(ms) of the command line, which drops 0, and request 0
Send(t) ==
  /\ AtQueue(t) /\ got[t] # NULL
  /\ \E d \in Durations : (t = Cli => d # 0) /\ Put(d, got[t])
  /\ Get!Send(t)
  /\ UNCHANGED <<powerVars, warm>>

Receive ==
  /\ got[Switch] \in full
  /\ items' = [items EXCEPT ![got[Switch]] = Tail(@)]
  /\ Get!Receive
  /\ Power!TakeUp(Head(items[got[Switch]]))
  /\ UNCHANGED warm

\* The steps of PowerSwitch that have nothing to do with the queue.
Alone(Step) == UNCHANGED <<queueVars, warm>> /\ Step

InitSteps ==
  /\ UNCHANGED queueVars
  /\ Power!InitTask
  /\ warm' = IF pc["init"] = "create_switch" THEN Get!Settled ELSE warm

SwitchSteps ==
  \/ InQueue(Switch)
  \/ Receive
  \/ Alone(Power!Construct("switch") \/ Power!Press)

Next ==
  \/ \E t \in {Cli, Network} : InQueue(t) \/ Send(t)
  \/ InitSteps
  \/ SwitchSteps
  \/ Alone(Power!WifiUp)
  \/ Alone(Power!Construct("monitor"))
  \/ Alone(Power!Tick)

Spec == Init /\ [][Next]_vars

\* As in PowerSwitch: ready tasks run, ticks go on, the wifi comes up.
Fairness ==
  /\ WF_vars(InitSteps)
  /\ WF_vars(SwitchSteps)
  /\ WF_vars(Alone(Power!WifiUp))
  /\ WF_vars(Alone(Power!Construct("monitor")))
  /\ WF_vars(Alone(Power!Tick))

FairSpec == Spec /\ Fairness

\* States behind a race are left out: every property below holds there by
\* its wording, and they are fifty times as many.
Unraced == ~overlap

-----------------------------------------------------------------------------
(* Properties                                                              *)

\* As long as the creation of the queue has not been raced, what the tasks
\* do through get() is what PowerSwitch says of them: its one queue is the
\* one the handle names, and all that is shown of it holds of the firmware.
UnracedIsPowerSwitch ==
  Power!Init /\ [][~overlap' => [Power!Next]_(Power!vars)]_vars

\* So seen from outside it keeps the promise of Button that long.
UnracedKeepsPromise ==
  /\ Power!Promise!Init
  /\ [][~overlap' => [Power!Promise!Next]_(Power!Promise!vars)]_vars

\* Raced or not, the pin is safe: whatever queue switch_task is left waiting
\* on, and whatever else is in it, the button is up between presses, a press
\* that begins on a settled device is whole, both drivers leave an output,
\* and the LED waits for the wifi chip.
PinIsSafe ==
  /\ Power!ReleasedBetweenPresses
  /\ Power!SettledPressIsWhole
  /\ Power!PinIsOutput
  /\ Power!LedNeedsWifi

\* If a get() of the command line has come back before init_task creates
\* switch_task, the creation is never raced: every way into the race goes
\* through a boot during which nothing was toggled.
WarmBootIsNotRaced == warm => ~overlap

\* A toggle that got into the queue is carried out, for the time it asked,
\* through get(), the boot and the presses before it, unless the creation
\* of the queue was raced.
ToggleIsPressed ==
  \A d \in Durations :
    queue = <<d>> ~> overlap \/ (pc["switch"] = "delay" /\ data = d)

\* The comment at switch_task.h:15 states the one condition a caller has to
\* meet, "get() must be called from within a FreeRTOS task!".  Every caller
\* meets it here, in the order in which init_task creates them; if it were
\* enough, one queue would ever be made.
TasksMakeOneQueue == \A t, u \in created : t = u
=============================================================================
