---------------------------- MODULE Firmware_proofs ----------------------------
(***************************************************************************)
(* The firmware implements PowerSwitch for as long as the creation of the  *)
(* queue is not raced.  Firmware is an instance of SwitchQueue, so what is *)
(* proved there about the phases of the queue can be used here.  And its   *)
(* tasks are those of PowerSwitch with a queue that may be any, so what is *)
(* proved there about the pin holds here, raced or not.                    *)
(***************************************************************************)
EXTENDS Firmware, TLAPS

Queue == INSTANCE SwitchQueue_proofs WITH
  Senders <- {Cli, Network}, Receiver <- Switch, pc <- get

\* There is no sampling loop and no status command in Firmware.
Pin == INSTANCE PowerSwitch_proofs WITH
  QueueLength <- 1,
  power <- FALSE, state <- FALSE, pc_state <- FALSE, loop <- "gpio_get",
  netif <- FALSE, reaped <- FALSE, counted <- 0, interface <- FALSE, calm <- FALSE

LEMMA QueueInit == Init => Queue!Init
  BY DEF Init, Get!Init, Queue!Init, Get!Tasks, Queue!Tasks

LEMMA QueueStep == [Next]_vars => [Queue!Next]_(Queue!vars)
<1> USE DEF Get!Get, Queue!Get, Queue!Next, Get!CallGet, Queue!CallGet,
            Get!TestInitialized, Queue!TestInitialized, Get!CreateQueue,
            Queue!CreateQueue, Get!StoreHandle, Queue!StoreHandle,
            Get!StoreInitialized, Queue!StoreInitialized, Get!ReturnCreated,
            Queue!ReturnCreated, Get!ReturnExisting, Queue!ReturnExisting,
            Get!Send, Queue!Send, Get!Receive, Queue!Receive, Get!UseNull,
            Queue!UseNull, Get!Tasks, Queue!Tasks, Get!InGet, Queue!InGet,
            Get!Creating, Queue!Creating
<1>1. ASSUME NEW t \in {Cli, Network}, InQueue(t) \/ Send(t)
      PROVE  Queue!Next
  BY <1>1 DEF InQueue, Send
<1>2. ASSUME InQueue(Switch) \/ Receive
      PROVE  Queue!Next
  BY <1>2 DEF InQueue, Receive
<1>3. ASSUME UNCHANGED queueVars
      PROVE  UNCHANGED Queue!vars
  BY <1>3 DEF queueVars, Queue!vars, full
<1> QED
  BY <1>1, <1>2, <1>3 DEF Next, InitSteps, SwitchSteps, Alone, vars

\* However the boot and the presses go on between them, the accesses to the
\* queue are those of SwitchQueue, whose promises therefore hold, also the one
\* about a raced creation (HandleSettles).
THEOREM ImplementsSwitchQueue == Spec => Get!Spec
<1>1. Init => Get!Init
  BY DEF Init
<1>2. [Next]_vars => [Get!Next]_(Get!vars)
  <2>1. ASSUME NEW t \in {Cli, Network}, InQueue(t) \/ Send(t)
        PROVE  Get!Next
    BY <2>1 DEF InQueue, Send, Get!Next, Get!Tasks
  <2>2. ASSUME InQueue(Switch) \/ Receive
        PROVE  Get!Next
    BY <2>2 DEF InQueue, Receive, Get!Next, Get!Tasks
  <2>3. UNCHANGED queueVars => UNCHANGED Get!vars
    BY DEF queueVars, Get!vars, full
  <2> QED
    BY <2>1, <2>2, <2>3 DEF Next, InitSteps, SwitchSteps, Alone, vars
<1> QED
  BY <1>1, <1>2, PTL DEF Spec, Get!Spec

\* What SwitchQueue's invariant says about its variables is true here.
LEMMA QueueInvariance == Spec => []Queue!IInv
<1>1. Queue!Spec => []Queue!IInv
  BY Queue!Invariance, NamesAssumption DEF Queue!TasksAssumption, Queue!Tasks
<1> QED
  BY QueueInit, QueueStep, <1>1, PTL DEF Spec, Queue!Spec

\* Each queue is empty or holds one time.
ItemsOK == items \in [Queue!Tasks -> {<<>>} \cup {<<d>> : d \in Durations}]

LEMMA ItemsInvariance == Spec => []ItemsOK
<1>1. Init => ItemsOK
  BY DEF Init, ItemsOK, Get!Tasks, Queue!Tasks
<1>2. ItemsOK /\ [Next]_vars => ItemsOK'
  <2> SUFFICES ASSUME ItemsOK, [Next]_vars
               PROVE  ItemsOK'
    OBVIOUS
  <2>1. ASSUME NEW t \in {Cli, Network}, Send(t)
        PROVE  ItemsOK'
    <3>1. PICK d \in Durations : Put(d, got[t])
      BY <2>1 DEF Send
    <3>2. <<d>> \in {<<>>} \cup {<<e>> : e \in Durations}
      OBVIOUS
    <3> QED
      BY <3>1, <3>2 DEF Put, ItemsOK
  <2>2. CASE Receive
    <3>1. PICK q \in Queue!Tasks : items[q] # <<>> /\ items' = [items EXCEPT ![q] = Tail(@)]
      BY <2>2 DEF Receive, ItemsOK, full
    <3>2. PICK d \in Durations : items[q] = <<d>>
      BY <3>1 DEF ItemsOK
    <3>3. Tail(items[q]) = <<>>
      BY <3>2
    <3> QED
      BY <3>1, <3>3 DEF ItemsOK
  <2>3. CASE UNCHANGED items
    BY <2>3 DEF ItemsOK
  <2> QED
    BY <2>1, <2>2, <2>3
       DEF Next, InQueue, InitSteps, SwitchSteps, Alone, vars, queueVars
<1> QED
  BY <1>1, <1>2, PTL DEF Spec

-----------------------------------------------------------------------------
(* The tasks and the pin, whatever becomes of the queue                    *)

LEMMA PinAssumptions == Pin!DurationsAssumption /\ Pin!QueueLengthAssumption
  BY DurationsAssumption DEF Pin!DurationsAssumption, Pin!QueueLengthAssumption

LEMMA PinInit == Init => Pin!PinInv
<1>1. Init => Pin!Init
  BY DEF Init, Power!Init, Pin!Init, Power!Tasks, Pin!Tasks
<1> QED
  BY <1>1, Pin!PinInit, PinAssumptions

\* The statements of the tasks are the same ones in both instances.
LEMMA SameSteps ==
  /\ Power!InitTask => Pin!InitTask
  /\ Power!WifiUp => Pin!WifiUp
  /\ \A d \in Durations : Power!TakeUp(d) => Pin!TakeUp(d)
  /\ \A t \in {"switch", "monitor"} : Power!Construct(t) => Pin!Construct(t)
  /\ Power!Press => Pin!Press
  /\ Power!Tick => Pin!Tick
<1> USE DEF Power!Go, Pin!Go, Power!OnlyPc, Pin!OnlyPc
<1>1. Power!InitTask => Pin!InitTask
  BY DEF Power!InitTask, Pin!InitTask,
     Power!CreateCli, Pin!CreateCli, Power!CreateWifi, Pin!CreateWifi,
     Power!WaitWifi, Pin!WaitWifi, Power!CreateSwitch, Pin!CreateSwitch,
     Power!CreateNetwork, Pin!CreateNetwork, Power!CreateMonitor,
     Pin!CreateMonitor
<1>2. Power!WifiUp => Pin!WifiUp
  BY DEF Power!WifiUp, Pin!WifiUp, Power!WifiTaskRuns, Pin!WifiTaskRuns
<1>3. \A d \in Durations : Power!TakeUp(d) => Pin!TakeUp(d)
  BY DEF Power!TakeUp, Pin!TakeUp
<1>4. \A t \in {"switch", "monitor"} : Power!Construct(t) => Pin!Construct(t)
  BY DEF Power!Construct, Pin!Construct, Power!GpioInit, Pin!GpioInit,
         Power!GpioPut, Pin!GpioPut, Power!GpioSetDir, Pin!GpioSetDir
<1>5. Power!Press => Pin!Press
  BY DEF Power!Press, Pin!Press, Power!LedOn, Pin!LedOn, Power!SetTrue,
         Pin!SetTrue, Power!LedOff, Pin!LedOff, Power!SetFalse, Pin!SetFalse
<1>6. Power!Tick => Pin!Tick
  BY DEF Power!Tick, Pin!Tick, Power!Driven, Pin!Driven
<1> QED
  BY <1>1, <1>2, <1>3, <1>4, <1>5, <1>6

\* Every step of Firmware is one that the tasks of PowerSwitch make with some
\* queue, or none of theirs.
LEMMA PinStep == ItemsOK /\ [Next]_vars => [Pin!PinNext]_(Pin!pinVars)
<1> SUFFICES ASSUME ItemsOK, [Next]_vars
             PROVE  Pin!PinNext \/ UNCHANGED Pin!pinVars
  OBVIOUS
<1>1. ASSUME Receive
      PROVE  \E d \in Durations : Power!TakeUp(d)
  <2>1. PICK d \in Durations : items[got[Switch]] = <<d>>
    BY <1>1 DEF Receive, ItemsOK, full
  <2> QED
    BY <1>1, <2>1 DEF Receive
<1>2. ASSUME \/ Power!InitTask \/ Power!WifiUp \/ Power!Press \/ Power!Tick
             \/ \E t \in {"switch", "monitor"} : Power!Construct(t)
             \/ \E d \in Durations : Power!TakeUp(d)
      PROVE  Pin!PinNext
  BY <1>2, SameSteps DEF Pin!PinNext
<1>3. ASSUME UNCHANGED powerVars
      PROVE  UNCHANGED Pin!pinVars
  BY <1>3 DEF powerVars, Pin!pinVars
<1> QED
  BY <1>1, <1>2, <1>3
     DEF Next, InQueue, Send, InitSteps, SwitchSteps, Alone, vars

LEMMA PinInvariance == Spec => []Pin!PinInv
<1>1. ItemsOK /\ Pin!PinInv /\ [Next]_vars => Pin!PinInv'
  BY PinStep, Pin!PinStep, PinAssumptions
<1> QED
  BY PinInit, ItemsInvariance, <1>1, PTL DEF Spec

\* Raced or not, no order of the tasks' steps leaves the button down between
\* presses or cuts a press that begins on a settled device.
THEOREM PinSafe == Spec => []PinIsSafe
<1>1. Pin!PinInv => PinIsSafe
  BY Pin!PinFacts, PinAssumptions
     DEF PinIsSafe, Power!ReleasedBetweenPresses, Pin!ReleasedBetweenPresses,
         Power!SettledPressIsWhole, Pin!SettledPressIsWhole,
         Power!PinIsOutput, Pin!PinIsOutput, Power!LedNeedsWifi,
         Pin!LedNeedsWifi, Power!Pressing, Pin!Pressing, Power!Driven,
         Pin!Driven, Power!ConstructorPoints, Pin!ConstructorPoints
<1> QED
  BY PinInvariance, <1>1, PTL

LEMMA QueueHoldsOne ==
  ASSUME Queue!TypeOK, ItemsOK
  PROVE  queue \in Seq(Durations) /\ Len(queue) <= 1
<1>1. handle \in Queue!Tasks \cup {NULL}
  BY DEF Queue!TypeOK
<1>2. queue = <<>> \/ \E d \in Durations : queue = <<d>>
  BY <1>1 DEF queue, ItemsOK
<1>3. CASE queue = <<>>
  BY <1>3
<1>4. ASSUME NEW d \in Durations, queue = <<d>>
      PROVE  queue \in Seq(Durations) /\ Len(queue) <= 1
  <2>1. <<d>> \in Seq(Durations) /\ Len(<<d>>) = 1
    OBVIOUS
  <2> QED
    BY <1>4, <2>1
<1> QED
  BY <1>2, <1>3, <1>4

\* The fields and the tasks of both modules keep their types, and every queue
\* is empty or holds one time, also when more than one has been made.
THEOREM TypeCorrect == Spec => []TypeOK
<1>1. Init => warm \in BOOLEAN
  BY DEF Init
<1>2. warm \in BOOLEAN /\ [Next]_vars => (warm \in BOOLEAN)'
  <2>1. Get!Settled \in BOOLEAN
    BY Zenon DEF Get!Settled
  <2>2. InitSteps => warm' \in {Get!Settled, warm}
    BY DEF InitSteps
  <2>3. [Next]_vars /\ ~InitSteps => warm' = warm
    BY DEF Next, InQueue, Send, SwitchSteps, Receive, Alone, vars
  <2> QED
    BY <2>1, <2>2, <2>3
<1>3. Spec => [](warm \in BOOLEAN)
  BY <1>1, <1>2, PTL DEF Spec
<1>4. ASSUME Queue!IInv, Pin!PinInv, ItemsOK, warm \in BOOLEAN
      PROVE  TypeOK
  <2>1. Queue!TypeOK
    BY <1>4 DEF Queue!IInv
  <2>2. Get!TypeOK
    BY <2>1 DEF Queue!TypeOK, Get!TypeOK, Queue!Tasks, Get!Tasks
  <2>3. Power!TypeOK
    BY <1>4, <2>1, QueueHoldsOne
       DEF Pin!PinInv, Pin!PinTypes, Power!TypeOK, Power!Tasks, Pin!Tasks,
           Power!InitPoints, Pin!InitPoints, Power!SwitchPoints,
           Pin!SwitchPoints, Power!MonitorPoints, Pin!MonitorPoints,
           Power!ConstructorPoints, Pin!ConstructorPoints
  <2> QED
    BY <1>4, <2>2, <2>3 DEF TypeOK, ItemsOK, Queue!Tasks, Get!Tasks
<1> QED
  BY QueueInvariance, PinInvariance, ItemsInvariance, <1>3, <1>4, PTL

-----------------------------------------------------------------------------
(* The refinement                                                          *)

LEMMA PowerInit == Init => Power!Init
  BY DEF Init

\* A task that is at a use of the queue holds the handle, and the storing of
\* a handle changes nothing about what is in the queue it names.
LEMMA SharedUse ==
  ASSUME Queue!Serial, NEW t \in Queue!Tasks, get[t] = "use"
  PROVE  got[t] = handle
  BY DEF Queue!Serial, Queue!Fresh, Queue!AboutToMake, Queue!Storing,
         Queue!Shared

LEMMA GetIsInvisible ==
  ASSUME Queue!TypeOK, Queue!Serial, ItemsOK,
         NEW t \in Queue!Tasks, Queue!Get(t) \/ Queue!UseNull(t),
         UNCHANGED items, ~overlap'
  PROVE  queue' = queue
<1> USE DEF queue
<1>1. CASE handle' = handle
  BY <1>1
<1>2. CASE handle' # handle
  <2>1. Queue!StoreHandle(t)
    BY <1>2 DEF Queue!Get, Queue!CallGet, Queue!TestInitialized,
                Queue!CreateQueue, Queue!StoreInitialized,
                Queue!ReturnCreated, Queue!ReturnExisting, Queue!UseNull
  <2>2. Queue!Storing(t)
    BY <2>1, NamesAssumption DEF Queue!StoreHandle, Queue!Serial, Queue!Fresh,
            Queue!AboutToMake, Queue!Storing, Queue!Shared, Queue!Tasks
  <2>3. \A q \in Queue!Tasks : items[q] = <<>>
    BY <2>2 DEF Queue!Storing, full, ItemsOK
  <2>4. handle \in Queue!Tasks \cup {NULL} /\ handle' \in Queue!Tasks \cup {NULL}
    BY <2>1 DEF Queue!StoreHandle, Queue!TypeOK
  <2> QED
    BY <2>3, <2>4
<1> QED
  BY <1>1, <1>2

LEMMA PowerStep ==
  Queue!IInv /\ ItemsOK /\ [Next]_vars /\ ~overlap /\ ~overlap'
    => [Power!Next]_(Power!vars)
<1> SUFFICES ASSUME Queue!IInv, ItemsOK, [Next]_vars, ~overlap, ~overlap'
             PROVE  Power!Next \/ UNCHANGED Power!vars
  OBVIOUS
<1> USE DEF Power!vars, powerVars
<1>1. Queue!TypeOK /\ Queue!Serial
  BY DEF Queue!IInv
<1>2. ASSUME NEW t \in Queue!Tasks, InQueue(t)
      PROVE  UNCHANGED Power!vars
  <2>1. Queue!Get(t) \/ Queue!UseNull(t)
    BY <1>2 DEF InQueue, Get!Get, Queue!Get, Get!CallGet, Get!TestInitialized, Get!CreateQueue,
            Get!StoreHandle, Get!StoreInitialized, Get!ReturnCreated,
            Get!ReturnExisting, Get!UseNull, Queue!CallGet,
            Queue!TestInitialized, Queue!CreateQueue, Queue!StoreHandle,
            Queue!StoreInitialized, Queue!ReturnCreated,
            Queue!ReturnExisting, Queue!UseNull, Get!Creating, Queue!Creating,
            Get!InGet, Queue!InGet, Get!Tasks, Queue!Tasks
  <2>2. queue' = queue
    BY <1>1, <1>2, <2>1, GetIsInvisible DEF InQueue
  <2> QED
    BY <1>2, <2>2 DEF InQueue
<1>3. ASSUME NEW t \in {Cli, Network}, Send(t)
      PROVE  Power!Next
  <2>1. got[t] = handle /\ handle' = handle /\ handle # NULL /\ handle \in Queue!Tasks
    BY <1>1, <1>3, SharedUse DEF Send, Get!Send, Queue!Tasks, Queue!TypeOK
  <2>2. PICK d \in Durations : (t = Cli => d # 0) /\ Put(d, handle)
    BY <1>3, <2>1 DEF Send
  <2>3. queue' = IF queue = <<>> THEN <<d>> ELSE queue
    BY <2>1, <2>2 DEF Put, queue, ItemsOK
  <2>4. Power!SendToBack(d)
    <3>1. queue = <<>> \/ \E e \in Durations : queue = <<e>>
      BY <2>1 DEF queue, ItemsOK
    <3>2. queue' = IF Len(queue) < 1 THEN Append(queue, d) ELSE queue
      <4>1. CASE queue = <<>>
        BY <2>3, <4>1
      <4>2. ASSUME NEW e \in Durations, queue = <<e>>
            PROVE  queue' = IF Len(queue) < 1 THEN Append(queue, d) ELSE queue
        <5>1. Len(<<e>>) = 1 /\ <<e>> # <<>>
          OBVIOUS
        <5> QED
          BY <2>3, <4>2, <5>1
      <4> QED
        BY <3>1, <4>1, <4>2
    <3> QED
      BY <1>3, <3>2 DEF Send, Power!SendToBack
  <2> QED
    BY <1>3, <2>2, <2>4, NamesAssumption
       DEF Send, AtQueue, Power!Next, Power!CliToggle, Power!NetworkToggle
<1>4. CASE Receive
  <2>1. /\ got[Switch] = handle /\ handle' = handle /\ handle # NULL
        /\ handle \in full
    BY <1>1, <1>4, SharedUse, NamesAssumption
       DEF Receive, Get!Receive, Queue!Tasks, full, ItemsOK
  <2>2. queue # <<>> /\ queue' = Tail(queue) /\ Power!TakeUp(Head(queue))
    BY <1>4, <2>1 DEF Receive, queue, full, ItemsOK
  <2> QED
    BY <2>2 DEF Power!Next, Power!SwitchTask, Power!Receive
\* All other steps are steps of PowerSwitch that leave the queue alone.
<1>5. ASSUME UNCHANGED queueVars,
             \/ Power!InitTask \/ Power!WifiUp \/ Power!Tick \/ Power!Press
             \/ Power!Construct("switch") \/ Power!Construct("monitor")
      PROVE  Power!Next
  BY <1>5 DEF Power!Next, Power!SwitchTask
<1>6. CASE UNCHANGED vars
  BY <1>6 DEF vars, queueVars, queue
<1> QED
  BY <1>2, <1>3, <1>4, <1>5, <1>6
     DEF Next, InitSteps, SwitchSteps, Alone, Queue!Tasks

\* A race, once there has been one, is not forgotten.
LEMMA OverlapStays == Queue!TypeOK /\ [Next]_vars /\ overlap => overlap'
  BY QueueStep, Queue!OverlapStays, NamesAssumption
     DEF Queue!TasksAssumption, Queue!Tasks

\* As long as the creation of the queue is not raced, the firmware with its
\* accesses to get() is an implementation of PowerSwitch, so all that is
\* proved about PowerSwitch holds of it.
THEOREM ImplementsPowerSwitch == Spec => UnracedIsPowerSwitch
<1>1. Queue!IInv /\ ItemsOK /\ [Next]_vars
        => [~overlap' => [Power!Next]_(Power!vars)]_vars
  BY PowerStep, OverlapStays DEF Queue!IInv
<1> QED
  BY PowerInit, QueueInvariance, ItemsInvariance, <1>1, PTL
     DEF Spec, UnracedIsPowerSwitch

LEMMA SamePower == [Power!Next]_(Power!vars) => [Pin!Next]_(Pin!vars)
<1>1. ASSUME NEW d \in Durations, Power!CliToggle(d) \/ Power!NetworkToggle(d)
      PROVE  Pin!CliToggle(d) \/ Pin!NetworkToggle(d)
  BY <1>1 DEF Power!CliToggle, Pin!CliToggle, Power!NetworkToggle,
     Pin!NetworkToggle, Power!CliRuns, Pin!CliRuns, Power!NetworkRuns,
     Pin!NetworkRuns, Power!SendToBack, Pin!SendToBack
<1>2. Power!Receive => Pin!Receive
  BY DEF Power!Receive, Pin!Receive, Power!TakeUp, Pin!TakeUp, Power!Go, Pin!Go
<1>3. UNCHANGED Power!vars => UNCHANGED Pin!vars
  BY DEF Power!vars, Pin!vars
<1> QED
  BY <1>1, <1>2, <1>3, SameSteps
     DEF Power!Next, Power!SwitchTask, Pin!Next, Pin!SwitchTask

LEMMA SamePromise ==
  /\ Pin!Promise!Init => Power!Promise!Init
  /\ [Pin!Promise!Next]_(Pin!Promise!vars)
       => [Power!Promise!Next]_(Power!Promise!vars)
<1> USE DEF Pin!Pressing, Power!Pressing, Pin!Driven, Power!Driven,
            Pin!settled, Power!settled
<1>1. Pin!Promise!Init => Power!Promise!Init
  BY DEF Pin!Promise!Init, Power!Promise!Init
<1>2. Pin!Promise!Next => Power!Promise!Next
  BY DEF Pin!Promise!Next, Power!Promise!Next,
     Pin!Promise!Accept, Power!Promise!Accept, Pin!Promise!Take,
     Power!Promise!Take, Pin!Promise!Push, Power!Promise!Push,
     Pin!Promise!Hold, Power!Promise!Hold, Pin!Promise!Release,
     Power!Promise!Release, Pin!Promise!Disturb, Power!Promise!Disturb
<1>3. UNCHANGED Pin!Promise!vars => UNCHANGED Power!Promise!vars
  BY DEF Pin!Promise!vars, Power!Promise!vars
<1> QED
  BY <1>1, <1>2, <1>3

\* As long as the creation of the queue is not raced, the button does what
\* Button promises, with the tasks going through get() for every request.
THEOREM KeepsPromise == Spec => UnracedKeepsPromise
<1>1. Init => Power!Promise!Init
  <2>1. Init => Pin!Init
    BY DEF Init, Power!Init, Pin!Init, Power!Tasks, Pin!Tasks
  <2> QED
    BY <2>1, Pin!PromiseInit, PinAssumptions, SamePromise
<1>2. Queue!IInv /\ ItemsOK /\ Pin!PinInv => Pin!IInv
  BY QueueHoldsOne DEF Queue!IInv, Pin!IInv, Pin!QueueTypes
<1>3. Queue!IInv /\ ItemsOK /\ Pin!PinInv /\ [Next]_vars
        => [~overlap' => [Power!Promise!Next]_(Power!Promise!vars)]_vars
  BY <1>2, PowerStep, OverlapStays, SamePower, Pin!PromiseStep, PinAssumptions,
     SamePromise DEF Queue!IInv
<1> QED
  BY QueueInvariance, ItemsInvariance, PinInvariance, <1>1, <1>3, PTL
     DEF Spec, UnracedKeepsPromise

-----------------------------------------------------------------------------
(* When the creation cannot be raced                                       *)

\* Until switch_task is created nobody but cli_task can be in get().
Early == pc["init"] \in {"create_cli", "create_wifi", "wait_wifi", "create_switch"}

Points == Power!InitPoints \cup Power!SwitchPoints \cup Power!MonitorPoints

WarmInv ==
  /\ pc \in [Power!Tasks -> Points]
  /\ Early => /\ pc["switch"] = "absent"
              /\ get[Switch] = "idle" /\ get[Network] = "idle"
              /\ ~overlap /\ ~warm
  /\ warm => Get!Settled /\ ~overlap

LEMMA WarmInit == Init => WarmInv
<1> SUFFICES ASSUME Init
             PROVE  WarmInv
  OBVIOUS
<1>1. /\ pc = [t \in Power!Tasks |-> IF t = "init" THEN "create_cli" ELSE "absent"]
      /\ overlap = FALSE /\ warm = FALSE
  BY DEF Init, Power!Init, Get!Init
<1>2. get[Switch] = "idle" /\ get[Network] = "idle"
  BY DEF Init, Get!Init, Get!Tasks
<1>3. pc \in [Power!Tasks -> Points] /\ pc["switch"] = "absent"
  BY <1>1 DEF Power!Tasks, Points, Power!InitPoints, Power!SwitchPoints,
       Power!ConstructorPoints, Power!MonitorPoints
<1> QED
  BY <1>1, <1>2, <1>3 DEF WarmInv

LEMMA WarmStep == WarmInv /\ Queue!TypeOK /\ [Next]_vars => WarmInv'
<1> SUFFICES ASSUME WarmInv, Queue!TypeOK, [Next]_vars
             PROVE  WarmInv'
  OBVIOUS
\* A warm firmware stays so: nothing but CreateSwitch changes `warm`.
<1>1. Get!Settled /\ ~overlap => Get!Settled' /\ ~overlap'
  BY QueueStep, Queue!SettledStep, NamesAssumption
     DEF Queue!TasksAssumption, Queue!Tasks, Get!Settled, Queue!Settled,
         Get!Creating, Queue!Creating, Get!Tasks
\* While it boots only cli_task moves, and it does not race with itself.
<1>2. ASSUME NEW t \in {Cli, Network}, InQueue(t) \/ Send(t)
      PROVE  WarmInv'
  <2>1. UNCHANGED <<powerVars, warm>>
    BY <1>2 DEF InQueue, Send
  <2>2. ASSUME Early
        PROVE  /\ get'[Switch] = "idle" /\ get'[Network] = "idle"
               /\ ~overlap'
    <3>1. t = Cli
      BY <1>2, <2>2, NamesAssumption
         DEF InQueue, Send, AtQueue, Power!NetworkRuns, Early
    <3>2. Get!Get(Cli) \/ Get!UseNull(Cli) \/ Get!Send(Cli)
      BY <1>2, <3>1 DEF InQueue, Send
    <3>3. /\ get[Switch] = "idle" /\ get[Network] = "idle" /\ ~overlap
          /\ get \in [Queue!Tasks ->
               {"idle", "test", "create", "store", "return", "use", "assert"}]
      BY <2>2 DEF WarmInv, Queue!TypeOK
    <3> USE DEF Get!CallGet, Get!TestInitialized, Get!CreateQueue,
                Get!StoreHandle, Get!StoreInitialized, Get!ReturnCreated,
                Get!ReturnExisting, Get!UseNull, Get!Send
    <3>4. get'[Switch] = "idle" /\ get'[Network] = "idle"
      BY <3>2, <3>3, NamesAssumption DEF Get!Get, Queue!Tasks
    <3>5. ASSUME NEW u \in Get!Tasks \ {Cli}
          PROVE  ~Get!InGet(u) /\ ~Get!Creating(u)
      BY <3>3 DEF Get!Tasks, Get!InGet, Get!Creating
    <3>6. ASSUME Get!CallGet(Cli)
          PROVE  ~overlap'
      <4>1. ~Get!Creating(Cli)
        BY <3>6 DEF Get!Creating
      <4>2. \A u \in Get!Tasks : ~Get!Creating(u)
        BY <3>5, <4>1
      <4>3. overlap' = (overlap \/ \E u \in Get!Tasks : Get!Creating(u))
        BY <3>6
      <4> QED
        BY <3>3, <4>2, <4>3, Zenon
    <3>7. ASSUME Get!TestInitialized(Cli)
          PROVE  ~overlap'
      <4>1. overlap' = (overlap \/ (~initialized
                          /\ \E u \in Get!Tasks \ {Cli} : Get!InGet(u)))
        BY <3>7
      <4> QED
        BY <3>3, <3>5, <4>1, Zenon
    <3>8. ASSUME ~Get!CallGet(Cli),
                 ~Get!TestInitialized(Cli)
          PROVE  ~overlap'
      BY <3>2, <3>3, <3>8 DEF Get!Get
    <3> QED
      BY <3>4, <3>6, <3>7, <3>8
  <2> QED
    BY <2>1, <2>2, <1>1 DEF WarmInv, Early, powerVars
<1>3. CASE InQueue(Switch) \/ Receive
  <2>1. pc["switch"] = "receive" /\ pc' \in [Power!Tasks -> Points]
        /\ pc'["init"] = pc["init"] /\ warm' = warm
    BY <1>3, NamesAssumption
       DEF WarmInv, InQueue, AtQueue, Receive, Power!TakeUp, Power!Go,
           powerVars, Power!Tasks, Points, Power!InitPoints, Power!SwitchPoints,
       Power!ConstructorPoints, Power!MonitorPoints
  <2>2. ~Early /\ ~Early'
    BY <2>1 DEF WarmInv, Early
  <2> QED
    BY <2>1, <2>2, <1>1 DEF WarmInv
<1>4. CASE InitSteps
  <2>1. /\ UNCHANGED queueVars /\ Power!InitTask
        /\ warm' = IF pc["init"] = "create_switch" THEN Get!Settled ELSE warm
    BY <1>4 DEF InitSteps
  <2>2. overlap' = overlap /\ get' = get /\ (Get!Settled' <=> Get!Settled)
    BY <2>1 DEF queueVars, Get!Settled, Get!Creating
  <2>3. /\ pc' \in [Power!Tasks -> Points]
        /\ Early' => Early /\ pc["init"] # "create_switch"
                     /\ pc'["switch"] = pc["switch"]
    BY <2>1 DEF WarmInv, Early, Power!InitTask, Power!CreateCli,
       Power!CreateWifi, Power!WaitWifi, Power!CreateSwitch,
       Power!CreateNetwork, Power!CreateMonitor, Power!Go,
       Power!Tasks, Points, Power!InitPoints, Power!SwitchPoints,
       Power!ConstructorPoints, Power!MonitorPoints
  <2>4. CASE pc["init"] = "create_switch"
    <3>1. Early /\ ~Early' /\ ~overlap
      BY <2>3, <2>4 DEF Early, WarmInv
    <3>2. warm' => Get!Settled
      BY <2>1, <2>4, Zenon
    <3> QED
      BY <2>2, <2>3, <3>1, <3>2 DEF WarmInv
  <2>5. CASE pc["init"] # "create_switch"
    BY <2>1, <2>2, <2>3, <2>5 DEF WarmInv
  <2> QED
    BY <2>4, <2>5
<1>5. ASSUME UNCHANGED <<queueVars, warm>>,
             \/ Power!WifiUp \/ Power!Tick \/ Power!Press
             \/ \E t \in {"switch", "monitor"} : Power!Construct(t)
      PROVE  WarmInv'
  <2>1. /\ pc' \in [Power!Tasks -> Points] /\ pc'["init"] = pc["init"]
        /\ pc["switch"] = "absent" => pc'["switch"] = "absent"
    BY <1>5 DEF WarmInv, Power!WifiUp, Power!Tick, Power!Press, Power!LedOn,
       Power!SetTrue, Power!LedOff, Power!SetFalse, Power!Construct,
       Power!GpioInit, Power!GpioPut, Power!GpioSetDir, Power!Go,
       Power!Tasks, Points, Power!InitPoints, Power!SwitchPoints,
       Power!ConstructorPoints, Power!MonitorPoints
  <2> QED
    BY <1>1, <1>5, <2>1 DEF WarmInv, Early, queueVars
<1>6. CASE UNCHANGED vars
  BY <1>6 DEF WarmInv, Early, vars, queueVars, powerVars, Get!Settled, Get!Creating
<1> QED
  BY <1>2, <1>3, <1>4, <1>5, <1>6 DEF Next, SwitchSteps, Alone

\* If a get() of cli_task has come back before init_task creates switch_task,
\* the creation of the queue is never raced.
THEOREM WarmBoot == Spec => []WarmBootIsNotRaced
<1>1. Queue!IInv => Queue!TypeOK
  BY DEF Queue!IInv
<1>2. WarmInv => WarmBootIsNotRaced
  BY DEF WarmInv, WarmBootIsNotRaced
<1> QED
  BY QueueInvariance, WarmInit, WarmStep, <1>1, <1>2, PTL DEF Spec
=============================================================================
