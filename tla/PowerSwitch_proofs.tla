-------------------------- MODULE PowerSwitch_proofs --------------------------
(***************************************************************************)
(* Proofs about PowerSwitch, for every set of durations and every queue    *)
(* length, and about Monitor and Status, which add steps that leave its    *)
(* state alone.  The inductive invariant is IInv; its parts say where in   *)
(* the boot sequence each task may exist (BootInv), who may have the pin   *)
(* high or an input (LevelInv, DirInv) and what a press that began after   *)
(* the device settled can rely on (SureInv).                               *)
(*                                                                         *)
(* All of it but the bound of the queue holds wherever the requests come   *)
(* from.  So the steps are split: PinNext are the steps of the tasks with  *)
(* a receive that may return any duration, and PinInv is an invariant of   *)
(* these, which Firmware_proofs uses for a queue it knows nothing about.   *)
(***************************************************************************)
EXTENDS Status, FiniteSetTheorems, TLAPS

pinVars == <<pc, wifi_initd, data, left, dir, level, led, lost, sure>>

PinNext ==
  \/ InitTask
  \/ WifiUp
  \/ \E d \in Durations : TakeUp(d)
  \/ Construct("switch") \/ Press
  \/ Construct("monitor")
  \/ Tick

QueueTypes == queue \in Seq(Durations) /\ Len(queue) <= QueueLength

PinTypes ==
  /\ pc \in [Tasks -> InitPoints \cup SwitchPoints \cup MonitorPoints]
  /\ pc["init"] \in InitPoints
  /\ pc["switch"] \in SwitchPoints
  /\ pc["monitor"] \in MonitorPoints
  /\ wifi_initd \in BOOLEAN
  /\ data \in Nat
  /\ left \in Nat
  /\ dir \in {"in", "out"}
  /\ level \in BOOLEAN
  /\ led \in BOOLEAN
  /\ lost \in Nat
  /\ sure \in BOOLEAN

\* A task exists only once init_task has passed the line that creates it,
\* and no line after the wait is reached without the wifi.
BootInv ==
  /\ pc["init"] \notin {"create_cli", "create_wifi", "wait_wifi"} => wifi_initd
  /\ pc["switch"] # "absent" =>
       pc["init"] \in {"create_network", "create_monitor", "deleted"}
  /\ pc["monitor"] # "absent" => pc["init"] = "deleted"
  /\ led => pc["switch"] # "absent"

\* The output register is high only within a press, and a press that is
\* about to end has no tick left.
LevelInv ==
  /\ level => pc["switch"] \in {"delay", "set_false"}
  /\ pc["switch"] = "set_false" => left = 0

\* The pin is an input only before the first constructor or while one of
\* the two is between its gpio_init and its gpio_set_dir.
DirInv ==
  \/ dir = "out"
  \/ \E t \in {"switch", "monitor"} : pc[t] \in {"gpio_put", "gpio_set_dir"}
  \/ \A t \in {"switch", "monitor"} : pc[t] \in {"absent", "gpio_init"}

\* A press that began after monitor_task built its driver keeps the level
\* high and has lost no tick.
SureInv ==
  sure =>
    /\ pc["monitor"] = "sample"
    /\ pc["switch"] \in {"delay", "set_false"} => level
    /\ lost = 0

PinInv == PinTypes /\ BootInv /\ LevelInv /\ DirInv /\ SureInv

IInv == QueueTypes /\ PinInv

-----------------------------------------------------------------------------
LEMMA TypeParts == TypeOK <=> QueueTypes /\ PinTypes
  BY DEF TypeOK, QueueTypes, PinTypes

LEMMA PinInit == Init => PinInv
<1> SUFFICES ASSUME Init
             PROVE  PinInv
  OBVIOUS
<1>1. PinTypes
  BY DEF Init, PinTypes, Tasks, InitPoints, SwitchPoints, MonitorPoints,
         ConstructorPoints
<1>2. BootInv /\ LevelInv /\ DirInv /\ SureInv
  BY DEF Init, BootInv, LevelInv, DirInv, SureInv, Tasks
<1> QED
  BY <1>1, <1>2 DEF PinInv

LEMMA QueueInit == Init => QueueTypes
  BY QueueLengthAssumption DEF Init, QueueTypes

LEMMA QueueStep == QueueTypes /\ [Next]_vars => QueueTypes'
<1> SUFFICES ASSUME QueueTypes, [Next]_vars
             PROVE  QueueTypes'
  OBVIOUS
<1> USE DEF QueueTypes
<1>1. ASSUME NEW d \in Durations, SendToBack(d)
      PROVE  QueueTypes'
  BY <1>1, QueueLengthAssumption DEF SendToBack
<1>2. CASE Receive
  BY <1>2, QueueLengthAssumption DEF Receive
<1>3. CASE UNCHANGED queue
  BY <1>3
<1>4. InitTask \/ WifiUp \/ Tick \/ Press => UNCHANGED queue
  BY DEF InitTask, CreateCli, CreateWifi, WaitWifi, CreateSwitch,
         CreateNetwork, CreateMonitor, OnlyPc, WifiUp, Tick, Press, LedOn,
         SetTrue, LedOff, SetFalse
<1>5. \A t \in {"switch", "monitor"} : Construct(t) => UNCHANGED queue
  BY DEF Construct, GpioInit, GpioPut, GpioSetDir
<1> QED
  BY <1>1, <1>2, <1>3, <1>4, <1>5
     DEF Next, CliToggle, NetworkToggle, SwitchTask, vars

\* The senders do nothing but send, and a receive returns some duration.
LEMMA NextIsPinNext == QueueTypes /\ [Next]_vars => [PinNext]_pinVars
<1> SUFFICES ASSUME QueueTypes, [Next]_vars
             PROVE  PinNext \/ UNCHANGED pinVars
  OBVIOUS
<1>1. ASSUME Receive
      PROVE  \E d \in Durations : TakeUp(d)
  <2>1. Head(queue) \in Durations
    BY <1>1 DEF Receive, QueueTypes
  <2> QED
    BY <1>1, <2>1 DEF Receive
<1>2. ASSUME NEW d \in Durations, CliToggle(d) \/ NetworkToggle(d)
      PROVE  UNCHANGED pinVars
  BY <1>2 DEF CliToggle, NetworkToggle, SendToBack, pinVars
<1> QED
  BY <1>1, <1>2 DEF Next, SwitchTask, PinNext, vars, pinVars

-----------------------------------------------------------------------------
(* The inductive invariant                                                 *)

LEMMA TypeStep == PinTypes /\ [PinNext]_pinVars => PinTypes'
<1> SUFFICES ASSUME PinTypes, [PinNext]_pinVars
             PROVE  PinTypes'
  OBVIOUS
<1> USE DEF PinTypes, Tasks, InitPoints, SwitchPoints, MonitorPoints,
            ConstructorPoints, Go, OnlyPc
<1>1. CASE InitTask
  BY <1>1 DEF InitTask, CreateCli, CreateWifi, WaitWifi, CreateSwitch,
              CreateNetwork, CreateMonitor
<1>2. CASE WifiUp
  BY <1>2 DEF WifiUp
<1>3. ASSUME NEW d \in Durations, TakeUp(d)
      PROVE  PinTypes'
  BY <1>3, DurationsAssumption DEF TakeUp
<1>4. ASSUME NEW t \in {"switch", "monitor"}, Construct(t)
      PROVE  PinTypes'
  <2>1. CASE GpioInit(t)
    BY <2>1 DEF GpioInit
  <2>2. CASE GpioPut(t)
    BY <2>2 DEF GpioPut
  <2>3. CASE GpioSetDir(t)
    BY <2>3 DEF GpioSetDir
  <2> QED
    BY <1>4, <2>1, <2>2, <2>3 DEF Construct
<1>5. CASE LedOn
  BY <1>5 DEF LedOn
<1>6. CASE SetTrue
  BY <1>6 DEF SetTrue
<1>7. CASE LedOff
  BY <1>7 DEF LedOff
<1>8. CASE SetFalse
  BY <1>8 DEF SetFalse
<1>9. CASE Tick
  <2>1. left' \in Nat /\ lost' \in Nat
    BY <1>9 DEF Tick
  <2> QED
    BY <1>9, <2>1 DEF Tick
<1>10. CASE UNCHANGED pinVars
  BY <1>10 DEF pinVars
<1> QED
  BY <1>1, <1>2, <1>3, <1>4, <1>5, <1>6, <1>7, <1>8, <1>9, <1>10
     DEF PinNext, Press

LEMMA BootStep == PinInv /\ [PinNext]_pinVars => BootInv'
<1> SUFFICES ASSUME PinInv, [PinNext]_pinVars
             PROVE  BootInv'
  OBVIOUS
<1> USE DEF PinInv, PinTypes, BootInv, Tasks, Go, OnlyPc
<1>1. CASE InitTask
  BY <1>1 DEF InitTask, CreateCli, CreateWifi, WaitWifi, CreateSwitch,
              CreateNetwork, CreateMonitor
<1>2. CASE WifiUp
  BY <1>2 DEF WifiUp
<1>3. ASSUME NEW d \in Durations, TakeUp(d)
      PROVE  BootInv'
  BY <1>3 DEF TakeUp
<1>4. ASSUME NEW t \in {"switch", "monitor"}, Construct(t)
      PROVE  BootInv'
  BY <1>4 DEF Construct, GpioInit, GpioPut, GpioSetDir
<1>5. CASE SetTrue \/ SetFalse \/ Tick
  BY <1>5 DEF SetTrue, SetFalse, Tick
<1>6. CASE LedOn
  BY <1>6 DEF LedOn
<1>7. CASE LedOff
  BY <1>7 DEF LedOff
<1>8. CASE UNCHANGED pinVars
  BY <1>8 DEF pinVars
<1> QED
  BY <1>1, <1>2, <1>3, <1>4, <1>5, <1>6, <1>7, <1>8 DEF PinNext, Press

LEMMA LevelStep == PinInv /\ [PinNext]_pinVars => LevelInv'
<1> SUFFICES ASSUME PinInv, [PinNext]_pinVars
             PROVE  LevelInv'
  OBVIOUS
<1> USE DEF PinInv, PinTypes, LevelInv, Tasks, Go, OnlyPc
<1>1. CASE InitTask
  BY <1>1 DEF InitTask, CreateCli, CreateWifi, WaitWifi, CreateSwitch,
              CreateNetwork, CreateMonitor, BootInv
<1>2. CASE WifiUp
  BY <1>2 DEF WifiUp
<1>3. ASSUME NEW d \in Durations, TakeUp(d)
      PROVE  LevelInv'
  BY <1>3 DEF TakeUp
<1>4. ASSUME NEW t \in {"switch", "monitor"}, Construct(t)
      PROVE  LevelInv'
  BY <1>4 DEF Construct, GpioInit, GpioPut, GpioSetDir
<1>5. CASE LedOn \/ LedOff \/ SetFalse
  BY <1>5 DEF LedOn, LedOff, SetFalse
<1>6. CASE SetTrue
  BY <1>6 DEF SetTrue
<1>7. CASE Tick
  BY <1>7 DEF Tick
<1>8. CASE UNCHANGED pinVars
  BY <1>8 DEF pinVars
<1> QED
  BY <1>1, <1>2, <1>3, <1>4, <1>5, <1>6, <1>7, <1>8 DEF PinNext, Press

LEMMA DirStep == PinInv /\ [PinNext]_pinVars => DirInv'
<1> SUFFICES ASSUME PinInv, [PinNext]_pinVars
             PROVE  DirInv'
  OBVIOUS
<1> USE DEF PinInv, PinTypes, DirInv, Tasks, Go, OnlyPc
<1>1. CASE InitTask
  BY <1>1 DEF InitTask, CreateCli, CreateWifi, WaitWifi, CreateSwitch,
              CreateNetwork, CreateMonitor, BootInv
<1>2. CASE WifiUp
  BY <1>2 DEF WifiUp
<1>3. ASSUME NEW d \in Durations, TakeUp(d)
      PROVE  DirInv'
  BY <1>3 DEF TakeUp
<1>4. ASSUME NEW t \in {"switch", "monitor"}, Construct(t)
      PROVE  DirInv'
  BY <1>4 DEF Construct, GpioInit, GpioPut, GpioSetDir
<1>5. CASE LedOn \/ SetTrue \/ LedOff \/ SetFalse
  BY <1>5 DEF LedOn, SetTrue, LedOff, SetFalse
<1>6. CASE Tick
  BY <1>6 DEF Tick
<1>7. CASE UNCHANGED pinVars
  BY <1>7 DEF pinVars
<1> QED
  BY <1>1, <1>2, <1>3, <1>4, <1>5, <1>6, <1>7 DEF PinNext, Press

LEMMA SureStep == PinInv /\ [PinNext]_pinVars => SureInv'
<1> SUFFICES ASSUME PinInv, [PinNext]_pinVars
             PROVE  SureInv'
  OBVIOUS
<1> USE DEF PinInv, PinTypes, SureInv, Tasks, Go, OnlyPc
<1>1. CASE InitTask
  BY <1>1 DEF InitTask, CreateCli, CreateWifi, WaitWifi, CreateSwitch,
              CreateNetwork, CreateMonitor, BootInv
<1>2. CASE WifiUp
  BY <1>2 DEF WifiUp
<1>3. ASSUME NEW d \in Durations, TakeUp(d)
      PROVE  SureInv'
  BY <1>3 DEF TakeUp
<1>4. ASSUME NEW t \in {"switch", "monitor"}, Construct(t)
      PROVE  SureInv'
  BY <1>4 DEF Construct, GpioInit, GpioPut, GpioSetDir
<1>5. CASE LedOn \/ SetTrue \/ LedOff \/ SetFalse
  BY <1>5 DEF LedOn, SetTrue, LedOff, SetFalse
<1>6. CASE Tick
  BY <1>6 DEF Tick, Driven, DirInv
<1>7. CASE UNCHANGED pinVars
  BY <1>7 DEF pinVars
<1> QED
  BY <1>1, <1>2, <1>3, <1>4, <1>5, <1>6, <1>7 DEF PinNext, Press

LEMMA PinStep == PinInv /\ [PinNext]_pinVars => PinInv'
  BY TypeStep, BootStep, LevelStep, DirStep, SureStep DEF PinInv

LEMMA Invariance == Spec => []IInv
<1>1. Init => IInv
  BY PinInit, QueueInit DEF IInv
<1>2. IInv /\ [Next]_vars => IInv'
  BY NextIsPinNext, PinStep, QueueStep DEF IInv
<1> QED
  BY <1>1, <1>2, PTL DEF Spec

-----------------------------------------------------------------------------
(* What follows from it                                                    *)

\* The variables of the model keep their types; the queue never exceeds its
\* length.
THEOREM TypeCorrect == Spec => []TypeOK
<1>1. IInv => TypeOK
  BY TypeParts DEF IInv, PinInv
<1> QED
  BY Invariance, <1>1, PTL

LEMMA PinFacts ==
  PinInv => /\ ReleasedBetweenPresses /\ SettledPressIsWhole
            /\ PinIsOutput /\ LedNeedsWifi
<1> SUFFICES ASSUME PinInv
             PROVE  /\ ReleasedBetweenPresses /\ SettledPressIsWhole
                    /\ PinIsOutput /\ LedNeedsWifi
  OBVIOUS
<1> USE DEF PinInv
<1>1. ReleasedBetweenPresses
  BY DEF LevelInv, ReleasedBetweenPresses, Driven, Pressing
<1>2. SettledPressIsWhole
  BY DEF SureInv, DirInv, SettledPressIsWhole, Driven
<1>3. PinIsOutput
  BY DEF DirInv, PinIsOutput, ConstructorPoints
<1>4. LedNeedsWifi
  BY DEF BootInv, LedNeedsWifi
<1> QED
  BY <1>1, <1>2, <1>3, <1>4

\* The button is up whenever switch_task is not carrying out a request,
\* wherever the two constructors of the pin's drivers have been preempted.
THEOREM Released == Spec => []ReleasedBetweenPresses
  BY Invariance, PinFacts, PTL DEF IInv

\* A press that began after monitor_task built its driver object is never
\* cut: the pin is driven for every tick of it.
THEOREM Whole == Spec => []SettledPressIsWhole
  BY Invariance, PinFacts, PTL DEF IInv

\* When both constructors are through the pin is an output, whatever the
\* order of their statements was.
THEOREM Output == Spec => []PinIsOutput
  BY Invariance, PinFacts, PTL DEF IInv

\* The LED behind the wifi chip is switched only once the chip is up.
THEOREM LedAfterWifi == Spec => []LedNeedsWifi
  BY Invariance, PinFacts, PTL DEF IInv

-----------------------------------------------------------------------------
(* The firmware implements Button                                          *)

LEMMA PromiseInit == Init => Promise!Init
BY DEF Init, Promise!Init, Pressing, Driven, settled, Tasks

LEMMA PromiseStep == IInv /\ [Next]_vars => [Promise!Next]_(Promise!vars)
<1> SUFFICES ASSUME IInv, [Next]_vars
             PROVE  Promise!Next \/ UNCHANGED Promise!vars
  OBVIOUS
<1> USE DEF IInv, QueueTypes, PinInv, PinTypes, Tasks, Go, OnlyPc, TakeUp,
            Promise!vars, Pressing,
            Driven, settled
\* Creating tasks and bringing the wifi up is not seen from outside.
<1>1. CASE InitTask
  BY <1>1 DEF InitTask, CreateCli, CreateWifi, WaitWifi, CreateSwitch,
              CreateNetwork, CreateMonitor, BootInv
<1>2. CASE WifiUp
  BY <1>2 DEF WifiUp
<1>3. ASSUME NEW d \in Durations, CliToggle(d) \/ NetworkToggle(d)
      PROVE  Promise!Accept \/ UNCHANGED Promise!vars
  BY <1>3 DEF CliToggle, NetworkToggle, SendToBack, Promise!Accept
\* While switch_task is in its own constructor the pin is low already.
<1>4. CASE Construct("switch")
  BY <1>4 DEF Construct, GpioInit, GpioPut, GpioSetDir, LevelInv
\* monitor_task's constructor is the disturbance the promise allows.
<1>5. ASSUME Construct("monitor")
      PROVE  Promise!Disturb
  <2>1. pc["monitor"] # "sample" /\ (pc["monitor"] = "sample")' \in BOOLEAN
    BY <1>5 DEF Construct, GpioInit, GpioPut, GpioSetDir
  <2>2. pc'["switch"] = pc["switch"]
    BY <1>5 DEF Construct, GpioInit, GpioPut, GpioSetDir
  <2>3. /\ UNCHANGED <<queue, data, left, sure>>
        /\ level' => level
    BY <1>5 DEF Construct, GpioInit, GpioPut, GpioSetDir
  <2>4. ~Pressing => ~Driven'
    BY <2>3 DEF LevelInv
  <2>5. Driven' \in BOOLEAN
    BY <1>5 DEF Construct, GpioInit, GpioPut, GpioSetDir
  <2> QED
    BY <2>1, <2>2, <2>3, <2>4, <2>5, DurationsAssumption DEF Promise!Disturb
<1>6. ASSUME Receive
      PROVE  Promise!Take
  BY <1>6 DEF Receive, Promise!Take
<1>7. CASE LedOn
  BY <1>7 DEF LedOn
<1>8. ASSUME SetTrue
      PROVE  Promise!Push
  <2>1. sure => Driven'
    BY <1>8 DEF SetTrue, SureInv, DirInv
  <2>2. Driven' \in BOOLEAN
    BY <1>8 DEF SetTrue
  <2>3. data # NoPress
    BY DurationsAssumption
  <2> QED
    BY <1>8, <2>1, <2>2, <2>3 DEF SetTrue, Promise!Push
<1>9. ASSUME Tick
      PROVE  Promise!Hold
  BY <1>9, DurationsAssumption DEF Tick, Promise!Hold, SureInv, DirInv
<1>10. CASE LedOff
  BY <1>10 DEF LedOff
<1>11. ASSUME SetFalse
       PROVE  Promise!Release
  BY <1>11, DurationsAssumption DEF SetFalse, Promise!Release, SureInv, DirInv,
                                    LevelInv
<1>12. CASE UNCHANGED vars
  BY <1>12 DEF vars
<1> QED
  BY <1>1, <1>2, <1>3, <1>4, <1>5, <1>6, <1>7, <1>8, <1>9, <1>10, <1>11, <1>12
     DEF Next, SwitchTask, Press, Promise!Next

\* Seen from outside, every behaviour of the firmware is one the promise of
\* Button allows.
THEOREM KeepsPromise == Spec => ButtonPromise
<1> USE DEF ButtonPromise, Promise!Spec
<1> QED
  BY Invariance, PromiseInit, PromiseStep, PTL DEF Spec

-----------------------------------------------------------------------------
(* The sampling loop of monitor_task                                       *)

LEMMA SenseTypeStep == SenseTypeOK /\ [MonitorNext]_allVars => SenseTypeOK'
<1> SUFFICES ASSUME SenseTypeOK, [MonitorNext]_allVars
             PROVE  SenseTypeOK'
  OBVIOUS
<1> USE DEF SenseTypeOK, senseVars
<1>1. CASE UNCHANGED senseVars
  BY <1>1
<1>2. CASE GpioGet
  BY <1>2 DEF GpioGet
<1>3. CASE StoreState
  BY <1>3 DEF StoreState
<1>4. CASE Delay
  BY <1>4 DEF Delay
<1>5. CASE PowerChanges
  BY <1>5 DEF PowerChanges
<1> QED
  BY <1>1, <1>2, <1>3, <1>4, <1>5 DEF MonitorNext, Sample, allVars

\* What monitor_task reads, keeps and publishes is a Boolean throughout.
THEOREM SenseTypeCorrect == MonitorSpec => []SenseTypeOK
<1>1. MonitorInit => SenseTypeOK
  BY DEF MonitorInit, SenseTypeOK
<1> QED
  BY <1>1, SenseTypeStep, PTL DEF MonitorSpec

\* With its sampling loop the firmware is still an instance of PowerSwitch:
\* no step of the loop touches the pin, the queue or another task.
THEOREM SamplingIsInvisible == MonitorSpec => Spec
<1>1. MonitorInit => Init
  BY DEF MonitorInit
<1>2. [MonitorNext]_allVars => [Next]_vars
  BY DEF MonitorNext, Sample, GpioGet, StoreState, Delay, PowerChanges, allVars
<1> QED
  BY <1>1, <1>2, PTL DEF MonitorSpec, Spec

\* So the promise about the button holds of the firmware with monitor_task
\* in full.
THEOREM MonitoredKeepsPromise == MonitorSpec => ButtonPromise
  BY SamplingIsInvisible, KeepsPromise

-----------------------------------------------------------------------------
(* The status command                                                      *)

LEMMA StatusStep == [StatusNext]_everyVar => [Next]_vars
<1>1. [MonitorNext]_allVars => [Next]_vars
  BY DEF MonitorNext, Sample, GpioGet, StoreState, Delay, PowerChanges, allVars
<1>2. EnableSta \/ Reap \/ Count \/ List \/ UNCHANGED everyVar
        => UNCHANGED allVars
  BY DEF EnableSta, Reap, Count, List, everyVar
<1> QED
  BY <1>1, <1>2 DEF StatusNext

\* With the status command the firmware is still an instance of PowerSwitch.
LEMMA StatusIsInvisible == StatusSpec => Spec
<1>1. StatusInit => Init
  BY DEF StatusInit, MonitorInit
<1> QED
  BY <1>1, StatusStep, PTL DEF StatusSpec, Spec

\* The converse of BootInv: the tasks that init_task has passed exist.
CreatedInv ==
  /\ pc["init"] \in {"create_network", "create_monitor", "deleted"} =>
       pc["switch"] # "absent"
  /\ pc["init"] = "deleted" => pc["monitor"] # "absent"

\* Once init_task has been freed the set of tasks is settled, and so is what
\* a status under way has counted.
StatusInv ==
  /\ CreatedInv
  /\ wifi_initd => netif
  /\ reaped => pc["init"] = "deleted"
  /\ calm /\ counted # 0 =>
       reaped /\ interface /\ counted = Cardinality(Existing)

Settled == {"pcrb_cli", "pcrb_wifi", "pcrb_switch", "pcrb_network", "pcrb_monitor"}

LEMMA ExistingSettled ==
  ASSUME CreatedInv, reaped, pc["init"] = "deleted"
  PROVE  Existing = Settled
  BY DEF CreatedInv, Existing, Names, Settled, CliRuns, WifiTaskRuns, NetworkRuns

LEMMA ExistingIsFinite ==
  Cardinality(Existing) \in Nat /\ Cardinality(Settled) \in Nat \ {0}
<1>1. ASSUME NEW a, NEW b, NEW c, NEW d, NEW e, NEW f
      PROVE  /\ IsFiniteSet({a, b, c, d, e, f})
             /\ \A S \in SUBSET {a, b, c, d, e, f} : IsFiniteSet(S)
  <2>1. IsFiniteSet({a})
    BY FS_Singleton
  <2>2. IsFiniteSet({a} \cup {b})
    BY <2>1, FS_AddElement
  <2>3. IsFiniteSet(({a} \cup {b}) \cup {c})
    BY <2>2, FS_AddElement
  <2>4. IsFiniteSet((({a} \cup {b}) \cup {c}) \cup {d})
    BY <2>3, FS_AddElement
  <2>5. IsFiniteSet(((({a} \cup {b}) \cup {c}) \cup {d}) \cup {e})
    BY <2>4, FS_AddElement
  <2>6. IsFiniteSet((((({a} \cup {b}) \cup {c}) \cup {d}) \cup {e}) \cup {f})
    BY <2>5, FS_AddElement
  <2>7. (((({a} \cup {b}) \cup {c}) \cup {d}) \cup {e}) \cup {f}
          = {a, b, c, d, e, f}
    OBVIOUS
  <2>8. IsFiniteSet({a, b, c, d, e, f})
    BY <2>6, <2>7
  <2> QED
    BY <2>8, FS_Subset
<1>2. Existing \in SUBSET Names /\ Settled \in SUBSET Names /\ Settled # {}
  BY DEF Existing, Names, Settled
<1>3. IsFiniteSet(Existing) /\ IsFiniteSet(Settled)
  BY <1>1, <1>2 DEF Names
<1> QED
  BY <1>2, <1>3, FS_CardinalityType, FS_EmptySet

LEMMA CreatedStep == TypeOK /\ CreatedInv /\ [Next]_vars => CreatedInv'
<1> SUFFICES ASSUME TypeOK, CreatedInv, [Next]_vars
             PROVE  CreatedInv'
  OBVIOUS
<1> USE DEF TypeOK, CreatedInv, Tasks, Go, OnlyPc, TakeUp
<1>1. CASE InitTask
  BY <1>1 DEF InitTask, CreateCli, CreateWifi, WaitWifi, CreateSwitch,
              CreateNetwork, CreateMonitor
<1>2. CASE UNCHANGED pc
  BY <1>2
<1>3. ASSUME NEW t \in {"switch", "monitor"}, Construct(t)
      PROVE  CreatedInv'
  BY <1>3 DEF Construct, GpioInit, GpioPut, GpioSetDir
<1>4. CASE Receive \/ Press
  BY <1>4 DEF Receive, Press, LedOn, SetTrue, LedOff, SetFalse
<1> QED
  BY <1>1, <1>2, <1>3, <1>4 DEF Next, WifiUp, CliToggle, NetworkToggle,
     SendToBack, SwitchTask, Tick, vars

LEMMA StatusInvStep ==
  TypeOK /\ BootInv /\ StatusInv /\ [StatusNext]_everyVar => StatusInv'
<1> SUFFICES ASSUME TypeOK, BootInv, StatusInv, [StatusNext]_everyVar
             PROVE  StatusInv'
  OBVIOUS
<1>1. CreatedInv'
  BY StatusStep, CreatedStep DEF StatusInv
\* init_task does nothing once it has deleted itself.
<1>2. pc["init"] = "deleted" => pc'["init"] = "deleted"
  <2>1. [Next]_vars
    BY StatusStep
  <2> USE DEF TypeOK, Tasks, Go, OnlyPc, TakeUp
  <2>2. ASSUME NEW t \in {"switch", "monitor"}, Construct(t)
        PROVE  pc'["init"] = pc["init"]
    BY <2>2 DEF Construct, GpioInit, GpioPut, GpioSetDir
  <2>3. CASE InitTask
    BY <2>3 DEF InitTask, CreateCli, CreateWifi, WaitWifi, CreateSwitch,
                CreateNetwork, CreateMonitor
  <2>4. CASE Receive \/ Press
    BY <2>4 DEF Receive, Press, LedOn, SetTrue, LedOff, SetFalse
  <2> QED
    BY <2>1, <2>2, <2>3, <2>4 DEF Next, WifiUp, CliToggle, NetworkToggle,
       SendToBack, SwitchTask, Tick, vars
<1>3. CASE MonitorNext /\ (wifi_initd' => netif) /\ UNCHANGED statusVars
  <2>1. /\ reaped' = reaped /\ calm' = calm /\ counted' = counted
        /\ interface' = interface /\ netif' = netif /\ (wifi_initd' => netif')
    BY <1>3 DEF statusVars
  <2>2. ASSUME reaped
        PROVE  Existing' = Existing
    <3>1. Existing = Settled
      BY <2>2, ExistingSettled DEF StatusInv
    <3>2. Existing' = Settled
      BY <2>1, <2>2, <1>1, <1>2 DEF StatusInv, CreatedInv, Existing, Names,
         Settled, CliRuns, WifiTaskRuns, NetworkRuns
    <3> QED
      BY <3>1, <3>2
  <2> QED
    BY <2>1, <2>2, <1>1, <1>2 DEF StatusInv
<1>4. CASE EnableSta
  <2>1. /\ pc' = pc /\ wifi_initd' = wifi_initd /\ reaped' = reaped
        /\ counted' = counted /\ interface' = interface /\ calm' = calm
    BY <1>4 DEF EnableSta, allVars, vars
  <2>2. Existing' = Existing
    BY <2>1 DEF Existing, CliRuns, WifiTaskRuns, NetworkRuns
  <2>3. netif'
    BY <1>4 DEF EnableSta
  <2> QED
    BY <2>1, <2>2, <2>3, <1>1 DEF StatusInv
<1>5. CASE List
  <2>1. /\ pc' = pc /\ wifi_initd' = wifi_initd /\ reaped' = reaped
        /\ netif' = netif /\ counted' = 0
    BY <1>5 DEF List, allVars, vars
  <2> QED
    BY <2>1, <1>1 DEF StatusInv
<1>6. CASE Reap
  <2>1. /\ pc["init"] = "deleted" /\ ~reaped /\ UNCHANGED <<pc, wifi_initd>>
        /\ netif' = netif /\ calm' = calm /\ counted' = counted
    BY <1>6 DEF Reap, allVars, vars
  <2> QED
    BY <2>1, <1>1 DEF StatusInv
<1>7. CASE Count
  <2>1. /\ interface' = netif /\ calm' = reaped
        /\ counted' = Cardinality(Existing)
        /\ UNCHANGED <<pc, wifi_initd, netif, reaped>>
    BY <1>7 DEF Count, allVars, vars
  <2>2. Existing' = Existing
    BY <2>1 DEF Existing, CliRuns, WifiTaskRuns, NetworkRuns
  <2>3. calm' => reaped' /\ interface'
    <3>1. reaped => netif
      BY DEF StatusInv, BootInv
    <3> QED
      BY <2>1, <3>1, Zenon
  <2> QED
    BY <2>1, <2>2, <2>3, <1>1 DEF StatusInv
<1>8. CASE UNCHANGED everyVar
  BY <1>1, <1>8 DEF StatusInv, everyVar, statusVars, allVars, vars, Existing,
     CliRuns, WifiTaskRuns, NetworkRuns
<1> QED
  BY <1>3, <1>4, <1>6, <1>7, <1>8, <1>5 DEF StatusNext

\* A status that begins after the boot shows the interface and every task.
THEOREM StatusRight == StatusSpec => StatusAfterBootIsRight
<1> DEFINE Right ==
      List /\ calm =>
        /\ interface
        /\ Filled = Existing /\ counted = Cardinality(Filled)
<1>1. StatusInit => StatusInv
  BY DEF StatusInit, MonitorInit, Init, Tasks, StatusInv, CreatedInv
<1>2. StatusInv => Right
  <2> SUFFICES ASSUME StatusInv, List, calm
               PROVE  /\ interface
                      /\ Filled = Existing /\ counted = Cardinality(Filled)
    OBVIOUS
  <2>1. counted # 0
    BY DEF List
  <2>2. interface /\ counted = Cardinality(Existing)
    BY <2>1 DEF StatusInv
  <2>3. Filled = Existing
    BY <2>2, ExistingIsFinite DEF Filled
  <2> QED
    BY <2>2, <2>3
<1>3. StatusSpec => []StatusInv
  <2>1. IInv => TypeOK /\ BootInv
    BY TypeParts DEF IInv, PinInv
  <2> QED
    BY <1>1, <2>1, StatusIsInvisible, Invariance, StatusInvStep, PTL
       DEF StatusSpec
<1> QED
  BY <1>2, <1>3, PTL DEF StatusSpec, StatusAfterBootIsRight
=============================================================================
