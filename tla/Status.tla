-------------------------------- MODULE Status --------------------------------
(***************************************************************************)
(* The `status` command (cli_task.cpp:64-102), which cli_task runs beside  *)
(* the boot and everything else: it prints the default network interface,  *)
(* counts the tasks, makes an array of that size, has the kernel fill it,  *)
(* and prints its entries.  The command line works from the start, while   *)
(* the interface comes with the wifi chip, and init_task goes on creating  *)
(* tasks, and deletes itself, between any two of these steps.              *)
(*                                                                         *)
(* The other tasks are Monitor's.  Of a task's entry its presence is kept; *)
(* the numbers status prints besides are left out, and so are the tasks    *)
(* that are there all the time (the kernel's, USB, the watchdogs).         *)
(*                                                                         *)
(* A definition marked "Slip" is the next one with a plausible mistake in  *)
(* it; no specification uses it.  The README says which property notices.  *)
(***************************************************************************)
EXTENDS Monitor, FiniteSets

VARIABLES
  netif,      \* netif_default and netif_list are not null
  reaped,     \* the idle task has freed what is left of init_task
  counted,    \* number_of_tasks of the status under way, 0 if there is none
  interface,  \* what it has printed of the interface is the interface
  calm        \* history: the boot was over when it began

statusVars == <<netif, reaped, counted, interface, calm>>

everyVar == <<allVars, statusVars>>

Names == {"pcrb_init", "pcrb_cli", "pcrb_wifi", "pcrb_switch", "pcrb_network",
          "pcrb_monitor"}

\* The tasks the kernel counts; one that has deleted itself is counted until
\* it has been freed.
Existing ==
  {t \in Names :
     /\ t = "pcrb_init"    => ~reaped
     /\ t = "pcrb_cli"     => CliRuns
     /\ t = "pcrb_wifi"    => WifiTaskRuns
     /\ t = "pcrb_switch"  => pc["switch"] # "absent"
     /\ t = "pcrb_network" => NetworkRuns
     /\ t = "pcrb_monitor" => pc["monitor"] # "absent"}

StatusInit ==
  /\ MonitorInit
  /\ netif = FALSE
  /\ reaped = FALSE
  /\ counted = 0
  /\ interface = FALSE
  /\ calm = FALSE

-----------------------------------------------------------------------------
\* cyw43_arch_enable_sta_mode adds the interface and makes it the default,
\* before the first attempt to connect.
EnableSta ==
  /\ WifiTaskRuns /\ ~netif
  /\ netif' = TRUE
  /\ UNCHANGED <<allVars, reaped, counted, interface, calm>>

\* The idle task's prvCheckTasksWaitingTermination
Reap ==
  /\ pc["init"] = "deleted" /\ ~reaped
  /\ reaped' = TRUE
  /\ UNCHANGED <<allVars, netif, counted, interface, calm>>

\* Slip: the array has no place for the task that asks.
CountOthers ==
  /\ CliRuns /\ counted = 0
  /\ interface' = netif
  /\ counted' = Cardinality(Existing) - 1
  /\ calm' = reaped
  /\ UNCHANGED <<allVars, netif, reaped>>

\* The interface is used without a look at whether it is there; address 0 is
\* the ROM, so a null one prints garbage and faults nowhere.  Then follows
\* uxTaskGetNumberOfTasks() and a vector of that many cleared entries.  The
\* two can be one step: what happens between them takes neither away.
Count ==
  /\ CliRuns /\ counted = 0
  /\ interface' = netif
  /\ counted' = Cardinality(Existing)
  /\ calm' = reaped
  /\ UNCHANGED <<allVars, netif, reaped>>

\* uxTaskGetSystemState fills nothing if there are more tasks than entries,
\* and leaves the last entries clear if there are fewer.
Filled == IF Cardinality(Existing) > counted THEN {} ELSE Existing

\* All entries are printed: the number filled, the result of the call, is
\* not used.  The next command may begin.
List ==
  /\ counted # 0
  /\ counted' = 0
  /\ interface' = FALSE
  /\ calm' = FALSE
  /\ UNCHANGED <<allVars, netif, reaped>>

\* The wifi comes up on an interface.  (A toggle typed during a status waits
\* for its end; it is left possible here, as the two have nothing in common.)
StatusNext ==
  \/ MonitorNext /\ (wifi_initd' => netif) /\ UNCHANGED statusVars
  \/ EnableSta \/ Reap
  \/ Count \/ List

StatusSpec == StatusInit /\ [][StatusNext]_everyVar

\* As in Monitor; the chip comes up too.
StatusFairSpec ==
  /\ StatusSpec
  /\ WF_vars(InitTask)
  /\ WF_vars(WifiUp /\ netif)
  /\ WF_vars(SwitchTask)
  /\ WF_vars(Construct("monitor"))
  /\ WF_vars(Tick)
  /\ WF_allVars(Sample)
  /\ WF_everyVar(EnableSta)

-----------------------------------------------------------------------------
\* A status that begins after init_task is gone shows the interface and all
\* tasks that exist, once each and nothing else.  While the device boots
\* none of that is so: the interface may be garbage, the list without a
\* single task, or with an entry whose name is a null pointer.
StatusAfterBootIsRight ==
  [][List /\ calm =>
       /\ interface
       /\ Filled = Existing /\ counted = Cardinality(Filled)]_everyVar
=============================================================================
