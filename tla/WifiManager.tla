----------------------------- MODULE WifiManager -----------------------------
(***************************************************************************)
(* wifi_management_task (firmware/src/wifi_management_task.cpp): bring up  *)
(* the wifi chip, connect, tell init_task, and from then on look once a    *)
(* second whether the link is still there and connect again if not.        *)
(*                                                                         *)
(* The driver and the access point are external: the status the driver     *)
(* reports and the flag of the interface may each change by themselves, to *)
(* whatever value, between any two steps of the task, so what the task has *)
(* read may be stale when it acts.  A connection attempt fails any number  *)
(* of times, each failure costing up to ten of the loop's periods;         *)
(* `behind` counts how many of them vTaskDelayUntil has still to catch up  *)
(* with, up to MaxBehind.                                                  *)
(*                                                                         *)
(* A definition marked "Slip" is the next one with a plausible mistake in  *)
(* it; no specification uses it.  The README says which property notices.  *)
(***************************************************************************)
EXTENDS Naturals

CONSTANT MaxBehind  \* where the count of missed periods saturates

ASSUME MaxBehindAssumption == MaxBehind \in Nat \ {0}

\* cyw43_wifi_link_status: CYW43_LINK_DOWN, CYW43_LINK_JOIN, or an error
Status == {"down", "join", "error"}

VARIABLES
  pc,             \* the next step of the task
  wifi_initd,     \* read by init_task
  link,           \* what cyw43_wifi_link_status returns
  flag,           \* NETIF_FLAG_LINK_UP of netif_default
  current_state,  \* the status read in this round
  behind,         \* periods by which `last` lags behind the tick count
  lost            \* history: what fell since the task looked at it, or connected

vars == <<pc, wifi_initd, link, flag, current_state, behind, lost>>

Good == link = "join" /\ flag

TypeOK ==
  /\ pc \in {"init_chip", "connect", "announce", "check_status", "check_flag",
             "leave", "reconnect", "delay"}
  /\ wifi_initd \in BOOLEAN
  /\ link \in Status
  /\ flag \in BOOLEAN
  /\ current_state \in Status
  /\ behind \in 0..MaxBehind
  /\ lost \subseteq {"link", "flag"}

Init ==
  /\ pc = "init_chip"
  /\ wifi_initd = FALSE
  /\ link = "down"
  /\ flag = FALSE
  /\ current_state = "down"
  /\ behind = 0
  /\ lost = {}

-----------------------------------------------------------------------------
(* The driver and the access point                                         *)

\* What goes from good to bad.
Falls ==
  {part \in {"link", "flag"} :
     \/ part = "link" /\ link = "join" /\ link' # "join"
     \/ part = "flag" /\ flag /\ ~flag'}

\* The driver is up once the chip is.  Status and flag change together or one
\* without the other, for better or worse or from one bad state to another.
LinkChanges ==
  /\ pc # "init_chip"
  /\ link' \in Status
  /\ flag' \in BOOLEAN
  /\ lost' = lost \cup Falls
  /\ UNCHANGED <<pc, wifi_initd, current_state, behind>>

-----------------------------------------------------------------------------
(* The task                                                                *)

\* cyw43_arch_init_with_country, repeated until it succeeds
InitChip ==
  /\ pc = "init_chip"
  /\ pc' = "connect"
  /\ UNCHANGED <<wifi_initd, link, flag, current_state, behind, lost>>

\* cyw43_arch_wifi_connect_timeout_ms, from init_wifi or from the loop
Connect ==
  /\ pc \in {"connect", "reconnect"}
  /\ link' = "join"
  /\ flag' = TRUE
  /\ lost' = {}
  /\ pc' = IF pc = "connect" THEN "announce" ELSE "delay"
  /\ UNCHANGED <<wifi_initd, current_state, behind>>

Later(periods) == IF behind + periods < MaxBehind THEN behind + periods ELSE MaxBehind

\* Slip: one attempt, whatever it returns.
ConnectFailsOnce ==
  /\ pc \in {"connect", "reconnect"}
  /\ pc' = IF pc = "connect" THEN "announce" ELSE "delay"
  /\ UNCHANGED <<wifi_initd, link, flag, current_state, behind, lost>>

\* Slip: the task gives up on a failure.
ConnectFailsForGood ==
  /\ pc \in {"connect", "reconnect"}
  /\ pc' = "gave_up"
  /\ UNCHANGED <<wifi_initd, link, flag, current_state, behind, lost>>

\* It fails or times out and is called again at once.
ConnectFails ==
  /\ pc \in {"connect", "reconnect"}
  /\ link' \in Status
  /\ flag' \in BOOLEAN
  /\ ~Good'
  /\ behind' = IF pc = "connect" THEN behind ELSE Later(10)
  /\ UNCHANGED <<pc, wifi_initd, current_state, lost>>

\* wifi_initd = true, and `last` starts from the present tick.
Announce ==
  /\ pc = "announce"
  /\ wifi_initd' = TRUE
  /\ behind' = 0
  /\ pc' = "check_status"
  /\ UNCHANGED <<link, flag, current_state, lost>>

CheckStatus ==
  /\ pc = "check_status"
  /\ current_state' = link
  /\ lost' = lost \ {"link"}
  /\ pc' = "check_flag"
  /\ UNCHANGED <<wifi_initd, link, flag, behind>>

\* Slip: the interface's flag is not looked at.
CheckStatusOnly ==
  /\ pc = "check_flag"
  /\ pc' = IF current_state = "join" THEN "delay"
           ELSE IF current_state = "down" THEN "reconnect"
           ELSE "leave"
  /\ lost' = lost \ {"flag"}
  /\ UNCHANGED <<wifi_initd, link, flag, current_state, behind>>

\* current_state != CYW43_LINK_JOIN || !(flags & NETIF_FLAG_LINK_UP), and
\* within it current_state != CYW43_LINK_DOWN
CheckFlag ==
  /\ pc = "check_flag"
  /\ pc' = IF current_state = "join" /\ flag THEN "delay"
           ELSE IF current_state = "down" THEN "reconnect"
           ELSE "leave"
  /\ lost' = lost \ {"flag"}
  /\ UNCHANGED <<wifi_initd, link, flag, current_state, behind>>

\* cyw43_wifi_leave, of whatever the link is by now
Leave ==
  /\ pc = "leave"
  /\ link' = "down"
  /\ flag' = FALSE
  /\ pc' = "reconnect"
  /\ UNCHANGED <<wifi_initd, current_state, behind, lost>>

\* Slip: a round takes longer than the period it waits for.
DelayTooShort ==
  /\ pc = "delay"
  /\ pc' = "check_status"
  /\ UNCHANGED <<wifi_initd, link, flag, current_state, behind, lost>>

\* Slip: the status is read once, before the loop.
DelayUntilStale ==
  /\ pc = "delay"
  /\ behind' = IF behind > 0 THEN behind - 1 ELSE 0
  /\ pc' = "check_flag"
  /\ UNCHANGED <<wifi_initd, link, flag, current_state, lost>>

\* Slip: unsigned ticks are counted down past none.
DelayUntilWraps ==
  /\ pc = "delay"
  /\ behind' = behind - 1
  /\ pc' = "check_status"
  /\ UNCHANGED <<wifi_initd, link, flag, current_state, lost>>

\* vTaskDelayUntil(&last, 1000) does not wait while `last` lags behind.
DelayUntil ==
  /\ pc = "delay"
  /\ behind' = IF behind > 0 THEN behind - 1 ELSE 0
  /\ pc' = "check_status"
  /\ UNCHANGED <<wifi_initd, link, flag, current_state, lost>>

-----------------------------------------------------------------------------
TaskSteps ==
  InitChip \/ Announce \/ CheckStatus \/ CheckFlag \/ Leave \/ DelayUntil

Next == TaskSteps \/ Connect \/ ConnectFails \/ LinkChanges

Spec == Init /\ [][Next]_vars

\* The task has a priority of its own and is run; the chip comes up, and the
\* access point answers one of the attempts that never stop.
Fairness == WF_vars(TaskSteps) /\ WF_vars(Connect)

FairSpec == Spec /\ Fairness

-----------------------------------------------------------------------------
(* Properties                                                              *)

\* init_task, which spins on wifi_initd before it creates the switch, the
\* network and the monitor tasks, is released in the end.
Released == <>wifi_initd

\* The task goes to sleep on no outage it has seen or could have seen: what is
\* bad then fell after the task had looked at it, the status at the top of the
\* round and the flag behind it, or after it had connected.  A status that was
\* read while the link was bad and is stale by now ends in a connection all
\* the same.
SleepsConnected ==
  pc = "delay" =>
    /\ link = "join" \/ "link" \in lost
    /\ flag \/ "flag" \in lost

\* An outage ends, also one in which the driver still reports a join and only
\* the interface has lost its link.  The one that would not is one in which
\* status and flag take turns for ever at being bad, so that the task's two
\* looks find each of them good.
OutagesEnd ==
  <>[]~Good => /\ []<>(link = "join" /\ ~flag)
               /\ []<>(link # "join" /\ flag)

\* The task does not take down, again and again, a link that would stay: once
\* the driver makes no change of its own any more, the link is good for good.
StaysConnected == <>[][~LinkChanges]_vars => <>[]Good

\* After the last outage the loop catches up with the periods it missed and
\* is back to one look a second.
CatchesUp == <>[]Good => <>[](behind = 0)
=============================================================================
