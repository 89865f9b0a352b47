----------------------------- MODULE SwitchQueue -----------------------------
(***************************************************************************)
(* switch_queue (firmware/include/pcrb/switch_task.h): the object through  *)
(* which the CLI task, the network task and the switch task share one      *)
(* FreeRTOS queue.  get() creates the queue the first time it is called;   *)
(* neither `initialized` nor `handle` is atomic or locked, the firmware    *)
(* runs on two cores with preemption, and every task calls get() again     *)
(* before each use of the queue.                                           *)
(*                                                                         *)
(* A step is one access to the two fields or one queue call, by any task.  *)
(* The two stores of the creating branch touch different plain variables,  *)
(* so the build may order them either way; `return handle` may give back   *)
(* the value just created, a value of the field loaded when the call began *)
(* or its value now.  xQueueCreate may find no memory and return null,     *)
(* which get() stores and returns like a handle.                           *)
(*                                                                         *)
(* A call that takes the creating branch sets `initialized` before it      *)
(* returns and nothing resets it, so a task creates at most one queue:     *)
(* the creator's name identifies it.                                       *)
(*                                                                         *)
(* A definition marked "Slip" is the next one with a plausible mistake in  *)
(* it; no specification uses it.  The README says which property notices.  *)
(***************************************************************************)
CONSTANTS
  Senders,   \* tasks that send a toggle: cli_task and network_task
  Receiver,  \* the one task that receives: switch_task
  NULL       \* the handle's value before any store (static storage: null)

Tasks == Senders \cup {Receiver}

ASSUME TasksAssumption == NULL \notin Tasks /\ Receiver \notin Senders

VARIABLES
  initialized,  \* switch_queue::initialized
  handle,       \* switch_queue::handle, the creator of the queue or NULL
  created,      \* queues that xQueueCreate has made
  full,         \* those that hold an item (the queue length is 1)
  pc,           \* where each task is in get() and in its use of the result
  stores,       \* stores of the creating branch each task has still to do
  got,          \* what each task's get() has loaded, created or returned
  overlap       \* history: a get() created the queue while another was under way

vars == <<initialized, handle, created, full, pc, stores, got, overlap>>

Creating(t) == pc[t] \in {"create", "store"}

InGet(t) == Creating(t) \/ pc[t] \in {"test", "return"}

TypeOK ==
  /\ initialized \in BOOLEAN
  /\ handle \in Tasks \cup {NULL}
  /\ created \subseteq Tasks
  /\ full \subseteq Tasks
  /\ pc \in [Tasks -> {"idle", "test", "create", "store", "return", "use", "assert"}]
  /\ stores \in [Tasks -> SUBSET {"handle", "initialized"}]
  /\ got \in [Tasks -> Tasks \cup {NULL}]
  /\ overlap \in BOOLEAN

Init ==
  /\ initialized = FALSE
  /\ handle = NULL
  /\ created = {}
  /\ full = {}
  /\ pc = [t \in Tasks |-> "idle"]
  /\ stores = [t \in Tasks |-> {}]
  /\ got = [t \in Tasks |-> NULL]
  /\ overlap = FALSE

-----------------------------------------------------------------------------
(* get()                                                                   *)

\* The call; an early load of the field stays in a register, here got.
CallGet(t) ==
  /\ pc[t] = "idle"
  /\ pc' = [pc EXCEPT ![t] = "test"]
  /\ got' = [got EXCEPT ![t] = handle]
  /\ overlap' = (overlap \/ \E u \in Tasks : Creating(u))
  /\ UNCHANGED <<initialized, handle, created, full, stores>>

\* Slip: a null handle is taken for one that has yet to be created.
TestHandle(t) ==
  /\ pc[t] = "test"
  /\ pc' = [pc EXCEPT ![t] = IF handle # NULL THEN "return" ELSE "create"]
  /\ overlap' = (overlap \/ (~initialized /\ \E u \in Tasks \ {t} : InGet(u)))
  /\ UNCHANGED <<initialized, handle, created, full, stores, got>>

\* if (!initialized)
TestInitialized(t) ==
  /\ pc[t] = "test"
  /\ pc' = [pc EXCEPT ![t] = IF initialized THEN "return" ELSE "create"]
  /\ overlap' = (overlap \/ (~initialized /\ \E u \in Tasks \ {t} : InGet(u)))
  /\ UNCHANGED <<initialized, handle, created, full, stores, got>>

\* xQueueCreate(1, sizeof(unsigned)); null when the heap is exhausted
CreateQueue(t) ==
  /\ pc[t] = "create"
  /\ \E q \in {t, NULL} :
       /\ created' = created \cup ({q} \ {NULL})
       /\ got' = [got EXCEPT ![t] = q]
  /\ stores' = [stores EXCEPT ![t] = {"handle", "initialized"}]
  /\ pc' = [pc EXCEPT ![t] = "store"]
  /\ UNCHANGED <<initialized, handle, full, overlap>>

\* handle = ...
StoreHandle(t) ==
  /\ pc[t] = "store"
  /\ "handle" \in stores[t]
  /\ handle' = got[t]
  /\ stores' = [stores EXCEPT ![t] = @ \ {"handle"}]
  /\ UNCHANGED <<initialized, created, full, pc, got, overlap>>

\* Slip: the flag is never raised.
StoreNothing(t) ==
  /\ pc[t] = "store"
  /\ "initialized" \in stores[t]
  /\ stores' = [stores EXCEPT ![t] = @ \ {"initialized"}]
  /\ UNCHANGED <<initialized, handle, created, full, pc, got, overlap>>

\* initialized = true
StoreInitialized(t) ==
  /\ pc[t] = "store"
  /\ "initialized" \in stores[t]
  /\ initialized' = TRUE
  /\ stores' = [stores EXCEPT ![t] = @ \ {"initialized"}]
  /\ UNCHANGED <<handle, created, full, pc, got, overlap>>

\* return handle, after the creating branch: reloaded, or the value at hand
ReturnCreated(t) ==
  /\ pc[t] = "store"
  /\ stores[t] = {}
  /\ \E q \in {handle, got[t]} : got' = [got EXCEPT ![t] = q]
  /\ pc' = [pc EXCEPT ![t] = "use"]
  /\ UNCHANGED <<initialized, handle, created, full, stores, overlap>>

\* return handle, when the test found the queue initialized
ReturnExisting(t) ==
  /\ pc[t] = "return"
  /\ \E q \in {handle, got[t]} : got' = [got EXCEPT ![t] = q]
  /\ pc' = [pc EXCEPT ![t] = "use"]
  /\ UNCHANGED <<initialized, handle, created, full, stores, overlap>>

-----------------------------------------------------------------------------
(* Use of the handle                                                       *)

\* Slip: the assertion on a null handle is compiled out.
SendUnchecked(t) ==
  /\ t \in Senders
  /\ pc[t] = "use"
  /\ full' = full \cup {got[t]}
  /\ pc' = [pc EXCEPT ![t] = "idle"]
  /\ UNCHANGED <<initialized, handle, created, stores, got, overlap>>

\* xQueueSendToBack(get(), &time, 0): a full queue drops the item at once
Send(t) ==
  /\ t \in Senders
  /\ pc[t] = "use"
  /\ got[t] # NULL
  /\ full' = full \cup {got[t]}
  /\ pc' = [pc EXCEPT ![t] = "idle"]
  /\ UNCHANGED <<initialized, handle, created, stores, got, overlap>>

\* Slip: the item is looked at with xQueuePeek and stays in the queue.
ReceivePeek ==
  /\ pc[Receiver] = "use"
  /\ got[Receiver] \in full
  /\ pc' = [pc EXCEPT ![Receiver] = "idle"]
  /\ UNCHANGED <<initialized, handle, created, full, stores, got, overlap>>

\* xQueueReceive(get(), &data, portMAX_DELAY): waits for ever for an item
Receive ==
  /\ pc[Receiver] = "use"
  /\ got[Receiver] \in full
  /\ full' = full \ {got[Receiver]}
  /\ pc' = [pc EXCEPT ![Receiver] = "idle"]
  /\ UNCHANGED <<initialized, handle, created, stores, got, overlap>>

\* configASSERT(pxQueue) in either queue call stops the task
UseNull(t) ==
  /\ pc[t] = "use"
  /\ got[t] = NULL
  /\ pc' = [pc EXCEPT ![t] = "assert"]
  /\ UNCHANGED <<initialized, handle, created, full, stores, got, overlap>>

-----------------------------------------------------------------------------
Get(t) ==
  \/ CallGet(t)
  \/ TestInitialized(t)
  \/ CreateQueue(t)
  \/ StoreHandle(t)
  \/ StoreInitialized(t)
  \/ ReturnCreated(t)
  \/ ReturnExisting(t)

Next ==
  \/ \E t \in Tasks : Get(t) \/ Send(t) \/ UseNull(t)
  \/ Receive

\* switch_task never leaves its loop, and a ready task is eventually run
\* (equal priorities are time-sliced); senders call when someone asks them.
Fairness == WF_vars(Get(Receiver) \/ Receive)

Spec == Init /\ [][Next]_vars

FairSpec == Spec /\ Fairness

-----------------------------------------------------------------------------
(* Properties                                                              *)

\* While the creation of the queue has overlapped no other get(), every task
\* that holds a handle holds the same one; it is null only if no queue could
\* be made, and then no task has one.
SerialTasksShareOneQueue ==
  ~overlap =>
     \A t, u \in Tasks : pc[t] = "use" /\ pc[u] = "use" =>
        got[t] = got[u] /\ created = {got[t]} \ {NULL}

\* Under the same condition no second queue is ever made and no item is in
\* a queue other than the one the field names.
SerialGetMakesOneQueue ==
  ~overlap =>
     /\ \A t, u \in created : t = u
     /\ full \subseteq {handle}

Settled == initialized /\ \A t \in Tasks : ~Creating(t)

\* However the calls overlapped, once the flag is up and no task is left in
\* the creating branch that stays so and the field never changes again: all
\* later calls of get() agree.
HandleSettles == [][Settled => Settled' /\ handle' = handle]_vars

\* An item sent after a creation nobody overlapped is eventually received:
\* the switch task cannot be left waiting on a queue nobody fills.
SerialItemsAreReceived ==
  \A q \in Tasks : q \in full ~> (q \notin full \/ overlap)
=============================================================================
