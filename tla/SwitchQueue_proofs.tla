-------------------------- MODULE SwitchQueue_proofs --------------------------
(***************************************************************************)
(* Proofs about SwitchQueue, for any number of sending tasks.  IInv says   *)
(* what the two fields and the queues look like while no get() has been    *)
(* overlapped by the creating branch of another: either nothing has been   *)
(* made yet, or one task is alone inside get() making it, or it is there   *)
(* and every value a task holds or has loaded is the same.                 *)
(***************************************************************************)
EXTENDS SwitchQueue, TLAPS

\* Nothing made: every load of the field gave NULL.
Fresh ==
  /\ ~initialized /\ handle = NULL /\ created = {} /\ full = {}
  /\ \A t \in Tasks : pc[t] \in {"idle", "test"}
  /\ \A t \in Tasks : pc[t] = "test" => got[t] = NULL

\* Task t is alone in get() and about to make the queue.
AboutToMake(t) ==
  /\ pc[t] = "create"
  /\ ~initialized /\ handle = NULL /\ created = {} /\ full = {}
  /\ \A u \in Tasks \ {t} : pc[u] = "idle"

\* Task t has tried to make the queue and is alone in get(), storing.
Storing(t) ==
  /\ pc[t] = "store"
  /\ created = {got[t]} \ {NULL} /\ full = {}
  /\ handle = (IF "handle" \in stores[t] THEN NULL ELSE got[t])
  /\ initialized <=> "initialized" \notin stores[t]
  /\ \A u \in Tasks \ {t} : pc[u] = "idle"

\* The queue is there and all agree on it, or it could not be made and all
\* agree on null.
Shared ==
  /\ initialized
  /\ created = {handle} \ {NULL} /\ full \subseteq created
  /\ \A t \in Tasks : pc[t] \in {"idle", "test", "return", "use", "assert"}
  /\ \A t \in Tasks : pc[t] # "idle" => got[t] = handle

Serial == Fresh \/ (\E t \in Tasks : AboutToMake(t) \/ Storing(t)) \/ Shared

IInv == TypeOK /\ (~overlap => Serial)

-----------------------------------------------------------------------------
LEMMA ReceiverIsTask == Receiver \in Tasks
  BY DEF Tasks

LEMMA TypeInit == Init => TypeOK
  BY DEF Init, TypeOK

LEMMA TypeStep == TypeOK /\ [Next]_vars => TypeOK'
<1> SUFFICES ASSUME TypeOK, [Next]_vars
             PROVE  TypeOK'
  OBVIOUS
<1> USE DEF TypeOK
<1>1. ASSUME NEW t \in Tasks, CallGet(t)
      PROVE  TypeOK'
  BY <1>1 DEF CallGet
<1>2. ASSUME NEW t \in Tasks, TestInitialized(t)
      PROVE  TypeOK'
  BY <1>2 DEF TestInitialized
<1>3. ASSUME NEW t \in Tasks, CreateQueue(t)
      PROVE  TypeOK'
  BY <1>3 DEF CreateQueue
<1>4. ASSUME NEW t \in Tasks, StoreHandle(t)
      PROVE  TypeOK'
  BY <1>4 DEF StoreHandle
<1>5. ASSUME NEW t \in Tasks, StoreInitialized(t)
      PROVE  TypeOK'
  BY <1>5 DEF StoreInitialized
<1>6. ASSUME NEW t \in Tasks, ReturnCreated(t) \/ ReturnExisting(t)
      PROVE  TypeOK'
  BY <1>6 DEF ReturnCreated, ReturnExisting
<1>7. ASSUME NEW t \in Tasks, Send(t) \/ UseNull(t)
      PROVE  TypeOK'
  <2>1. CASE Send(t)
    BY <2>1 DEF Send
  <2>2. CASE UseNull(t)
    BY <2>2 DEF UseNull
  <2> QED
    BY <1>7, <2>1, <2>2
<1>8. CASE Receive
  BY <1>8, ReceiverIsTask DEF Receive
<1>9. CASE UNCHANGED vars
  BY <1>9 DEF vars
<1> QED
  BY <1>1, <1>2, <1>3, <1>4, <1>5, <1>6, <1>7, <1>8, <1>9 DEF Next, Get

\* The variables keep their types: in particular no task ever sends an item
\* through a null handle.
THEOREM TypeCorrect == Spec => []TypeOK
  BY TypeInit, TypeStep, PTL DEF Spec

-----------------------------------------------------------------------------
(* The inductive invariant                                                 *)

LEMMA SerialInit == Init => Serial
  BY DEF Init, Serial, Fresh

LEMMA SerialStep ==
  TypeOK /\ Serial /\ [Next]_vars /\ ~overlap' => Serial'
<1> SUFFICES ASSUME TypeOK, Serial, [Next]_vars, ~overlap'
             PROVE  Serial'
  OBVIOUS
<1> USE TasksAssumption DEF TypeOK
\* A task is in the creating branch only if nobody else is in get().
<1>a. ASSUME NEW t \in Tasks, Creating(t)
      PROVE  AboutToMake(t) \/ Storing(t)
  BY <1>a DEF Serial, Fresh, AboutToMake, Storing, Shared, Creating
<1>1. ASSUME NEW t \in Tasks, CallGet(t)
      PROVE  Serial'
  <2>1. \A u \in Tasks : ~Creating(u)
    BY <1>1 DEF CallGet
  <2>2. CASE Fresh
    BY <1>1, <2>2 DEF CallGet, Serial, Fresh
  <2>3. CASE Shared
    BY <1>1, <2>3 DEF CallGet, Serial, Shared
  <2> QED
    BY <2>1, <2>2, <2>3 DEF Serial, AboutToMake, Storing, Creating
<1>2. ASSUME NEW t \in Tasks, TestInitialized(t)
      PROVE  Serial'
  <2>1. CASE Fresh
    <3>1. \A u \in Tasks \ {t} : pc[u] = "idle"
      BY <1>2, <2>1 DEF TestInitialized, InGet, Fresh
    <3>2. AboutToMake(t)'
      BY <1>2, <2>1, <3>1 DEF TestInitialized, Fresh, AboutToMake
    <3> QED
      BY <3>2 DEF Serial
  <2>2. CASE Shared
    BY <1>2, <2>2 DEF TestInitialized, Serial, Shared
  <2>3. ASSUME NEW u \in Tasks, AboutToMake(u) \/ Storing(u)
        PROVE  FALSE
    BY <1>2, <2>3 DEF TestInitialized, AboutToMake, Storing
  <2> QED
    BY <2>1, <2>2, <2>3 DEF Serial
<1>3. ASSUME NEW t \in Tasks, CreateQueue(t)
      PROVE  Serial'
  <2>1. AboutToMake(t)
    BY <1>3, <1>a DEF CreateQueue, Creating, Storing
  <2>2. Storing(t)'
    BY <1>3, <2>1 DEF CreateQueue, AboutToMake, Storing
  <2> QED
    BY <2>2 DEF Serial
<1>4. ASSUME NEW t \in Tasks, StoreHandle(t) \/ StoreInitialized(t)
      PROVE  Serial'
  <2>1. Storing(t)
    BY <1>4, <1>a DEF StoreHandle, StoreInitialized, Creating, AboutToMake
  <2>2. CASE StoreHandle(t)
    <3>1. Storing(t)'
      BY <2>1, <2>2 DEF StoreHandle, Storing
    <3> QED
      BY <3>1 DEF Serial
  <2>3. CASE StoreInitialized(t)
    <3>1. Storing(t)'
      BY <2>1, <2>3 DEF StoreInitialized, Storing
    <3> QED
      BY <3>1 DEF Serial
  <2> QED
    BY <1>4, <2>2, <2>3
<1>5. ASSUME NEW t \in Tasks, ReturnCreated(t)
      PROVE  Serial'
  <2>1. Storing(t)
    BY <1>5, <1>a DEF ReturnCreated, Creating, AboutToMake
  <2>2. Shared'
    BY <1>5, <2>1 DEF ReturnCreated, Storing, Shared
  <2> QED
    BY <2>2 DEF Serial
<1>6. ASSUME NEW t \in Tasks, ReturnExisting(t)
      PROVE  Serial'
  <2>1. Shared
    BY <1>6 DEF ReturnExisting, Serial, Fresh, AboutToMake, Storing
  <2>2. Shared'
    BY <1>6, <2>1 DEF ReturnExisting, Shared
  <2> QED
    BY <2>2 DEF Serial
\* The handle is used only by a task whose get() has returned.
<1>7. ASSUME NEW t \in Tasks, pc[t] = "use"
      PROVE  Shared
  BY <1>7 DEF Serial, Fresh, AboutToMake, Storing
<1>8. ASSUME NEW t \in Tasks, Send(t)
      PROVE  Serial'
  <2>1. Shared'
    BY <1>7, <1>8 DEF Send, Shared
  <2> QED
    BY <2>1 DEF Serial
<1>9. CASE Receive
  <2>1. Shared'
    BY <1>7, <1>9, ReceiverIsTask DEF Receive, Shared
  <2> QED
    BY <2>1 DEF Serial
<1>10. ASSUME NEW t \in Tasks, UseNull(t)
       PROVE  Serial'
  <2>1. Shared'
    BY <1>7, <1>10 DEF UseNull, Shared
  <2> QED
    BY <2>1 DEF Serial
<1>11. CASE UNCHANGED vars
  BY <1>11 DEF vars, Serial, Fresh, AboutToMake, Storing, Shared
<1> QED
  BY <1>1, <1>2, <1>3, <1>4, <1>5, <1>6, <1>8, <1>9, <1>10, <1>11
     DEF Next, Get

\* An overlap is never forgotten.
LEMMA OverlapStays == TypeOK /\ [Next]_vars /\ overlap => overlap'
<1> USE DEF TypeOK
<1> QED
  BY DEF Next, Get, CallGet, TestInitialized, CreateQueue, StoreHandle,
         StoreInitialized, ReturnCreated, ReturnExisting, Send, Receive,
         UseNull, vars

LEMMA Invariance == Spec => []IInv
<1>1. Init => IInv
  BY TypeInit, SerialInit DEF IInv
<1>2. IInv /\ [Next]_vars => IInv'
  BY TypeStep, SerialStep, OverlapStays DEF IInv
<1> QED
  BY <1>1, <1>2, PTL DEF Spec

-----------------------------------------------------------------------------
\* While no get() has overlapped the creation of the queue, all tasks that
\* hold a handle hold the same one, of a queue that exists.
THEOREM SharedHandle == Spec => []SerialTasksShareOneQueue
<1>1. IInv => SerialTasksShareOneQueue
  BY DEF IInv, Serial, Fresh, AboutToMake, Storing, Shared,
         SerialTasksShareOneQueue
<1> QED
  BY Invariance, <1>1, PTL

\* Under the same condition one queue at most is ever made, and items are
\* only in the one the field names.
THEOREM OneQueue == Spec => []SerialGetMakesOneQueue
<1>1. IInv => SerialGetMakesOneQueue
  BY DEF IInv, Serial, Fresh, AboutToMake, Storing, Shared,
         SerialGetMakesOneQueue
<1> QED
  BY Invariance, <1>1, PTL

\* Once the flag is up and no task is left in the creating branch that stays
\* so, the field never changes, and no creation can be raced any more.
LEMMA SettledStep ==
  TypeOK /\ [Next]_vars /\ Settled
    => Settled' /\ handle' = handle /\ (overlap' => overlap)
<1> SUFFICES ASSUME TypeOK, [Next]_vars, Settled
             PROVE  Settled' /\ handle' = handle /\ (overlap' => overlap)
  OBVIOUS
<1>1. Settled' /\ handle' = handle
  <2> USE DEF TypeOK, Settled, Creating
  <2>1. ASSUME NEW t \in Tasks, Get(t)
        PROVE  Settled' /\ handle' = handle
    BY <2>1 DEF Get, CallGet, TestInitialized, CreateQueue, StoreHandle,
                StoreInitialized, ReturnCreated, ReturnExisting
  <2>2. ASSUME NEW t \in Tasks, Send(t) \/ UseNull(t)
        PROVE  Settled' /\ handle' = handle
    BY <2>2 DEF Send, UseNull
  <2>3. CASE Receive
    BY <2>3, ReceiverIsTask DEF Receive
  <2>4. CASE UNCHANGED vars
    BY <2>4 DEF vars
  <2> QED
    BY <2>1, <2>2, <2>3, <2>4 DEF Next
<1>2. overlap' => overlap
  <2>1. initialized /\ \A u \in Tasks : ~Creating(u)
    BY DEF Settled
  <2>2. ASSUME NEW t \in Tasks, CallGet(t) \/ TestInitialized(t)
        PROVE  overlap' => overlap
    BY <2>1, <2>2, Zenon DEF CallGet, TestInitialized
  <2>3. ASSUME NEW t \in Tasks, Get(t), ~CallGet(t), ~TestInitialized(t)
        PROVE  overlap' = overlap
    BY <2>3 DEF Get, CreateQueue, StoreHandle, StoreInitialized,
                ReturnCreated, ReturnExisting
  <2>4. ASSUME NEW t \in Tasks, Send(t) \/ UseNull(t) \/ Receive
        PROVE  overlap' = overlap
    BY <2>4 DEF Send, UseNull, Receive
  <2> QED
    BY <2>2, <2>3, <2>4, ReceiverIsTask DEF Next, vars
<1> QED
  BY <1>1, <1>2

\* However the calls of get() overlapped, once the flag is up and no task is
\* left in the creating branch the field never changes again.
THEOREM SettledForEver == Spec => HandleSettles
<1>1. TypeOK /\ [Next]_vars => (Settled => Settled' /\ handle' = handle)
  BY SettledStep
<1> QED
  BY TypeCorrect, <1>1, PTL DEF Spec, HandleSettles
=============================================================================
