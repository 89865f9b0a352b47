-------------------------- MODULE WifiManager_proofs --------------------------
(***************************************************************************)
(* Proofs about WifiManager, for any bound on the count of missed periods. *)
(* Status and flag are left to change as they like.  SleepsConnected is    *)
(* not inductive: that the task goes to sleep with a good link, or one     *)
(* that fell since it looked, rests on what its copy of the status is      *)
(* worth when it looks at the flag.                                        *)
(***************************************************************************)
EXTENDS WifiManager, TLAPS

\* Between the two looks: a copy that says "join" was right when it was
\* read, so the link still is a join unless it fell since.
CopyInv ==
  pc = "check_flag" /\ current_state = "join" => link = "join" \/ "link" \in lost

IInv == TypeOK /\ CopyInv /\ SleepsConnected

LEMMA Bound == MaxBehind \in Nat /\ 0 \in 0..MaxBehind
  BY MaxBehindAssumption

LEMMA InitIInv == Init => IInv
  BY Bound DEF Init, IInv, TypeOK, CopyInv, SleepsConnected, Status

LEMMA TypePreserved == TypeOK /\ [Next]_vars => TypeOK'
<1> SUFFICES ASSUME TypeOK, [Next]_vars
             PROVE  TypeOK'
  OBVIOUS
<1> USE Bound DEF TypeOK, Status
<1>1. CASE InitChip \/ CheckStatus \/ CheckFlag \/ Leave \/ Announce
  BY <1>1 DEF InitChip, CheckStatus, CheckFlag, Leave, Announce
<1>2. CASE DelayUntil
  BY <1>2 DEF DelayUntil
<1>3. CASE Connect
  BY <1>3 DEF Connect
<1>4. CASE ConnectFails
  BY <1>4 DEF ConnectFails, Later
<1>5. CASE LinkChanges
  BY <1>5 DEF LinkChanges, Falls
<1>6. CASE UNCHANGED vars
  BY <1>6 DEF vars
<1> QED
  BY <1>1, <1>2, <1>3, <1>4, <1>5, <1>6 DEF Next, TaskSteps

LEMMA SleepPreserved == IInv /\ [Next]_vars => CopyInv' /\ SleepsConnected'
<1> SUFFICES ASSUME IInv, [Next]_vars
             PROVE  CopyInv' /\ SleepsConnected'
  OBVIOUS
<1> USE DEF IInv, CopyInv, SleepsConnected
<1>1. CASE InitChip \/ Announce \/ Leave \/ DelayUntil
  BY <1>1 DEF InitChip, Announce, Leave, DelayUntil
\* The copy is fresh.
<1>2. CASE CheckStatus
  BY <1>2 DEF CheckStatus
\* To sleep only with both found good.
<1>3. CASE CheckFlag
  BY <1>3 DEF CheckFlag
<1>4. CASE Connect \/ ConnectFails
  BY <1>4 DEF Connect, ConnectFails
\* Whatever the driver does, a status or a flag that was good and is not any
\* more has fallen.
<1>5. CASE LinkChanges
  BY <1>5 DEF LinkChanges, Falls
<1>6. CASE UNCHANGED vars
  BY <1>6 DEF vars
<1> QED
  BY <1>1, <1>2, <1>3, <1>4, <1>5, <1>6 DEF Next, TaskSteps

LEMMA Invariance == Spec => []IInv
<1>1. IInv /\ [Next]_vars => IInv'
  BY TypePreserved, SleepPreserved DEF IInv
<1> QED
  BY InitIInv, <1>1, PTL DEF Spec

\* The variables keep their types; the task is always at one of its steps.
THEOREM TypeCorrect == Spec => []TypeOK
<1>1. IInv => TypeOK
  BY DEF IInv
<1> QED
  BY Invariance, <1>1, PTL

\* The task goes to sleep on no outage but one that began after it had looked,
\* however status and flag change.
THEOREM SleepsWell == Spec => []SleepsConnected
<1>1. IInv => SleepsConnected
  BY DEF IInv
<1> QED
  BY Invariance, <1>1, PTL
=============================================================================
