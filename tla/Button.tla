-------------------------------- MODULE Button --------------------------------
(***************************************************************************)
(* What the firmware promises about the PC's power button, seen from       *)
(* outside: requests wait in a bounded line; the button is held down for   *)
(* one request at a time, in the order of the line, for as many ticks as   *)
(* the request asked; it is up whenever no request is being carried out.   *)
(*                                                                         *)
(* The promise has one gap.  Until the device has `settled` something else *)
(* may move the button, so a press that began before then may be short.    *)
(* A press that begins later is never disturbed.                           *)
(***************************************************************************)
EXTENDS Naturals, Sequences

CONSTANTS Durations, QueueLength, NoPress

VARIABLES
  waiting,  \* durations of the requests in line
  press,    \* duration of the request being carried out, or NoPress
  owed,     \* ticks it still has to last
  down,     \* the button is held down
  settled,  \* nothing but the presses moves the button any more
  sure      \* the present press began after that

vars == <<waiting, press, owed, down, settled, sure>>

Init ==
  /\ waiting = <<>>
  /\ press = NoPress
  /\ owed = 0
  /\ down = FALSE
  /\ settled = FALSE
  /\ sure = FALSE

\* A request joins the line; one that finds it full leaves no trace.
Accept ==
  /\ Len(waiting) < QueueLength
  /\ \E d \in Durations : waiting' = Append(waiting, d)
  /\ UNCHANGED <<press, owed, down, settled, sure>>

\* The first request in line is taken up.
Take ==
  /\ press = NoPress
  /\ waiting # <<>>
  /\ press' = Head(waiting)
  /\ owed' = Head(waiting)
  /\ waiting' = Tail(waiting)
  /\ sure' = settled
  /\ UNCHANGED <<down, settled>>

\* The button goes down; before the device has settled it may fail to.
Push ==
  /\ press # NoPress
  /\ owed = press
  /\ down' \in (IF sure THEN {TRUE} ELSE BOOLEAN)
  /\ UNCHANGED <<waiting, press, owed, settled, sure>>

\* A tick of the press goes by.
Hold ==
  /\ press # NoPress
  /\ sure => down
  /\ owed > 0
  /\ owed' = owed - 1
  /\ UNCHANGED <<waiting, press, down, settled, sure>>

\* The press has lasted its time and the button comes up.
Release ==
  /\ press # NoPress
  /\ sure => down
  /\ owed = 0
  /\ down' = FALSE
  /\ press' = NoPress
  /\ UNCHANGED <<waiting, owed, settled, sure>>

\* The gap: before the device has settled the button may be moved, though
\* never held down when no request is being carried out.
Disturb ==
  /\ ~settled
  /\ down' \in (IF press = NoPress THEN {FALSE} ELSE BOOLEAN)
  /\ settled' \in BOOLEAN
  /\ UNCHANGED <<waiting, press, owed, sure>>

Next == Accept \/ Take \/ Push \/ Hold \/ Release \/ Disturb

Spec == Init /\ [][Next]_vars
=============================================================================
