----------------------------- MODULE NetworkService -----------------------------
(***************************************************************************)
(* What network_task promises to those who connect, whatever lwIP and the  *)
(* peers do: they are served one at a time; a command is acknowledged,     *)
(* then carried out, once; a change of the boot selection is confirmed     *)
(* once more after that; anything else is answered once and changes        *)
(* nothing; and only then is the connection closed.                        *)
(***************************************************************************)
EXTENDS Sequences

CONSTANTS
  Clients,
  Commands,   \* requests that change something
  Confirmed,  \* those of them whose outcome is reported as well
  Reports     \* all other answers

VARIABLES
  conn,     \* each client's connection
  asks,     \* the command each client sends in full, or "nothing"
  answers,  \* what each was told
  effect    \* the command carried out for each

vars == <<conn, asks, answers, effect>>

Init ==
  /\ conn = [c \in Clients |-> "none"]
  /\ asks \in [Clients -> Commands \cup {"nothing"}]
  /\ answers = [c \in Clients |-> <<>>]
  /\ effect = [c \in Clients |-> "none"]

\* Nothing is owed to the client any more.
Served(c) ==
  /\ answers[c] # <<>>
  /\ answers[c][1] \in Commands => effect[c] = answers[c][1]
  /\ answers[c][1] \in Confirmed => Len(answers[c]) = 2

Become(c, from, to) == conn[c] = from /\ conn' = [conn EXCEPT ![c] = to]

Connect(c) ==
  /\ Become(c, "none", "pending")
  /\ UNCHANGED <<asks, answers, effect>>

Accept(c) ==
  /\ \A d \in Clients : conn[d] # "open"
  /\ Become(c, "pending", "open")
  /\ UNCHANGED <<asks, answers, effect>>

Refuse(c) ==
  /\ Become(c, "pending", "refused")
  /\ UNCHANGED <<asks, answers, effect>>

Close(c) ==
  /\ Served(c)
  /\ Become(c, "open", "closed")
  /\ UNCHANGED <<asks, answers, effect>>

\* The first answer; a command is acknowledged only to who asked for it.
Answer(c, a) ==
  /\ conn[c] = "open" /\ answers[c] = <<>>
  /\ a \in Commands => asks[c] = a
  /\ answers' = [answers EXCEPT ![c] = <<a>>]
  /\ UNCHANGED <<conn, asks, effect>>

CarryOut(c) ==
  /\ conn[c] = "open" /\ effect[c] = "none"
  /\ \E a \in Commands :
       /\ answers[c] = <<a>>
       /\ effect' = [effect EXCEPT ![c] = a]
  /\ UNCHANGED <<conn, asks, answers>>

Confirm(c) ==
  /\ conn[c] = "open" /\ effect[c] \in Confirmed /\ ~Served(c)
  /\ \E a \in Reports : answers' = [answers EXCEPT ![c] = Append(@, a)]
  /\ UNCHANGED <<conn, asks, effect>>

Next ==
  \E c \in Clients :
    \/ Connect(c) \/ Accept(c) \/ Refuse(c) \/ Close(c)
    \/ \E a \in Commands \cup Reports : Answer(c, a)
    \/ CarryOut(c) \/ Confirm(c)

Spec == Init /\ [][Next]_vars

-----------------------------------------------------------------------------
(* What clients can rely on, given this                                    *)

\* A command is acknowledged, and carried out, only for who asked for it, and
\* is what that client was told first; who has not been accepted is told
\* nothing; no connection is closed that is owed anything; and the one task
\* serves one client at a time.
Reliable ==
  /\ \A c \in Clients :
       /\ answers[c] # <<>> =>
            /\ conn[c] \in {"open", "closed"}
            /\ answers[c][1] \in Commands => asks[c] = answers[c][1]
       /\ effect[c] # "none" =>
            answers[c] # <<>> /\ answers[c][1] = effect[c] /\ asks[c] = effect[c]
       /\ conn[c] = "closed" => Served(c)
  /\ \A c, d \in Clients : conn[c] = "open" /\ conn[d] = "open" => c = d

\* No command is carried out twice or exchanged for another, no first answer
\* is taken back, and nothing more happens to a client whose connection is
\* over.
NothingIsRepeated ==
  [][\A c \in Clients :
       /\ effect[c] # "none" => effect'[c] = effect[c]
       /\ answers[c] # <<>> => answers'[c] # <<>> /\ answers'[c][1] = answers[c][1]
       /\ conn[c] \in {"refused", "closed"} =>
            UNCHANGED <<conn[c], answers[c], effect[c]>>]_vars
=============================================================================
