---------------------------- MODULE NetworkServer ----------------------------
(***************************************************************************)
(* network_task (firmware/src/network_task.cpp) with the server, socket    *)
(* and request_handler classes it is built from.  One task listens,        *)
(* accepts one connection at a time, reads one request (a 2-byte size and  *)
(* that many bytes), answers, acts, and closes.                            *)
(*                                                                         *)
(* A step is one call into lwIP or one effect on another task.  What lwIP  *)
(* and the peer do is external: every call may fail where its interface    *)
(* says so, recv returns any part of what the peer has sent, and a peer    *)
(* may stop anywhere, by falling silent or by closing.  A request is a     *)
(* record of what the code tells apart, not its bytes.                     *)
(*                                                                         *)
(* A definition marked "Slip" is the next one with a plausible mistake in  *)
(* it; no specification uses it.  The README says which property notices.  *)
(***************************************************************************)
EXTENDS Integers, Sequences

CONSTANTS
  Clients,     \* connection attempts
  Messages,    \* what a client may send, see MessagesAssumption
  BufferSize,  \* the array network_task reads into: 1024 in the firmware
  ZeroReads    \* times recv returns 0 after the peer's FIN before it fails

Commands == {"toggle", "set_boot"}
Requests == Commands \cup {"get_boot", "sense"}

\* announced: the size field; sent: bytes sent in all, the field included;
\* closes: the peer closes after the last of them; magic: the magic matches.
ASSUME MessagesAssumption ==
  Messages \subseteq [announced : Nat, sent : Nat, closes : BOOLEAN,
                      magic : BOOLEAN, request : Requests \cup {"unknown"}]
ASSUME SizesAssumption == BufferSize \in Nat /\ BufferSize > 12 /\ ZeroReads \in Nat

Listener == "listener"  \* the descriptor of the listening socket
NoFd == "none"          \* -1 in the code

ASSUME ClientsAssumption == Clients \cap {Listener, NoFd} = {}

\* The socket objects: server_.socket_ipv4, the local of server::listen,
\* accept's result and request_handler's member.
Objects == {"server", "sock", "accepted", "handler"}

VARIABLES
  pc,       \* the next call of network_task
  open,     \* descriptors lwIP has open
  holder,   \* the descriptor each socket object holds
  conn,     \* each client's connection
  msg,      \* what each client sends
  pos,      \* bytes read from the present connection
  size,     \* read()'s size, converted and cut to the buffer
  zeros,    \* zero-length recvs of the present connection
  answers,  \* answers sent to each client
  effect    \* what was done for each client

vars == <<pc, open, holder, conn, msg, pos, size, zeros, answers, effect>>

Current == holder["handler"]

Listening == holder["server"] = Listener

Points == {"getaddrinfo", "socket", "bind", "listen", "accept", "accept_error",
           "recv_size", "recv_data", "check", "send_toggle", "set_boot",
           "answer_select", "close", "undefined"}

Answers == Requests \cup {"unknown", "bad_size", "bad_magic", "boot_select", "failed"}

TypeOK ==
  /\ pc \in Points
  /\ open \subseteq Clients \cup {Listener}
  /\ holder \in [Objects -> Clients \cup {Listener, NoFd}]
  /\ conn \in [Clients -> {"none", "pending", "refused", "open", "closed"}]
  /\ msg \in [Clients -> Messages]
  /\ pos \in Nat
  /\ size \in 0..BufferSize
  /\ zeros \in 0..ZeroReads
  /\ answers \in [Clients -> Seq(Answers)]
  /\ effect \in [Clients -> {"none", "toggle", "set_boot"}]

Init ==
  /\ pc = "getaddrinfo"
  /\ open = {}
  /\ holder = [o \in Objects |-> NoFd]
  /\ conn = [c \in Clients |-> "none"]
  /\ msg \in [Clients -> Messages]
  /\ pos = 0
  /\ size = 0
  /\ zeros = 0
  /\ answers = [c \in Clients |-> <<>>]
  /\ effect = [c \in Clients |-> "none"]

OnlyPc == UNCHANGED <<open, holder, conn, msg, pos, size, zeros, answers, effect>>

\* handler.send(a), whose result is ignored
Tell(a) ==
  /\ answers' = [answers EXCEPT ![Current] = Append(@, a)]
  /\ UNCHANGED <<open, holder, conn, msg, pos, size, zeros, effect>>

\* An effect on the rest of the firmware.
Perform(command) ==
  /\ effect' = [effect EXCEPT ![Current] = command]
  /\ UNCHANGED <<open, holder, conn, msg, pos, size, zeros, answers>>

-----------------------------------------------------------------------------
(* server::listen, called again at once when it fails                      *)

\* Only -1 is taken for a failure, which getaddrinfo never returns: after a
\* failure the null result is dereferenced.
Getaddrinfo == pc = "getaddrinfo" /\ pc' \in {"socket", "undefined"} /\ OnlyPc

OpenSocket ==
  /\ pc = "socket"
  /\ open' = open \cup {Listener}
  /\ holder' = [holder EXCEPT !["sock"] = Listener]
  /\ pc' = "bind"
  /\ UNCHANGED <<conn, msg, pos, size, zeros, answers, effect>>

OpenSocketFails == pc = "socket" /\ pc' = "getaddrinfo" /\ OnlyPc

Bind == pc = "bind" /\ pc' = "listen" /\ OnlyPc

\* Slip: the socket leaves its scope without being closed.
AbandonSocketOpen ==
  /\ pc \in {"bind", "listen"}
  /\ holder' = [holder EXCEPT !["sock"] = NoFd]
  /\ pc' = "getaddrinfo"
  /\ UNCHANGED <<open, conn, msg, pos, size, zeros, answers, effect>>

\* bind or listen fails; the local's destructor shuts the socket and closes it.
AbandonSocket ==
  /\ pc \in {"bind", "listen"}
  /\ open' = open \ {holder["sock"]}
  /\ holder' = [holder EXCEPT !["sock"] = NoFd]
  /\ pc' = "getaddrinfo"
  /\ UNCHANGED <<conn, msg, pos, size, zeros, answers, effect>>

\* The move assignment swaps the two objects and the local's destructor
\* closes what the server held before.
Listen ==
  /\ pc = "listen"
  /\ holder' = [holder EXCEPT !["server"] = holder["sock"], !["sock"] = NoFd]
  /\ open' = open \ {holder["server"]}
  /\ pc' = "accept"
  /\ UNCHANGED <<conn, msg, pos, size, zeros, answers, effect>>

-----------------------------------------------------------------------------
(* The network: peers connect.  The backlog of 1 that listen is given has  *)
(* no effect without lwIP's TCP_LISTEN_BACKLOG, which lwipopts.h leaves.   *)

Connect(c) ==
  /\ Listening
  /\ conn[c] = "none"
  /\ conn' = [conn EXCEPT ![c] = "pending"]
  /\ UNCHANGED <<pc, open, holder, msg, pos, size, zeros, answers, effect>>

-----------------------------------------------------------------------------
(* server::accept, and the construction of the handler                     *)

\* The result is moved into the handler, which leaves -1 behind in it.
Accept(c) ==
  /\ pc = "accept"
  /\ conn[c] = "pending"
  /\ conn' = [conn EXCEPT ![c] = "open"]
  /\ open' = open \cup {c}
  /\ holder' = [holder EXCEPT !["handler"] = c, !["accepted"] = NoFd]
  /\ pos' = 0
  /\ zeros' = 0
  /\ size' = 0
  /\ pc' = "recv_size"
  /\ UNCHANGED <<msg, answers, effect>>

\* No descriptor or no memory: the connection at hand, if any, is lost.
AcceptFails ==
  /\ pc = "accept"
  /\ \/ conn' = conn
     \/ \E c \in Clients : conn[c] = "pending" /\ conn' = [conn EXCEPT ![c] = "refused"]
  /\ pc' = "accept_error"
  /\ UNCHANGED <<open, holder, msg, pos, size, zeros, answers, effect>>

\* The error is logged and the loop continues with the same socket.
AcceptAgain == pc = "accept_error" /\ pc' = "accept" /\ OnlyPc

-----------------------------------------------------------------------------
(* request_handler::read                                                   *)

\* Slip: the size field is trusted.
Uncut(n) == n

Cut(n) == IF n < BufferSize THEN n ELSE BufferSize

\* Bytes the present loop still wants, and those the peer still has for it.
Wanted == IF pc = "recv_size" THEN 2 - pos ELSE 2 + size - pos
Unread == msg[Current].sent - pos

Receiving == pc = "recv_size" \/ (pc = "recv_data" /\ Wanted > 0)

\* recv returns k bytes; the second byte of the size starts the second loop.
RecvBytes ==
  /\ Receiving
  /\ \E k \in 1..Wanted :
       /\ k <= Unread
       /\ pos' = pos + k
  /\ IF pc = "recv_size" /\ pos' = 2
       THEN /\ size' = Cut(msg[Current].announced)
            /\ pc' = "recv_data"
       ELSE UNCHANGED <<size, pc>>
  /\ UNCHANGED <<open, holder, conn, msg, zeros, answers, effect>>

\* Slip: the end of the stream is taken for the end of the request.
RecvZeroEnds ==
  /\ Receiving
  /\ Unread <= 0 /\ msg[Current].closes
  /\ pc' = "check"
  /\ OnlyPc

\* Slip (of the library): recv at the end of the stream returns 0 for ever.
RecvZeroForEver ==
  /\ Receiving
  /\ Unread <= 0 /\ msg[Current].closes
  /\ zeros' = (zeros + 1) % (ZeroReads + 1)
  /\ UNCHANGED <<pc, open, holder, conn, msg, pos, size, answers, effect>>

\* recv returns 0: the peer has closed.  Neither loop looks for that, so it
\* calls recv again.
RecvZero ==
  /\ Receiving
  /\ Unread <= 0 /\ msg[Current].closes
  /\ zeros < ZeroReads
  /\ zeros' = zeros + 1
  /\ UNCHANGED <<pc, open, holder, conn, msg, pos, size, answers, effect>>

\* recv returns -1: a second without data, a reset, or a closed stream that
\* has returned its zeros.  network_task answers with the error.
RecvFails == Receiving /\ pc' = "close" /\ Tell("failed")

\* read returns size.
ReadDone == pc = "recv_data" /\ Wanted = 0 /\ pc' = "check" /\ OnlyPc

-----------------------------------------------------------------------------
(* The request                                                             *)

RequestSize(r) == IF r \in Commands THEN 12 ELSE 8

\* The first answer to a request of which `amount` bytes were read.
Reply(m, amount) ==
  IF amount < 8 THEN "bad_size"
  ELSE IF ~m.magic THEN "bad_magic"
  ELSE IF m.request = "unknown" THEN "unknown"
  ELSE IF amount # RequestSize(m.request) THEN "bad_size"
  ELSE m.request

Check ==
  LET reply == Reply(msg[Current], size) IN
  /\ pc = "check"
  /\ pc' = CASE reply = "toggle"   -> "send_toggle"
             [] reply = "set_boot" -> "set_boot"
             [] OTHER              -> "close"
  /\ Tell(reply)

\* xQueueSendToBack(switch_comms.get(), &time, 0), result ignored
SendToggle == pc = "send_toggle" /\ pc' = "close" /\ Perform("toggle")

SetBoot == pc = "set_boot" /\ pc' = "answer_select" /\ Perform("set_boot")

AnswerSelect == pc = "answer_select" /\ pc' = "close" /\ Tell("boot_select")

\* The end of the loop's body, which every `continue` reaches too: the
\* destructors of the handler and of the moved-from result run.
Close ==
  /\ pc = "close"
  /\ open' = open \ {holder["handler"], holder["accepted"]}
  /\ conn' = [conn EXCEPT ![Current] = "closed"]
  /\ holder' = [holder EXCEPT !["handler"] = NoFd, !["accepted"] = NoFd]
  /\ pc' = "accept"
  /\ UNCHANGED <<msg, pos, size, zeros, answers, effect>>

-----------------------------------------------------------------------------
ListenSteps ==
  \/ Getaddrinfo \/ OpenSocket \/ OpenSocketFails \/ Bind
  \/ AbandonSocket \/ Listen

HandleSteps ==
  \/ RecvBytes \/ RecvZero \/ RecvFails \/ ReadDone
  \/ Check \/ SendToggle \/ SetBoot \/ AnswerSelect \/ Close

Next ==
  \/ ListenSteps
  \/ \E c \in Clients : Connect(c) \/ Accept(c)
  \/ AcceptFails \/ AcceptAgain
  \/ HandleSteps

Spec == Init /\ [][Next]_vars

\* network_task is a ready task whenever a call of it can return, so it
\* runs; recv returns within its one second timeout; and accept does not
\* fail for ever while a connection waits.
Fairness ==
  /\ WF_vars(HandleSteps)
  /\ WF_vars(AcceptAgain)
  /\ SF_vars(\E c \in Clients : Accept(c))

FairSpec == Spec /\ Fairness

-----------------------------------------------------------------------------
(* Properties                                                              *)

\* Every descriptor lwIP has open is held by exactly one socket object and
\* no object holds a closed one: nothing leaks and nothing is closed twice,
\* on any error path and through every move.
SocketsAreOwnedOnce ==
  /\ open = {holder[o] : o \in Objects} \ {NoFd}
  /\ \A o, p \in Objects : o # p /\ holder[o] = holder[p] => holder[o] = NoFd

\* Seen by its clients the server is NetworkService: every connection is
\* answered, a command is acknowledged before and only if it is carried out,
\* once, and nothing is closed before all of it is done, on every path
\* through the handler and wherever recv, accept or the peer gives up.
\* What a client asks counts if it announces its exact size and all of it
\* arrives.
Asked(c) ==
  LET m == msg[c] IN
  IF m.magic /\ m.request \in Commands /\ m.announced = 12 /\ m.sent >= 2 + 12
    THEN m.request ELSE "nothing"

asked == [c \in Clients |-> Asked(c)]

Service == INSTANCE NetworkService WITH
  Confirmed <- {"set_boot"}, Reports <- Answers \ Commands, asks <- asked

KeepsService == Service!Spec

\* A client that was accepted cannot keep the only server task for ever, so
\* every connection that waits is closed in the end, or refused.
ConnectionsEnd ==
  \A c \in Clients : conn[c] = "pending" ~> conn[c] \in {"closed", "refused"}

\* The comment at network_task.cpp:28, "Loop endlessly, restarting the server
\* if there are errors": after an error of accept the server is set up anew.
ErrorsRestartTheServer == pc = "accept_error" ~> pc = "getaddrinfo"
=============================================================================
