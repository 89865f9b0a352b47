------------------------- MODULE NetworkServer_proofs -------------------------
(***************************************************************************)
(* Proofs about NetworkServer, for any number of clients, any messages and *)
(* any buffer that holds a request.  IInv says, for each point of the      *)
(* task, which socket objects hold what (HolderInv), which connections are *)
(* open (ConnInv), and how much of the request has been read, answered and *)
(* carried out (ProgressInv).                                              *)
(***************************************************************************)
EXTENDS NetworkServer, TLAPS

Serving == pc \in {"recv_size", "recv_data", "check", "send_toggle", "set_boot",
                   "answer_select", "close"}

\* One object at most holds each of the two descriptors.
HolderInv ==
  /\ holder["accepted"] = NoFd
  /\ holder["sock"] = IF pc \in {"bind", "listen"} THEN Listener ELSE NoFd
  /\ holder["server"] =
       IF Serving \/ pc \in {"accept", "accept_error"} THEN Listener ELSE NoFd
  /\ IF Serving THEN Current \in Clients ELSE Current = NoFd
  /\ open = {holder["server"], holder["sock"], holder["handler"]} \ {NoFd}

\* The open connection is the one being served, and the others have been
\* told nothing unless they are closed.
ConnInv ==
  /\ \A c \in Clients : conn[c] = "open" <=> Serving /\ c = Current
  /\ \A c \in Clients : conn[c] \notin {"open", "closed"} =>
       answers[c] = <<>> /\ effect[c] = "none"

\* How far the present request has got.
ProgressInv ==
  /\ pc \in {"recv_size", "recv_data", "check"} =>
       answers[Current] = <<>> /\ effect[Current] = "none"
  /\ pc = "recv_size" => pos < 2 /\ pos <= msg[Current].sent
  /\ pc \in {"recv_data", "check"} =>
       /\ size = Cut(msg[Current].announced)
       /\ 2 <= pos /\ pos <= 2 + size /\ pos <= msg[Current].sent
  /\ pc = "check" => pos = 2 + size
  /\ \A command \in Commands :
       pc = (IF command = "toggle" THEN "send_toggle" ELSE "set_boot") =>
         /\ answers[Current] = <<command>> /\ effect[Current] = "none"
         /\ Asked(Current) = command
  /\ pc = "answer_select" =>
       answers[Current] = <<"set_boot">> /\ effect[Current] = "set_boot"
  /\ pc = "close" => Service!Served(Current)

IInv == TypeOK /\ HolderInv /\ ConnInv /\ ProgressInv

-----------------------------------------------------------------------------
LEMMA ClientNames == \A c \in Clients : c # Listener /\ c # NoFd
  BY ClientsAssumption

LEMMA MessageTypes ==
  ASSUME NEW m \in Messages
  PROVE  /\ m.announced \in Nat /\ m.sent \in Nat
         /\ m.magic \in BOOLEAN /\ m.request \in Requests \cup {"unknown"}
  BY MessagesAssumption

LEMMA CutBound ==
  ASSUME NEW n \in Nat
  PROVE  /\ Cut(n) \in 0..BufferSize /\ Cut(n) <= n
         /\ Cut(n) = 12 => n = 12
  BY SizesAssumption DEF Cut

\* What the first answer can be, and that it names a command only to a
\* client whose whole request has been read.
LEMMA ReplyIsRight ==
  ASSUME NEW m \in Messages, NEW amount \in Nat
  PROVE  /\ Reply(m, amount) \in Answers
         /\ Reply(m, amount) \notin {"failed", "boot_select"}
         /\ Reply(m, amount) \in Commands =>
              m.magic /\ m.request = Reply(m, amount) /\ amount = 12
  BY MessageTypes DEF Reply, RequestSize, Answers, Requests, Commands

LEMMA InitIInv == Init => IInv
<1> SUFFICES ASSUME Init
             PROVE  IInv
  OBVIOUS
<1>1. TypeOK
  BY SizesAssumption DEF Init, TypeOK, Points, Objects
<1>2. HolderInv
  BY DEF Init, HolderInv, Serving, Objects, Current
<1>3. ConnInv /\ ProgressInv
  BY DEF Init, ConnInv, ProgressInv, Serving, Commands
<1> QED
  BY <1>1, <1>2, <1>3 DEF IInv

LEMMA ListenPreserves == IInv /\ (ListenSteps \/ AcceptAgain) => IInv'
<1> SUFFICES ASSUME IInv, ListenSteps \/ AcceptAgain
             PROVE  IInv'
  OBVIOUS
<1> USE DEF IInv, Serving
<1>1. /\ ~Serving /\ ~Serving'
      /\ UNCHANGED <<conn, msg, pos, size, zeros, answers, effect>>
      /\ pc' \in Points
  BY DEF ListenSteps, Getaddrinfo, OpenSocket, OpenSocketFails, Bind,
         AbandonSocket, Listen, AcceptAgain, OnlyPc, Points
<1>2. HolderInv'
  <2> USE <1>1 DEF HolderInv, TypeOK, Objects, Current
  <2>1. CASE Getaddrinfo \/ OpenSocketFails \/ Bind \/ AcceptAgain
    BY <2>1 DEF Getaddrinfo, OpenSocketFails, Bind, AcceptAgain, OnlyPc
  <2>2. CASE OpenSocket
    BY <2>2 DEF OpenSocket, Listener, NoFd
  <2>3. CASE AbandonSocket
    BY <2>3 DEF AbandonSocket, Listener, NoFd
  <2>4. CASE Listen
    BY <2>4 DEF Listen, Listener, NoFd
  <2> QED
    BY <2>1, <2>2, <2>3, <2>4 DEF ListenSteps
<1>3. TypeOK'
  <2>1. holder' \in [Objects -> Clients \cup {Listener, NoFd}]
    BY DEF TypeOK, Objects, ListenSteps, Getaddrinfo, OpenSocket,
           OpenSocketFails, Bind, AbandonSocket, Listen, AcceptAgain, OnlyPc
  <2>2. open' \subseteq Clients \cup {Listener}
    BY <1>2, <2>1 DEF HolderInv, Objects
  <2> QED
    BY <1>1, <2>1, <2>2 DEF TypeOK
<1>4. ConnInv' /\ ProgressInv'
  BY <1>1 DEF ConnInv, ProgressInv, Commands, Points
<1> QED
  BY <1>2, <1>3, <1>4

LEMMA ConnectPreserves ==
  ASSUME IInv, NEW c \in Clients, Connect(c)
  PROVE  IInv'
<1> USE DEF IInv, Connect
<1>1. TypeOK'
  BY DEF TypeOK
<1>2. HolderInv'
  BY DEF HolderInv, Serving, Current
<1>3. ConnInv'
  BY DEF ConnInv, TypeOK, Serving, Current
<1>4. ProgressInv'
  BY DEF ProgressInv, Current, Asked, Service!Served
<1> QED
  BY <1>1, <1>2, <1>3, <1>4

LEMMA AcceptPreserves ==
  ASSUME IInv, (\E c \in Clients : Accept(c)) \/ AcceptFails
  PROVE  IInv'
<1> USE DEF IInv
<1>1. ASSUME NEW c \in Clients, Accept(c)
      PROVE  IInv'
  <2> USE <1>1 DEF Accept
  <2>1. Current' = c /\ Serving' /\ ~Serving
    BY DEF Current, Serving, TypeOK, Objects
  <2>2. HolderInv'
    BY <2>1, ClientNames
       DEF HolderInv, Serving, TypeOK, Objects, Current, Listener, NoFd
  <2>3. TypeOK'
    BY SizesAssumption DEF TypeOK, Objects, Points
  <2>4. ConnInv'
    BY <2>1 DEF ConnInv, TypeOK
  <2>5. 0 <= msg[c].sent
    BY MessageTypes DEF TypeOK
  <2>6. ProgressInv'
    BY <2>1, <2>5 DEF ProgressInv, ConnInv, Commands
  <2> QED
    BY <2>2, <2>3, <2>4, <2>6
<1>2. CASE AcceptFails
  <2> USE <1>2 DEF AcceptFails
  <2>1. HolderInv'
    BY DEF HolderInv, Serving, Current
  <2>2. TypeOK' /\ ConnInv'
    BY DEF TypeOK, ConnInv, Serving, Current, Points
  <2>3. ProgressInv'
    BY DEF ProgressInv, Commands
  <2> QED
    BY <2>1, <2>2, <2>3
<1> QED
  BY <1>1, <1>2

\* The steps between Accept and Close keep the descriptors as they are.
LEMMA ServingPreserves ==
  ASSUME IInv, Serving, Serving', pc' \in Points,
         UNCHANGED <<open, holder, conn, msg>>,
         \A c \in Clients : c # Current =>
            answers'[c] = answers[c] /\ effect'[c] = effect[c]
  PROVE  HolderInv' /\ ConnInv' /\ Current' = Current /\ Current \in Clients
<1> USE DEF IInv, Serving
<1>1. Current' = Current /\ Current \in Clients
  BY DEF Current, HolderInv
<1>2. HolderInv'
  BY <1>1 DEF HolderInv, Current
<1>3. ConnInv'
  BY <1>1 DEF ConnInv
<1> QED
  BY <1>1, <1>2, <1>3

LEMMA ReadPreserves == IInv /\ (RecvBytes \/ RecvZero \/ ReadDone) => IInv'
<1> SUFFICES ASSUME IInv, RecvBytes \/ RecvZero \/ ReadDone
             PROVE  IInv'
  OBVIOUS
<1> USE DEF IInv, Wanted, Unread, Receiving
<1>1. /\ Serving /\ Serving' /\ pc' \in Points
      /\ UNCHANGED <<open, holder, conn, msg, answers, effect>>
  BY DEF RecvBytes, RecvZero, ReadDone, OnlyPc, Serving, Points
<1>2. HolderInv' /\ ConnInv' /\ Current' = Current /\ Current \in Clients
  BY <1>1, ServingPreserves
<1> DEFINE m == msg[Current]
<1>3. m \in Messages /\ m.announced \in Nat /\ m.sent \in Nat /\ m' = m
  BY <1>1, <1>2, MessageTypes DEF TypeOK
<1>4. Cut(m.announced) \in 0..BufferSize /\ Cut(m.announced) \in Nat
  BY <1>3, CutBound, SizesAssumption
<1> HIDE DEF m
<1>5. CASE RecvBytes
  <2>1. PICK k \in 1..Wanted : k <= Unread /\ pos' = pos + k
    BY <1>5 DEF RecvBytes
  <2>2. k \in Nat \ {0} /\ pos' \in Nat
    BY <2>1, <1>3 DEF TypeOK, m
  <2>3. pos' <= m.sent
    BY <2>1, <2>2, <1>3 DEF TypeOK, m
  <2>4. CASE pc = "recv_size"
    <3>1. pos' <= 2
      BY <2>1, <2>2, <2>4 DEF TypeOK
    <3>2. CASE pos' = 2
      <4>1. size' = Cut(m.announced) /\ pc' = "recv_data" /\ zeros' = zeros
        BY <1>5, <2>4, <3>2 DEF RecvBytes, m
      <4>2. TypeOK'
        BY <4>1, <1>1, <1>4, <2>2 DEF TypeOK
      <4>3. ProgressInv'
        BY <4>1, <1>1, <1>2, <1>3, <1>4, <2>3, <2>4, <3>2 DEF ProgressInv, Commands, m
      <4> QED
        BY <4>2, <4>3, <1>2
    <3>3. CASE pos' # 2
      <4>1. size' = size /\ pc' = pc /\ zeros' = zeros
        BY <1>5, <2>4, <3>3 DEF RecvBytes
      <4>2. TypeOK'
        BY <4>1, <1>1, <2>2 DEF TypeOK
      <4>3. ProgressInv'
        BY <4>1, <1>1, <1>2, <1>3, <2>2, <2>3, <2>4, <3>1, <3>3
           DEF ProgressInv, Commands, m
      <4> QED
        BY <4>2, <4>3, <1>2
    <3> QED
      BY <3>2, <3>3
  <2>5. CASE pc = "recv_data"
    <3>1. size' = size /\ pc' = pc /\ zeros' = zeros
      BY <1>5, <2>5 DEF RecvBytes
    <3>2. pos' <= 2 + size /\ 2 <= pos'
      BY <2>1, <2>2, <2>5 DEF TypeOK, ProgressInv
    <3>3. TypeOK'
      BY <3>1, <1>1, <2>2 DEF TypeOK
    <3>4. ProgressInv'
      BY <3>1, <3>2, <1>1, <1>2, <1>3, <2>3, <2>5 DEF ProgressInv, Commands, m
    <3> QED
      BY <3>3, <3>4, <1>2
  <2> QED
    BY <1>5, <2>4, <2>5 DEF RecvBytes
<1>6. CASE RecvZero
  <2>1. zeros' \in 0..ZeroReads
    BY <1>6, SizesAssumption DEF RecvZero, TypeOK
  <2>2. TypeOK'
    BY <1>6, <2>1 DEF RecvZero, TypeOK
  <2>3. ProgressInv'
    BY <1>6, <1>1, <1>2 DEF RecvZero, ProgressInv, Commands
  <2> QED
    BY <2>2, <2>3, <1>2
<1>7. CASE ReadDone
  <2>1. TypeOK'
    BY <1>7, <1>1 DEF ReadDone, OnlyPc, TypeOK
  <2>2. pos = 2 + size
    BY <1>7 DEF ReadDone, TypeOK, ProgressInv
  <2>3. ProgressInv'
    BY <1>7, <1>1, <1>2, <2>2 DEF ReadDone, OnlyPc, ProgressInv, Commands
  <2> QED
    BY <2>1, <2>3, <1>2
<1> QED
  BY <1>5, <1>6, <1>7

\* An answer to the client at hand, and an effect for it.
LEMMA TellTypes ==
  ASSUME TypeOK, Current \in Clients, NEW a \in Answers, Tell(a),
         pc' \in Points
  PROVE  TypeOK' /\ answers'[Current] = Append(answers[Current], a)
  BY DEF Tell, TypeOK

LEMMA PerformTypes ==
  ASSUME TypeOK, Current \in Clients, NEW command \in Commands,
         Perform(command), pc' \in Points
  PROVE  TypeOK' /\ effect'[Current] = command
  BY DEF Perform, TypeOK, Commands

LEMMA AnswerPreserves ==
  IInv /\ (RecvFails \/ Check \/ SendToggle \/ SetBoot \/ AnswerSelect) => IInv'
<1> SUFFICES ASSUME IInv,
                    RecvFails \/ Check \/ SendToggle \/ SetBoot \/ AnswerSelect
             PROVE  IInv'
  OBVIOUS
<1> USE DEF IInv
<1>1. /\ Serving /\ Serving' /\ pc' \in Points
      /\ UNCHANGED <<open, holder, conn, msg, pos, size, zeros>>
      /\ \A c \in Clients : c # Current =>
            answers'[c] = answers[c] /\ effect'[c] = effect[c]
  BY DEF RecvFails, Check, SendToggle, SetBoot, AnswerSelect, Tell, Perform,
         Receiving, Serving, Points, TypeOK
<1>2. HolderInv' /\ ConnInv' /\ Current' = Current /\ Current \in Clients
  BY <1>1, ServingPreserves
<1> DEFINE m == msg[Current]
<1>3. m \in Messages /\ m.announced \in Nat /\ m.sent \in Nat /\ m' = m
  BY <1>1, <1>2, MessageTypes DEF TypeOK
<1> HIDE DEF m
<1>4. CASE RecvFails
  <2>1. /\ answers[Current] = <<>> /\ effect[Current] = "none"
        /\ effect' = effect /\ pc' = "close" /\ Tell("failed")
    BY <1>4 DEF RecvFails, Receiving, ProgressInv, Tell
  <2>2. TypeOK' /\ answers'[Current] = <<"failed">>
    BY <2>1, <1>1, <1>2, TellTypes DEF Answers
  <2>3. Service!Served(Current)'
    BY <2>2, <1>2 DEF Service!Served, Commands
  <2>4. ProgressInv'
    BY <2>1, <2>3, <1>2 DEF ProgressInv, Commands
  <2> QED
    BY <2>2, <2>4, <1>2
<1>5. CASE Check
  <2> DEFINE reply == Reply(m, size)
  <2>1. /\ answers[Current] = <<>> /\ effect[Current] = "none"
        /\ effect' = effect /\ Tell(reply)
        /\ pc' = CASE reply = "toggle"   -> "send_toggle"
                   [] reply = "set_boot" -> "set_boot"
                   [] OTHER              -> "close"
    BY <1>5 DEF Check, ProgressInv, Tell, m
  <2>2. size \in Nat /\ size = Cut(m.announced) /\ 2 + size <= m.sent
    BY <1>5 DEF Check, ProgressInv, TypeOK, m
  <2>3. /\ reply \in Answers /\ reply \notin {"failed", "boot_select"}
        /\ reply \in Commands => m.magic /\ m.request = reply /\ size = 12
    BY <1>3, <2>2, ReplyIsRight
  <2>4. reply \in Commands => Asked(Current)' = reply
    BY <1>2, <1>3, <2>2, <2>3, CutBound DEF Asked, m
  <2> HIDE DEF reply
  <2>5. TypeOK' /\ answers'[Current] = <<reply>>
    BY <2>1, <2>3, <1>1, <1>2, TellTypes
  <2>6. reply \notin Commands => Service!Served(Current)'
    BY <2>5, <1>2 DEF Service!Served, Commands
  <2>7. ProgressInv'
    BY <2>1, <2>4, <2>5, <2>6, <1>2 DEF ProgressInv, Commands
  <2> QED
    BY <2>5, <2>7, <1>2
<1>6. CASE SendToggle \/ SetBoot
  <2>1. PICK command \in Commands :
          /\ answers[Current] = <<command>> /\ Perform(command)
          /\ command = "toggle" => pc' = "close"
          /\ command = "set_boot" => pc' = "answer_select"
    BY <1>6 DEF SendToggle, SetBoot, ProgressInv, Commands
  <2>2. /\ TypeOK' /\ effect'[Current] = command
        /\ answers'[Current] = <<command>>
    BY <2>1, <1>1, <1>2, PerformTypes DEF Perform
  <2>3. ASSUME command = "toggle"
        PROVE  Service!Served(Current)'
    <3>1. answers'[Current'] = <<"toggle">> /\ effect'[Current'] = "toggle"
      BY <2>2, <2>3, <1>2
    <3> QED
      BY <3>1 DEF Service!Served
  <2>4. ProgressInv'
    BY <2>1, <2>2, <2>3, <1>2 DEF ProgressInv, Commands
  <2> QED
    BY <2>2, <2>4, <1>2
<1>7. CASE AnswerSelect
  <2>1. /\ answers[Current] = <<"set_boot">> /\ effect[Current] = "set_boot"
        /\ effect' = effect /\ pc' = "close" /\ Tell("boot_select")
    BY <1>7 DEF AnswerSelect, ProgressInv, Tell
  <2>2. TypeOK' /\ answers'[Current] = <<"set_boot", "boot_select">>
    BY <2>1, <1>1, <1>2, TellTypes DEF Answers
  <2>3. Service!Served(Current)'
    <3>1. /\ answers'[Current'] = <<"set_boot", "boot_select">>
          /\ effect'[Current'] = "set_boot"
      BY <2>1, <2>2, <1>2
    <3>2. Len(answers'[Current']) = 2
      BY <3>1
    <3> QED
      BY <3>1, <3>2 DEF Service!Served
  <2>4. ProgressInv'
    BY <2>1, <2>3, <1>2 DEF ProgressInv, Commands
  <2> QED
    BY <2>2, <2>4, <1>2
<1> QED
  BY <1>4, <1>5, <1>6, <1>7

LEMMA ClosePreserves == IInv /\ Close => IInv'
<1> SUFFICES ASSUME IInv, Close
             PROVE  IInv'
  OBVIOUS
<1> USE DEF IInv, Close
<1>1. Serving /\ ~Serving' /\ Current \in Clients /\ Current' = NoFd
  BY DEF Serving, HolderInv, Current, TypeOK, Objects
<1>2. HolderInv'
  <2>1. /\ holder'["accepted"] = NoFd /\ holder'["handler"] = NoFd
        /\ holder'["sock"] = holder["sock"]
        /\ holder'["server"] = holder["server"]
    BY DEF TypeOK, Objects
  <2>2. holder["sock"] = NoFd /\ holder["server"] = Listener
    BY <1>1 DEF HolderInv, Serving
  <2>3. open = {Listener, Current}
    BY <1>1, <2>2, ClientNames DEF HolderInv, Current, NoFd, Listener
  <2>4. open' = {Listener}
    BY <1>1, <2>3, ClientNames DEF HolderInv, Current, NoFd, Listener
  <2>5. pc' = "accept"
    OBVIOUS
  <2> QED
    BY <1>1, <2>1, <2>2, <2>4, <2>5 DEF HolderInv, NoFd, Listener
<1>3. TypeOK'
  BY <1>1 DEF TypeOK, Objects, Points
<1>4. ConnInv' /\ ProgressInv'
  BY <1>1 DEF ConnInv, ProgressInv, TypeOK, Commands
<1> QED
  BY <1>2, <1>3, <1>4

LEMMA Invariance == Spec => []IInv
<1>1. IInv /\ UNCHANGED vars => IInv'
  BY DEF IInv, vars, TypeOK, HolderInv, ConnInv, ProgressInv, Serving, Current,
         Asked, Service!Served
<1>2. IInv /\ [Next]_vars => IInv'
  BY <1>1, ListenPreserves, ConnectPreserves, AcceptPreserves, ReadPreserves,
     AnswerPreserves, ClosePreserves
     DEF Next, HandleSteps
<1> QED
  BY InitIInv, <1>2, PTL DEF Spec

-----------------------------------------------------------------------------
\* The variables keep their types; in particular no size exceeds the buffer.
THEOREM TypeCorrect == Spec => []TypeOK
<1>1. IInv => TypeOK
  BY DEF IInv
<1> QED
  BY Invariance, <1>1, PTL

\* No descriptor leaks and none is closed twice, on any error path of listen
\* and accept and through every move of a socket object.
THEOREM SocketsOwned == Spec => []SocketsAreOwnedOnce
<1>1. ASSUME HolderInv
      PROVE  SocketsAreOwnedOnce
  <2>1. {holder[o] : o \in Objects} = {holder["server"], holder["sock"],
                                       holder["accepted"], holder["handler"]}
    BY DEF Objects
  <2>2. open = {holder[o] : o \in Objects} \ {NoFd}
    BY <1>1, <2>1 DEF HolderInv
  <2>3. holder["server"] = NoFd \/ holder["sock"] = NoFd
    BY <1>1 DEF HolderInv, Serving
  <2>4. \A c \in {holder["server"], holder["sock"]} : c \in {Listener, NoFd}
    BY <1>1 DEF HolderInv
  <2>5. Current = NoFd \/ Current \notin {Listener, NoFd}
    BY <1>1, ClientNames DEF HolderInv
  <2>6. \A o, p \in Objects : o # p /\ holder[o] = holder[p] => holder[o] = NoFd
    BY <1>1, <2>3, <2>4, <2>5 DEF HolderInv, Objects, Current
  <2> QED
    BY <2>2, <2>6 DEF SocketsAreOwnedOnce
<1>2. IInv => SocketsAreOwnedOnce
  BY <1>1 DEF IInv
<1> QED
  BY Invariance, <1>2, PTL

-----------------------------------------------------------------------------
(* The server implements NetworkService                                    *)

LEMMA ServiceInit == Init => Service!Init
<1> SUFFICES ASSUME Init
             PROVE  Service!Init
  OBVIOUS
<1>1. asked \in [Clients -> Commands \cup {"nothing"}]
  BY DEF asked, Asked
<1> QED
  BY <1>1 DEF Init, Service!Init

LEMMA ServiceStep == IInv /\ [Next]_vars => [Service!Next]_(Service!vars)
<1> SUFFICES ASSUME IInv, [Next]_vars
             PROVE  Service!Next \/ UNCHANGED Service!vars
  OBVIOUS
<1> USE DEF IInv, Service!vars
<1>1. msg' = msg /\ asked' = asked
  BY DEF Next, ListenSteps, Getaddrinfo, OpenSocket, OpenSocketFails, Bind,
         AbandonSocket, Listen, AcceptAgain, OnlyPc, Connect, Accept,
         AcceptFails, HandleSteps, RecvBytes, RecvZero, RecvFails, ReadDone,
         Check, SendToggle, SetBoot, AnswerSelect, Tell, Perform, Close,
         asked, Asked, vars
\* Setting up the socket and reading are not seen by the clients.
<1>2. CASE ListenSteps \/ AcceptAgain \/ RecvBytes \/ RecvZero \/ ReadDone
  BY <1>1, <1>2
     DEF ListenSteps, Getaddrinfo, OpenSocket, OpenSocketFails, Bind,
         AbandonSocket, Listen, AcceptAgain, OnlyPc, RecvBytes, RecvZero,
         ReadDone
<1>3. ASSUME NEW c \in Clients, Connect(c)
      PROVE  Service!Next
  BY <1>1, <1>3 DEF Connect, Service!Next, Service!Connect, Service!Become
<1>4. ASSUME NEW c \in Clients, Accept(c)
      PROVE  Service!Next
  BY <1>1, <1>4
     DEF Accept, ConnInv, Serving, Service!Next, Service!Accept, Service!Become
<1>5. CASE AcceptFails
  BY <1>1, <1>5 DEF AcceptFails, Service!Next, Service!Refuse, Service!Become
<1>6. CASE RecvFails \/ Check \/ SendToggle \/ SetBoot \/ AnswerSelect \/ Close
  <2>1. Serving /\ Current \in Clients /\ conn[Current] = "open"
    BY <1>6 DEF RecvFails, Receiving, Check, SendToggle, SetBoot, AnswerSelect,
                Close, Serving, HolderInv, ConnInv
  <2>2. ASSUME NEW a \in Answers, Tell(a), answers[Current] = <<>>,
               a \in Commands => Asked(Current) = a
        PROVE  Service!Next
    <3>1. answers' = [answers EXCEPT ![Current] = <<a>>]
      BY <2>2, <2>1 DEF Tell
    <3>2. Service!Answer(Current, a)
      BY <2>1, <2>2, <3>1, <1>1 DEF Tell, Service!Answer, asked
    <3>3. a \in Commands \cup (Answers \ Commands)
      OBVIOUS
    <3> QED
      BY <2>1, <3>2, <3>3 DEF Service!Next
  <2>3. CASE RecvFails
    BY <2>2, <2>3 DEF RecvFails, Receiving, ProgressInv, Answers, Commands
  <2>4. CASE Check
    <3> DEFINE reply == Reply(msg[Current], size)
    <3>1. Tell(reply) /\ answers[Current] = <<>>
      BY <2>4 DEF Check, ProgressInv
    <3>2. msg[Current] \in Messages /\ size \in Nat
      BY <2>1, <2>4 DEF TypeOK, Check
    <3>3. reply \in Answers
      BY <3>2, ReplyIsRight
    <3>4. reply \in Commands => Asked(Current) = reply
      <4>1. /\ msg[Current].announced \in Nat /\ msg[Current].sent \in Nat
            /\ size = Cut(msg[Current].announced)
            /\ 2 + size <= msg[Current].sent
        BY <2>4, <3>2, MessageTypes DEF Check, ProgressInv, TypeOK
      <4> QED
        BY <3>2, <4>1, ReplyIsRight, CutBound DEF Asked
    <3> QED
      BY <2>2, <3>1, <3>3, <3>4
  <2>5. CASE SendToggle \/ SetBoot
    <3>1. PICK command \in Commands :
            answers[Current] = <<command>> /\ Perform(command)
            /\ effect[Current] = "none"
      BY <2>5 DEF SendToggle, SetBoot, ProgressInv, Commands
    <3>2. Service!CarryOut(Current)
      BY <2>1, <3>1, <1>1 DEF Service!CarryOut, Perform
    <3> QED
      BY <2>1, <3>2 DEF Service!Next
  <2>6. CASE AnswerSelect
    <3>1. /\ answers[Current] = <<"set_boot">> /\ effect[Current] = "set_boot"
          /\ Tell("boot_select")
      BY <2>6 DEF AnswerSelect, ProgressInv
    <3>2. ~Service!Served(Current)
      BY <3>1 DEF Service!Served
    <3>3. "boot_select" \in Answers \ Commands
      BY DEF Answers, Commands
    <3>4. Service!Confirm(Current)
      BY <2>1, <3>1, <3>2, <3>3, <1>1 DEF Service!Confirm, Tell
    <3> QED
      BY <2>1, <3>4 DEF Service!Next
  <2>7. CASE Close
    <3>1. Service!Close(Current)
      BY <2>1, <2>7, <1>1
         DEF Close, ProgressInv, Service!Close, Service!Become
    <3> QED
      BY <2>1, <3>1 DEF Service!Next
  <2> QED
    BY <1>6, <2>3, <2>4, <2>5, <2>6, <2>7
<1>7. CASE UNCHANGED vars
  BY <1>1, <1>7 DEF vars
<1> QED
  BY <1>2, <1>3, <1>4, <1>5, <1>6, <1>7 DEF Next, HandleSteps

\* Whatever lwIP and the peers do, each client is served as NetworkService
\* says: acknowledged, then acted for once, then closed.
THEOREM ServesAsPromised == Spec => KeepsService
  BY Invariance, ServiceInit, ServiceStep, PTL
     DEF Spec, KeepsService, Service!Spec

-----------------------------------------------------------------------------
(* What follows from that for the clients                                  *)

\* The steps of NetworkService that concern client c.
ServiceStepOf(c) ==
  \/ Service!Connect(c) \/ Service!Accept(c) \/ Service!Refuse(c)
  \/ Service!Close(c) \/ Service!CarryOut(c) \/ Service!Confirm(c)
  \/ \E a \in Answers : Service!Answer(c, a)

LEMMA ServiceNextIs == Service!Next => \E c \in Clients : ServiceStepOf(c)
  BY DEF Service!Next, ServiceStepOf, Answers, Requests

\* What a step of NetworkService does to each client.
LEMMA ServiceMoves ==
  ASSUME TypeOK, NEW c \in Clients, NEW d \in Clients,
         ServiceStepOf(c)
  PROVE  /\ d # c => UNCHANGED <<conn[d], answers[d], effect[d]>>
         /\ effect[d] # "none" => effect'[d] = effect[d]
         /\ answers[d] # <<>> =>
              answers'[d] # <<>> /\ answers'[d][1] = answers[d][1]
         /\ conn[d] \in {"refused", "closed"} =>
              UNCHANGED <<conn[d], answers[d], effect[d]>>
         /\ asked' = asked
<1> USE DEF TypeOK
<1>1. CASE Service!Connect(c) \/ Service!Accept(c) \/ Service!Refuse(c)
  BY <1>1 DEF Service!Connect, Service!Accept, Service!Refuse, Service!Become
<1>2. CASE Service!Close(c)
  BY <1>2 DEF Service!Close, Service!Become
<1>3. CASE Service!CarryOut(c)
  BY <1>3 DEF Service!CarryOut
<1>4. CASE Service!Confirm(c)
  <2>1. PICK a \in Answers \ Commands :
          answers' = [answers EXCEPT ![c] = Append(@, a)]
    BY <1>4 DEF Service!Confirm
  <2>2. answers[c] \in Seq(Answers) /\ answers'[c] = Append(answers[c], a)
    BY <2>1
  <2>3. answers'[c] # <<>>
    <3>1. Len(answers'[c]) = Len(answers[c]) + 1 /\ Len(answers[c]) \in Nat
      BY <2>2
    <3> QED
      BY <3>1
  <2>4. answers[c] # <<>> => answers'[c][1] = answers[c][1]
    BY <2>2
  <2> QED
    BY <1>4, <2>1, <2>3, <2>4 DEF Service!Confirm
<1>5. ASSUME NEW a \in Answers, Service!Answer(c, a)
      PROVE  /\ d # c => UNCHANGED <<conn[d], answers[d], effect[d]>>
             /\ UNCHANGED <<effect, conn, asked>>
             /\ answers[c] = <<>> /\ conn[c] = "open"
  BY <1>5 DEF Service!Answer
<1> QED
  BY <1>1, <1>2, <1>3, <1>4, <1>5 DEF ServiceStepOf

LEMMA ReliableStep ==
  TypeOK /\ TypeOK' /\ Service!Reliable /\ [Service!Next]_(Service!vars)
    => Service!Reliable'
<1> SUFFICES ASSUME TypeOK, TypeOK', Service!Reliable,
                    [Service!Next]_(Service!vars)
             PROVE  Service!Reliable'
  OBVIOUS
<1>1. CASE UNCHANGED Service!vars
  BY <1>1 DEF Service!vars, Service!Reliable, Service!Served
<1>2. ASSUME NEW c \in Clients, ServiceStepOf(c)
      PROVE  Service!Reliable'
  <2>1. /\ asked' = asked
        /\ \A d \in Clients : d # c =>
              conn'[d] = conn[d] /\ answers'[d] = answers[d] /\ effect'[d] = effect[d]
    BY <1>2, ServiceMoves
  <2> DEFINE Right(x) ==
               /\ answers[x] # <<>> =>
                    /\ conn[x] \in {"open", "closed"}
                    /\ answers[x][1] \in Commands => asked[x] = answers[x][1]
               /\ effect[x] # "none" =>
                    /\ answers[x] # <<>> /\ answers[x][1] = effect[x]
                    /\ asked[x] = effect[x]
               /\ conn[x] = "closed" => Service!Served(x)
  <2>2. Right(c)
    BY DEF Service!Reliable
  <2>3. \A d \in Clients : conn[d] = "open" /\ conn[c] = "open" => d = c
    BY DEF Service!Reliable
  \* One's own step keeps what one can rely on.
  <2>4. Right(c)' /\ (conn'[c] = "open" =>
                        \A d \in Clients : conn[d] = "open" => d = c)
    <3> USE DEF TypeOK
    <3>1. CASE Service!Connect(c) \/ Service!Accept(c) \/ Service!Refuse(c)
      BY <2>2, <2>3, <3>1
         DEF Service!Connect, Service!Accept, Service!Refuse, Service!Become
    <3>2. CASE Service!Close(c)
      BY <2>2, <2>3, <3>2 DEF Service!Close, Service!Become, Service!Served
    <3>3. CASE Service!CarryOut(c)
      BY <2>2, <2>3, <3>3 DEF Service!CarryOut
    <3>4. CASE Service!Confirm(c)
      <4>1. conn' = conn /\ effect' = effect /\ conn[c] = "open"
        BY <3>4 DEF Service!Confirm
      <4>2. effect[c] # "none"
        BY <3>4 DEF Service!Confirm
      <4>3. answers'[c] # <<>> /\ answers'[c][1] = answers[c][1]
        BY <1>2, <2>2, <4>2, ServiceMoves
      <4> QED
        BY <2>1, <2>2, <2>3, <4>1, <4>2, <4>3
    <3>5. ASSUME NEW a \in Answers, Service!Answer(c, a)
          PROVE  Right(c)' /\ (conn'[c] = "open" =>
                                \A d \in Clients : conn[d] = "open" => d = c)
      <4>1. /\ conn' = conn /\ effect' = effect /\ conn[c] = "open"
            /\ answers[c] = <<>> /\ (a \in Commands => asked[c] = a)
        BY <3>5 DEF Service!Answer
      <4>2. answers'[c] = <<a>>
        BY <3>5 DEF Service!Answer
      <4> QED
        BY <2>1, <2>2, <2>3, <4>1, <4>2
    <3> QED
      BY <1>2, <3>1, <3>2, <3>3, <3>4, <3>5 DEF ServiceStepOf
  <2>5. ASSUME NEW d \in Clients
        PROVE  Right(d)'
    <3>1. CASE d = c
      BY <2>4, <3>1
    <3>2. CASE d # c
      BY <2>1, <3>2 DEF Service!Reliable, Service!Served
    <3> QED
      BY <3>1, <3>2
  <2>6. ASSUME NEW d \in Clients, NEW e \in Clients,
               conn'[d] = "open", conn'[e] = "open"
        PROVE  d = e
    BY <2>1, <2>4, <2>6 DEF Service!Reliable
  <2> HIDE DEF Right
  <2>7. \A d \in Clients : Right(d)'
    BY <2>5
  <2> QED
    BY <2>6, <2>7 DEF Right, Service!Reliable
<1> QED
  BY <1>1, <1>2, ServiceNextIs

\* Every client can rely on it that a command is carried out only if it was
\* asked for in full and after it was acknowledged, and that its connection
\* is not closed before all it is owed.
THEOREM ClientsCanRely == Spec => []Service!Reliable
<1>1. Init => Service!Reliable
  BY DEF Init, Service!Reliable
<1>2. IInv => TypeOK
  BY DEF IInv
<1> QED
  BY Invariance, ServiceStep, ReliableStep, <1>1, <1>2, PTL DEF Spec

\* No client's command is carried out twice, and a connection that is over
\* stays so, with what it was told and what was done for it.
THEOREM CommandsActOnce == Spec => Service!NothingIsRepeated
<1> DEFINE Kept(c) ==
             /\ effect[c] # "none" => effect'[c] = effect[c]
             /\ answers[c] # <<>> =>
                  answers'[c] # <<>> /\ answers'[c][1] = answers[c][1]
             /\ conn[c] \in {"refused", "closed"} =>
                  UNCHANGED <<conn[c], answers[c], effect[c]>>
<1>1. ASSUME TypeOK, Service!Next, NEW c \in Clients
      PROVE  Kept(c)
  <2>1. PICK d \in Clients : ServiceStepOf(d)
    BY <1>1, ServiceNextIs
  <2> QED
    BY <1>1, <2>1, ServiceMoves
<1>2. IInv /\ [Next]_vars => [\A c \in Clients : Kept(c)]_(Service!vars)
  <2> HIDE DEF Kept
  <2>1. IInv => TypeOK
    BY DEF IInv
  <2> QED
    BY <1>1, <2>1, ServiceStep
<1> QED
  BY Invariance, <1>2, PTL DEF Spec, Service!NothingIsRepeated
=============================================================================
