--------------------------- MODULE UsbDevice_proofs ---------------------------
(***************************************************************************)
(* Proofs about UsbDevice, for whatever indices the PC asks for.           *)
(***************************************************************************)
EXTENDS UsbDevice, SequenceTheorems, TLAPS

LEMMA Constants ==
  /\ DOMAIN string_desc_arr = 0..6
  /\ \A index \in 0..6 : string_desc_arr[index] \in 0..LongestString
  /\ SerialLength \in 0..LongestString /\ LongestString \in Nat
  /\ Named = 0..6
  /\ NoString \notin Named /\ 3 \in Named
  /\ ITF_RESET \in {i.number : i \in Interfaces}
<1>1. ASSUME NEW index \in 0..6
      PROVE  string_desc_arr[index] \in 0..24
  BY index = 0 \/ index = 1 \/ index = 2 \/ index = 3 \/ index = 4
     \/ index = 5 \/ index = 6 DEF string_desc_arr
<1>2. DOMAIN desc_configuration = {1, 2, 3, 4}
  BY DEF desc_configuration
<1>3. Interfaces = {desc_configuration[1], desc_configuration[2],
                    desc_configuration[3], desc_configuration[4]}
  BY <1>2 DEF Interfaces
<1>4. /\ {i.name : i \in Interfaces} = {0, 4, 5, 6}
      /\ 3 \in {i.number : i \in Interfaces}
  BY <1>3 DEF desc_configuration, ITF_RESET, ITF_NUM_CDC, ITF_NUM_CDC_DATA,
     ITF_NUM_MSC
<1>5. Named = 0..6
  BY <1>4 DEF Named, desc_device
<1> QED
  BY <1>1, <1>4, <1>5, IndicesAssumption
     DEF string_desc_arr, LongestString, SerialLength, ITF_RESET

\* The only vendor interface is the one with the number ITF_RESET.
LEMMA VendorInterface ==
  \A i \in Interfaces : i.class = "vendor" => i.number = ITF_RESET
<1>1. DOMAIN desc_configuration = {1, 2, 3, 4}
  BY DEF desc_configuration
<1> QED
  BY <1>1 DEF Interfaces, desc_configuration

Content == 0..255 \cup {NoString}

\* What is sent of the buffer after a string has been put into it.
LEMMA Sent ==
  ASSUME units \in [1..LongestString -> Content], NEW index \in 0..255,
         NEW length \in 0..LongestString, NEW filled, filled = Fill(index, length)
  PROVE  /\ filled \in [1..LongestString -> Content]
         /\ SubSeq(filled, 1, length) = [i \in 1..length |-> index]
         /\ SubSeq(filled, 1, length) \in Seq(Content)
<1>1. filled = [i \in 1..24 |-> IF i <= length THEN index ELSE units[i]]
  BY DEF Fill, LongestString
<1>2. filled \in [1..24 -> Content]
  <2>1. index \in Content /\ units \in [1..24 -> Content]
    BY DEF Content, LongestString
  <2> QED
    BY <1>1, <2>1
<1>3. length \in 0..24
  BY DEF LongestString
<1>4. \A i \in 1..length : filled[i] = index /\ filled[i] \in Content
  <2>1. index \in Content
    BY DEF Content
  <2> QED
    BY <1>1, <1>3, <2>1
<1> DEFINE sent == SubSeq(filled, 1, length)
<1>5. /\ sent \in Seq(Content) /\ Len(sent) = length
      /\ \A i \in 1..length : sent[i] = filled[1 + i - 1]
  BY <1>3, <1>4, SubSeqProperties
<1> HIDE DEF sent
<1>6. sent = [i \in 1..length |-> sent[i]]
  BY <1>3, <1>5
<1>7. \A i \in 1..length : sent[i] = index
  BY <1>3, <1>4, <1>5
<1>8. sent = [i \in 1..length |-> index]
  BY <1>6, <1>7
<1> QED
  BY <1>2, <1>5, <1>8 DEF LongestString, sent

-----------------------------------------------------------------------------
(* Between a bus reset and the next configuration the noted number is that *)
(* of another interface, and no request gets through.                      *)

ResetNoted == configured => reset_interface_number = ITF_RESET

IInv == TypeOK /\ StringsAreAnswered /\ ResetNoted

LEMMA InitIInv == Init => IInv
<1> SUFFICES ASSUME Init
             PROVE  IInv
  OBVIOUS
<1>1. <<>> \in Seq(Content)
  OBVIOUS
<1>2. 0 \in {i.number : i \in Interfaces}
  <2>1. desc_configuration[1] \in Interfaces
    BY DEF Interfaces, desc_configuration
  <2> QED
    BY <2>1 DEF desc_configuration, ITF_NUM_CDC
<1>3. TypeOK
  <2>1. Stall.length = 0 /\ Stall.units = <<>> /\ 0 \in 0..LongestString
    BY DEF Stall, LongestString
  <2>2. units \in [1..LongestString -> Content]
    BY DEF Init, Content
  <2> QED
    BY <1>1, <1>2, <2>1, <2>2 DEF Init, TypeOK, Content
<1>4. StringsAreAnswered /\ ResetNoted
  BY Constants DEF Init, StringsAreAnswered, ResetNoted
<1> QED
  BY <1>3, <1>4 DEF IInv

\* A string is put into the buffer, its length into the header.
LEMMA AnswerPreserves ==
  ASSUME IInv, NEW index \in Indices, index \in Named, NEW length \in 0..LongestString,
         length = (IF index = 3 THEN SerialLength ELSE string_desc_arr[index]),
         units' = Fill(index, length), header' = length, Answer(index)
  PROVE  IInv'
<1>1. /\ answer' = [length |-> length, units |-> SubSeq(units', 1, length)]
      /\ asked' = index /\ UNCHANGED <<mode, configured, reset_interface_number>>
  BY DEF Answer
<1>2. index \in 0..255 /\ units \in [1..LongestString -> Content]
  BY IndicesAssumption DEF IInv, TypeOK, Content
<1>3. /\ units' \in [1..LongestString -> Content]
      /\ SubSeq(units', 1, length) = [i \in 1..length |-> index]
      /\ SubSeq(units', 1, length) \in Seq(Content)
  BY <1>2, Sent
<1>4. TypeOK'
  BY <1>1, <1>3 DEF IInv, TypeOK, Content
<1>5. StringsAreAnswered'
  BY <1>1, <1>3 DEF StringsAreAnswered
<1>6. ResetNoted'
  BY <1>1 DEF IInv, ResetNoted
<1> QED
  BY <1>4, <1>5, <1>6 DEF IInv

\* Nothing is answered, to a request that is not for a string of the device.
LEMMA NoAnswerPreserves ==
  ASSUME IInv, NEW index \in Indices \cup {NoString}, index \notin Named,
         NoAnswer(index), UNCHANGED <<header, units>>,
         mode' \in {"running", "bootsel", "flash", "undefined"},
         configured' \in BOOLEAN,
         reset_interface_number' \in {i.number : i \in Interfaces}, ResetNoted'
  PROVE  IInv'
<1>1. answer' = Stall /\ asked' = index
  BY DEF NoAnswer
<1>2. Stall.length \in 0..LongestString /\ Stall.units \in Seq(Content)
  BY Constants DEF Stall, LongestString
<1>3. TypeOK'
  BY <1>1, <1>2 DEF IInv, TypeOK, Content
<1>4. StringsAreAnswered'
  BY <1>1 DEF StringsAreAnswered
<1> QED
  BY <1>3, <1>4 DEF IInv

LEMMA NextPreserves == IInv /\ [Next]_vars => IInv'
<1> SUFFICES ASSUME IInv, [Next]_vars
             PROVE  IInv'
  OBVIOUS
<1>1. TypeOK /\ ResetNoted
  BY DEF IInv
<1>2. CASE GetSerial
  BY <1>2, AnswerPreserves, Constants DEF GetSerial
<1>3. ASSUME NEW index \in Indices, GetString(index)
      PROVE  IInv'
  BY <1>3, AnswerPreserves, Constants DEF GetString
<1>4. ASSUME NEW index \in Indices, GetNoString(index) \/ GetBeyond(index)
      PROVE  IInv'
  <2>1. index \notin Named
    BY <1>4, Constants DEF GetNoString, GetBeyond
  <2>2. /\ NoAnswer(index)
        /\ UNCHANGED <<header, units, configured, reset_interface_number>>
        /\ mode' \in {"running", "bootsel", "flash", "undefined"}
    BY <1>1, <1>4 DEF GetNoString, GetBeyond, TypeOK
  <2> QED
    BY <1>1, <2>1, <2>2, NoAnswerPreserves DEF TypeOK, ResetNoted
<1>5. CASE SetConfiguration
  <2>1. /\ NoAnswer(NoString) /\ UNCHANGED <<mode, header, units>>
        /\ configured' = TRUE
        /\ \E i \in Interfaces :
             i.class = "vendor" /\ reset_interface_number' = i.number
    BY <1>5 DEF SetConfiguration
  <2>2. reset_interface_number' = ITF_RESET
    BY <2>1, VendorInterface
  <2> QED
    BY <1>1, <2>1, <2>2, NoAnswerPreserves, Constants DEF TypeOK, ResetNoted
<1>6. CASE BusReset
  <2>1. /\ NoAnswer(NoString) /\ UNCHANGED <<mode, header, units>>
        /\ configured' = FALSE /\ reset_interface_number' = 0
    BY <1>6 DEF BusReset
  <2>2. 0 \in {i.number : i \in Interfaces}
    <3>1. desc_configuration[1] \in Interfaces
      BY DEF Interfaces, desc_configuration
    <3> QED
      BY <3>1 DEF desc_configuration, ITF_NUM_CDC
  <2> QED
    BY <1>1, <2>1, <2>2, NoAnswerPreserves, Constants DEF TypeOK, ResetNoted
<1>7. ASSUME NEW index, NEW request, ControlXfer(index, request)
      PROVE  IInv'
  <2>1. /\ NoAnswer(NoString)
        /\ UNCHANGED <<configured, reset_interface_number, header, units>>
        /\ mode' \in {"running", "bootsel", "flash"}
    BY <1>7 DEF ControlXfer
  <2> QED
    BY <1>1, <2>1, NoAnswerPreserves, Constants DEF TypeOK, ResetNoted
<1>8. ASSUME NEW baud, LineCoding(baud)
      PROVE  IInv'
  <2>1. /\ NoAnswer(NoString)
        /\ UNCHANGED <<configured, reset_interface_number, header, units>>
        /\ mode' \in {"running", "bootsel"}
    BY <1>8 DEF LineCoding
  <2> QED
    BY <1>1, <2>1, NoAnswerPreserves, Constants DEF TypeOK, ResetNoted
<1>9. CASE UNCHANGED vars
  BY <1>9 DEF vars, IInv, TypeOK, StringsAreAnswered, ResetNoted
<1> QED
  BY <1>2, <1>3, <1>4, <1>5, <1>6, <1>7, <1>8, <1>9 DEF Next

LEMMA Invariance == Spec => []IInv
  BY InitIInv, NextPreserves, PTL DEF Spec

-----------------------------------------------------------------------------
(* The theorems                                                            *)

\* The variables keep their types: no string and no header exceeds the
\* static buffer.
THEOREM TypeCorrect == Spec => []TypeOK
<1>1. IInv => TypeOK
  BY DEF IInv
<1> QED
  BY <1>1, Invariance, PTL

\* Whatever was in the buffer before, a string the device names is sent whole.
THEOREM StringsAnswered == Spec => []StringsAreAnswered
<1>1. IInv => StringsAreAnswered
  BY DEF IInv
<1> QED
  BY <1>1, Invariance, PTL

\* A configured device obeys its reset interface after any number of resets
\* of the bus: the number is noted again with each configuration.
THEOREM ResetsObeyed == Spec => ResetsAreObeyed
<1> DEFINE Obeyed ==
      \A request \in {"bootsel", "flash"} :
        ControlXfer(ITF_RESET, request) => mode' = request
<1>1. IInv /\ [Next]_vars => [Obeyed]_vars
  BY DEF IInv, ResetNoted, ControlXfer
<1> QED
  BY <1>1, Invariance, PTL DEF Spec, ResetsAreObeyed
=============================================================================
