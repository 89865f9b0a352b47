--------------------------- MODULE BootDisk_proofs ---------------------------
(***************************************************************************)
(* Proofs about BootDisk, for any users, numbers and texts of the PC, and  *)
(* about BootFile, for any lengths the PC gives the file.                  *)
(***************************************************************************)
EXTENDS BootFile, SequenceTheorems, TLAPS

-----------------------------------------------------------------------------
(* The line that set_boot_select prints                                    *)

NDigits(v) == IF v < 10 THEN 1 ELSE IF v < 100 THEN 2 ELSE 3

\* The number that the first k digits of v make.
Leading(v, k) ==
  IF k = 0 THEN 0
  ELSE IF k = NDigits(v) THEN v
  ELSE IF k = NDigits(v) - 1 THEN v \div 10
  ELSE v \div 100

LEMMA Tuples ==
  ASSUME NEW a \in Digit, NEW b \in Digit, NEW c \in Digit
  PROVE  /\ <<a, b>> \in Seq(Digit) /\ Len(<<a, b>>) = 2
         /\ <<a, b, c>> \in Seq(Digit) /\ Len(<<a, b, c>>) = 3
  OBVIOUS

LEMMA DigitsOf ==
  ASSUME NEW v \in 0..255
  PROVE  /\ Digits(v) \in Seq(Digit)
         /\ Len(Digits(v)) = NDigits(v) /\ NDigits(v) \in 1..3
         /\ \A k \in 1..NDigits(v) :
              Leading(v, k) = 10 * Leading(v, k - 1) + Digits(v)[k]
<1> USE DEF Digits, NDigits, Leading, Digit
<1>1. CASE v < 10
  BY <1>1
<1>2. CASE v >= 10 /\ v < 100
  <2>1. /\ v \div 10 \in 0..9 /\ v % 10 \in 0..9
        /\ v = 10 * (v \div 10) + (v % 10)
    BY <1>2
  <2>2. Digits(v) = <<v \div 10, v % 10>> /\ NDigits(v) = 2
    BY <1>2
  <2>3. Digits(v) \in Seq(Digit) /\ Len(Digits(v)) = 2
    BY <2>1, <2>2, Tuples
  <2>4. ASSUME NEW k \in 1..2
        PROVE  Leading(v, k) = 10 * Leading(v, k - 1) + Digits(v)[k]
    BY <2>1, <2>2, k = 1 \/ k = 2
  <2> QED
    BY <2>2, <2>3, <2>4
<1>3. CASE v >= 100
  <2>1. /\ v \div 100 \in 0..9 /\ (v \div 10) % 10 \in 0..9 /\ v % 10 \in 0..9
        /\ v = 10 * (v \div 10) + (v % 10)
        /\ v \div 10 = 10 * (v \div 100) + ((v \div 10) % 10)
    BY <1>3
  <2>2. /\ Digits(v) = <<v \div 100, (v \div 10) % 10, v % 10>>
        /\ NDigits(v) = 3
    BY <1>3
  <2>3. Digits(v) \in Seq(Digit) /\ Len(Digits(v)) = 3
    BY <2>1, <2>2, Tuples
  <2>4. ASSUME NEW k \in 1..3
        PROVE  Leading(v, k) = 10 * Leading(v, k - 1) + Digits(v)[k]
    BY <2>1, <2>2, k = 1 \/ k = 2 \/ k = 3
  <2> QED
    BY <2>2, <2>3, <2>4
<1> QED
  BY <1>1, <1>2, <1>3

LEMMA FormatOf ==
  ASSUME NEW v \in 0..255
  PROVE  /\ Format(v) \in Seq(Char) /\ Len(Format(v)) = NDigits(v) + 4
         /\ \A k \in 1..NDigits(v) : Format(v)[k + 1] = Digits(v)[k]
         /\ Format(v)[NDigits(v) + 2] = Quote
<1> DEFINE d == Digits(v)
<1>1. d \in Seq(Char) /\ Len(d) = NDigits(v) /\ NDigits(v) \in 1..3
  <2>1. d \in Seq(Digit) /\ Len(d) = NDigits(v) /\ NDigits(v) \in 1..3
    BY DigitsOf
  <2>2. \A i \in 1..Len(d) : d[i] \in Char
    BY <2>1 DEF Char
  <2> QED
    BY <2>1, <2>2
<1> HIDE DEF d
<1>2. <<Prefix>> \in Seq(Char) /\ <<Quote, Newline, Nul>> \in Seq(Char)
  BY DEF Prefix, Quote, Newline, Nul, Char
<1> DEFINE front == <<Prefix>> \o d
<1>3. front \in Seq(Char) /\ Len(front) = 1 + NDigits(v)
  BY <1>1, <1>2
<1>4. \A k \in 1..NDigits(v) : front[k + 1] = d[k]
  BY <1>1, <1>2
<1> HIDE DEF front
<1>5. Format(v) = front \o <<Quote, Newline, Nul>>
  BY DEF Format, front, d
<1>6. Format(v) \in Seq(Char) /\ Len(Format(v)) = NDigits(v) + 4
  BY <1>1, <1>2, <1>3, <1>5
<1>7. \A k \in 1..NDigits(v) : Format(v)[k + 1] = d[k]
  BY <1>1, <1>3, <1>4, <1>5
<1>8. Format(v)[NDigits(v) + 2] = Quote
  BY <1>1, <1>3, <1>5
<1> QED
  BY <1>6, <1>7, <1>8 DEF d

\* The part of a line in which strtoul finds its number.
Shows(cells, v) ==
  /\ \A k \in 1..NDigits(v) : cells[k + 1] = Digits(v)[k]
  /\ cells[NDigits(v) + 2] = Quote

\* It is in the block if the text that begins with it is.
LEMMA LastShows ==
  ASSUME NEW v \in 0..255, NEW text \in Seq(Char), Len(text) <= Cells,
         Holds(Pad(text), Format(v)), NEW cells, Holds(cells, text)
  PROVE  Shows(cells, v)
<1>1. /\ Digits(v) \in Seq(Digit) /\ Len(Digits(v)) = NDigits(v)
      /\ NDigits(v) \in 1..3
  BY DigitsOf
<1>2. /\ Len(Format(v)) = NDigits(v) + 4
      /\ \A k \in 1..NDigits(v) : Format(v)[k + 1] = Digits(v)[k]
      /\ Format(v)[NDigits(v) + 2] = Quote
  BY FormatOf
<1>3. \A k \in 1..NDigits(v) : Digits(v)[k] \in 0..9
  BY <1>1 DEF Digit
<1>4. ASSUME NEW i \in 1..(NDigits(v) + 4)
      PROVE  Pad(text)[i] = Format(v)[i]
  BY <1>2 DEF Holds
<1>5. ASSUME NEW i \in 1..(NDigits(v) + 4), Format(v)[i] # Nul
      PROVE  cells[i] = Format(v)[i]
  <2>1. Len(text) \in Nat /\ i \in 1..Cells
    BY <1>1 DEF Cells
  <2>2. Pad(text)[i] = IF i <= Len(text) THEN text[i] ELSE Nul
    BY <2>1 DEF Pad
  <2>3. i \in 1..Len(text) /\ text[i] = Format(v)[i]
    BY <1>4, <1>5, <2>1, <2>2
  <2> QED
    BY <2>3 DEF Holds
<1>6. ASSUME NEW k \in 1..NDigits(v)
      PROVE  cells[k + 1] = Digits(v)[k]
  <2>1. k + 1 \in 1..(NDigits(v) + 4)
    BY <1>1
  <2>2. Format(v)[k + 1] = Digits(v)[k]
    BY <1>2
  <2>3. Digits(v)[k] # Nul
    BY <1>3 DEF Nul
  <2>4. cells[k + 1] = Format(v)[k + 1]
    BY <1>5, <2>1, <2>2, <2>3
  <2> QED
    BY <2>2, <2>4
<1>7. cells[NDigits(v) + 2] = Quote
  <2>1. Quote # Nul /\ NDigits(v) + 2 \in 1..(NDigits(v) + 4)
    BY <1>1 DEF Quote, Nul
  <2> QED
    BY <1>2, <1>5, <2>1
<1> QED
  BY <1>6, <1>7 DEF Shows

-----------------------------------------------------------------------------
(* The invariant                                                           *)

\* Types, with the texts as sequences, and where in its text a loop can be.
TypesInv ==
  /\ block \in [1..Cells -> Char]
  /\ op \in [Actors -> {"idle", "set", "get", "write10", "read10", "done"}]
  /\ at \in [Actors -> 1..(Cells + 1)]
  /\ out \in [Actors -> Seq(Char)] /\ \A a \in Actors : Len(out[a]) <= Cells
  /\ acc \in [Actors -> Nat]
  /\ copy \in [1..Cells -> Char]
  /\ clean \in [Actors -> BOOLEAN]
  /\ last \in Seq(Char) /\ Len(last) <= Cells
  /\ whole \in BOOLEAN
  /\ \A a \in Actors :
       /\ Writing(a) => at[a] <= Len(out[a])
       /\ op[a] = "read10" => a = Host /\ at[a] <= Cells

\* A clean writer is the only one, its text is the last one begun, and the
\* cells behind it hold it.  Once it is done nobody is writing.
WriteInv ==
  /\ \A a \in Actors : Writing(a) /\ clean[a] =>
       /\ \A b \in Actors : Writing(b) => b = a
       /\ out[a] = last
       /\ \A i \in 1..(at[a] - 1) : block[i] = last[i]
  /\ whole => Holds(block, last) /\ \A a \in Actors : ~Writing(a)

\* Beside a clean reader nobody writes.  The PC's copy is the block so far,
\* and a get has made the number of the digits it has passed.
ReadsOn(a) ==
  /\ \A b \in Actors : ~Writing(b)
  /\ op[a] = "read10" => \A i \in 1..(at[a] - 1) : copy[i] = block[i]
  /\ op[a] = "get" =>
       \A v \in 0..255 : Shows(block, v) =>
         \E k \in 0..NDigits(v) : at[a] = k + 2 /\ acc[a] = Leading(v, k)

ReadInv ==
  \A a \in Actors : op[a] \in {"get", "read10"} /\ clean[a] => ReadsOn(a)

IInv == TypesInv /\ WriteInv /\ ReadInv

-----------------------------------------------------------------------------
\* A reader is not disturbed by a step of another actor that writes nothing.
LEMMA ReaderKept ==
  ASSUME NEW b \in Actors, ReadsOn(b), block' = block, op'[b] = op[b],
         at'[b] = at[b], acc'[b] = acc[b], op[b] = "read10" => copy' = copy,
         \A c \in Actors : Writing(c)' <=> Writing(c)
  PROVE  ReadsOn(b)'
<1>1. \A c \in Actors : ~Writing(c)'
  BY DEF ReadsOn
<1>2. op'[b] = "read10" => \A i \in 1..(at'[b] - 1) : copy'[i] = block'[i]
  BY DEF ReadsOn
<1>3. ASSUME op'[b] = "get", NEW v \in 0..255, Shows(block', v)
      PROVE  \E k \in 0..NDigits(v) : at'[b] = k + 2 /\ acc'[b] = Leading(v, k)
  <2>1. op[b] = "get" /\ Shows(block, v)
    BY <1>3
  <2>2. \E k \in 0..NDigits(v) : at[b] = k + 2 /\ acc[b] = Leading(v, k)
    BY <2>1 DEF ReadsOn
  <2> QED
    BY <2>2
<1> QED
  BY <1>1, <1>2, <1>3 DEF ReadsOn

LEMMA TextTypes ==
  /\ \A v \in 0..255 : Format(v) \in Seq(Char) /\ Len(Format(v)) \in 1..Cells
  /\ \A text \in HostTexts : text \in Seq(Char) /\ Len(text) \in 1..Cells
<1>1. ASSUME NEW v \in 0..255
      PROVE  Format(v) \in Seq(Char) /\ Len(Format(v)) \in 1..Cells
  <2>1. Format(v) \in Seq(Char) /\ Len(Format(v)) = NDigits(v) + 4
    BY FormatOf
  <2>2. NDigits(v) \in 1..3
    BY DigitsOf
  <2> QED
    BY <2>1, <2>2 DEF Cells
<1>2. ASSUME NEW text \in HostTexts
      PROVE  text \in Seq(Char) /\ Len(text) \in 1..Cells
  <2>1. text \in [1..7 -> Char]
    BY HostTextsAssumption DEF Cells
  <2>2. text \in Seq(Char)
    <3>1. Seq(Char) = UNION {[1..n -> Char] : n \in Nat} /\ 7 \in Nat
      BY SeqDef
    <3>2. [1..7 -> Char] \in {[1..n -> Char] : n \in Nat}
      BY <3>1
    <3> QED
      BY <2>1, <3>1, <3>2, Zenon
  <2>3. Len(text) \in Nat /\ DOMAIN text = 1..Len(text)
    BY <2>2, LenProperties
  <2>4. DOMAIN text = 1..7
    BY <2>1
  <2>5. \A n \in Nat : n \in 1..Len(text) <=> n \in 1..7
    BY <2>3, <2>4
  <2>6. 7 \in 1..Len(text) /\ Len(text) \in 1..7
    BY <2>3, <2>5
  <2> QED
    BY <2>2, <2>6 DEF Cells
<1> QED
  BY <1>1, <1>2

LEMMA PadTypes ==
  ASSUME NEW text \in Seq(Char)
  PROVE  Pad(text) \in [1..Cells -> Char]
<1>1. Nul \in Char
  BY DEF Nul, Char
<1>2. \A i \in 1..Cells : i <= Len(text) => text[i] \in Char
  BY DEF Cells
<1> QED
  BY <1>1, <1>2 DEF Pad

\* Format(0) is five cells, and the block begins as it.
LEMMA InitIInv == Init => IInv
<1> SUFFICES ASSUME Init
             PROVE  IInv
  OBVIOUS
<1> DEFINE line == Format(0)
<1>1. line \in Seq(Char) /\ Len(line) \in 1..Cells
  BY TextTypes
<1>2. Pad(line) \in [1..Cells -> Char] /\ Pad(<<>>) \in [1..Cells -> Char]
  BY <1>1, PadTypes, EmptySeq
<1>3. Holds(Pad(line), line)
  BY <1>1 DEF Holds, Pad, Cells
<1>4. 1 \in 1..(Cells + 1) /\ 0 <= Cells
  BY DEF Cells
<1> HIDE DEF line
<1>5. /\ block = Pad(line) /\ last = line /\ copy = Pad(<<>>) /\ whole = TRUE
      /\ op = [a \in Actors |-> "idle"] /\ at = [a \in Actors |-> 1]
      /\ out = [a \in Actors |-> <<>>] /\ acc = [a \in Actors |-> 0]
      /\ clean = [a \in Actors |-> TRUE]
  BY DEF Init, line
<1>6. TypesInv
  BY <1>1, <1>2, <1>4, <1>5 DEF TypesInv, Writing
<1>7. WriteInv /\ ReadInv
  BY <1>3, <1>5 DEF WriteInv, ReadInv, Writing
<1> QED
  BY <1>6, <1>7 DEF IInv

\* A writer begins: it spoils all the others.
LEMMA BeginWritePreserves ==
  ASSUME IInv, NEW a \in Actors, NEW what \in {"set", "write10"},
         NEW text \in Seq(Char), Len(text) \in 1..Cells,
         BeginWrite(a, what, text)
  PROVE  IInv'
<1>1. TypesInv /\ WriteInv /\ ReadInv
  BY DEF IInv
<1>2. /\ op[a] = "idle" /\ op' = [op EXCEPT ![a] = what]
      /\ at' = [at EXCEPT ![a] = 1] /\ out' = [out EXCEPT ![a] = text]
      /\ last' = text /\ whole' = FALSE /\ UNCHANGED <<block, acc, copy>>
  BY DEF BeginWrite, Begin
<1>3. clean' = [b \in Actors |->
                 IF b = a THEN ~Overlapped(a) ELSE clean[b] /\ op[b] = "idle"]
  BY DEF BeginWrite
<1>4. Len(text) <= Cells /\ 1 <= Len(text) /\ 1 \in 1..(Cells + 1)
  <2>1. Cells \in Nat /\ 1 \in 1..(Cells + 1)
    BY DEF Cells
  <2>2. \A n \in 1..Cells : n <= Cells /\ 1 <= n
    BY <2>1
  <2> QED
    BY <2>1, <2>2
<1>5. /\ op \in [Actors -> {"idle", "set", "get", "write10", "read10", "done"}]
      /\ at \in [Actors -> 1..(Cells + 1)] /\ out \in [Actors -> Seq(Char)]
  BY <1>1 DEF TypesInv
<1>6. /\ clean' \in [Actors -> BOOLEAN] /\ (clean'[a] => ~Overlapped(a))
      /\ \A b \in Actors : b # a /\ clean'[b] => op[b] = "idle"
  BY <1>1, <1>3, Zenon DEF TypesInv
<1>7. \A b \in Actors : b # a =>
        op'[b] = op[b] /\ at'[b] = at[b] /\ out'[b] = out[b]
  BY <1>2, <1>5
<1>8. op'[a] = what /\ at'[a] = 1 /\ out'[a] = text
  BY <1>2, <1>5
<1>9. clean'[a] => \A b \in Actors : Writing(b)' => b = a
  BY <1>6, <1>7 DEF Writing, Overlapped, Others
<1>10. TypesInv'
  <2>1. /\ op' \in [Actors -> {"idle", "set", "get", "write10", "read10", "done"}]
        /\ at' \in [Actors -> 1..(Cells + 1)] /\ out' \in [Actors -> Seq(Char)]
    BY <1>2, <1>4, <1>5
  <2>2. \A b \in Actors : Len(out'[b]) <= Cells
    BY <1>1, <1>4, <1>7, <1>8 DEF TypesInv
  <2>3. ASSUME NEW b \in Actors
        PROVE  /\ Writing(b)' => at'[b] <= Len(out'[b])
               /\ op'[b] = "read10" => b = Host /\ at'[b] <= Cells
    <3>1. CASE b = a
      BY <3>1, <1>4, <1>8
    <3>2. CASE b # a
      BY <3>2, <1>1, <1>7 DEF TypesInv, Writing
    <3> QED
      BY <3>1, <3>2
  <2> QED
    BY <1>1, <1>2, <1>4, <1>6, <2>1, <2>2, <2>3 DEF TypesInv
<1>11. WriteInv'
  <2>1. ASSUME NEW b \in Actors, Writing(b)', clean'[b]
        PROVE  b = a
    BY <1>6, <1>7, <2>1 DEF Writing
  <2> QED
    BY <1>2, <1>8, <1>9, <2>1 DEF WriteInv
<1>12. \A b \in Actors : op'[b] \in {"get", "read10"} => b # a /\ ~clean'[b]
  BY <1>6, <1>7, <1>8
<1> QED
  BY <1>10, <1>11, <1>12 DEF IInv, ReadInv

LEMMA BeginReadPreserves ==
  ASSUME IInv, NEW a \in Actors, NEW what \in {"get", "read10"},
         NEW from \in 1..2, BeginRead(a, what, from), copy' = copy,
         IF what = "get" THEN from = 2 /\ acc' = [acc EXCEPT ![a] = 0]
                         ELSE from = 1 /\ a = Host /\ acc' = acc
  PROVE  IInv'
<1>1. TypesInv /\ WriteInv /\ ReadInv
  BY DEF IInv
<1>2. /\ op[a] = "idle" /\ op' = [op EXCEPT ![a] = what]
      /\ at' = [at EXCEPT ![a] = from]
      /\ clean' = [clean EXCEPT ![a] = ~Overlapped(a)]
      /\ UNCHANGED <<block, out, last, whole>>
  BY DEF BeginRead, Begin
<1>3. /\ op \in [Actors -> {"idle", "set", "get", "write10", "read10", "done"}]
      /\ at \in [Actors -> 1..(Cells + 1)] /\ acc \in [Actors -> Nat]
      /\ clean \in [Actors -> BOOLEAN]
  BY <1>1 DEF TypesInv
<1>4. /\ clean' \in [Actors -> BOOLEAN] /\ (clean'[a] => ~Overlapped(a))
      /\ \A b \in Actors : b # a => (clean'[b] <=> clean[b])
  BY <1>2, <1>3, Zenon
<1>5. \A b \in Actors : b # a =>
        op'[b] = op[b] /\ at'[b] = at[b] /\ acc'[b] = acc[b]
  BY <1>2, <1>3
<1>6. op'[a] = what /\ at'[a] = from /\ (what = "get" => acc'[a] = 0)
  BY <1>2, <1>3
<1>7. \A b \in Actors : Writing(b)' <=> Writing(b)
  BY <1>2, <1>5, <1>6 DEF Writing
<1>8. TypesInv'
  <2>1. /\ op' \in [Actors -> {"idle", "set", "get", "write10", "read10", "done"}]
        /\ at' \in [Actors -> 1..(Cells + 1)] /\ acc' \in [Actors -> Nat]
    BY <1>2, <1>3 DEF Cells
  <2>2. ASSUME NEW b \in Actors
        PROVE  /\ Writing(b)' => at'[b] <= Len(out'[b])
               /\ op'[b] = "read10" => b = Host /\ at'[b] <= Cells
    <3>1. CASE b = a
      BY <3>1, <1>6 DEF Writing, Cells
    <3>2. CASE b # a
      BY <3>2, <1>1, <1>2, <1>5 DEF TypesInv, Writing
    <3> QED
      BY <3>1, <3>2
  <2> QED
    BY <1>1, <1>2, <1>4, <2>1, <2>2 DEF TypesInv
<1>9. WriteInv'
  <2>1. ASSUME NEW b \in Actors, Writing(b)', clean'[b]
        PROVE  b # a /\ Writing(b) /\ clean[b]
    BY <1>2, <1>4, <1>7, <2>1 DEF Writing
  <2> QED
    BY <1>1, <1>2, <1>5, <1>7, <2>1 DEF WriteInv
<1>10. ReadInv'
  <2> SUFFICES ASSUME NEW b \in Actors, op'[b] \in {"get", "read10"}, clean'[b]
               PROVE  ReadsOn(b)'
    BY DEF ReadInv
  <2>1. CASE b # a
    <3>1. ReadsOn(b)
      BY <2>1, <1>1, <1>4, <1>5 DEF ReadInv
    <3> QED
      BY <2>1, <3>1, <1>2, <1>5, <1>7, ReaderKept
  <2>2. CASE b = a
    <3>1. \A c \in Actors : ~Writing(c)'
      BY <2>2, <1>2, <1>4, <1>7 DEF Overlapped, Others, Writing
    <3>2. \A v \in 0..255 : 0 \in 0..NDigits(v) /\ Leading(v, 0) = 0
      BY DEF NDigits, Leading
    <3>3. op'[b] = "read10" => at'[b] = 1
      BY <2>2, <1>6
    <3>4. op'[b] = "get" => at'[b] = 0 + 2 /\ acc'[b] = 0
      BY <2>2, <1>6
    <3>5. op'[b] = "get" =>
            \A v \in 0..255 :
              \E k \in 0..NDigits(v) : at'[b] = k + 2 /\ acc'[b] = Leading(v, k)
      <4> SUFFICES ASSUME op'[b] = "get", NEW v \in 0..255
                   PROVE  \E k \in 0..NDigits(v) :
                            at'[b] = k + 2 /\ acc'[b] = Leading(v, k)
        OBVIOUS
      <4>1. 0 \in 0..NDigits(v) /\ Leading(v, 0) = 0
        BY <3>2
      <4> QED
        BY <3>4, <4>1
    <3>6. op'[b] = "read10" => 1..(at'[b] - 1) = {}
      BY <3>3
    <3> QED
      BY <3>1, <3>5, <3>6 DEF ReadsOn
  <2> QED
    BY <2>1, <2>2
<1> QED
  BY <1>8, <1>9, <1>10 DEF IInv

LEMMA WriteCellPreserves ==
  ASSUME IInv, NEW a \in Actors, WriteCell(a)
  PROVE  IInv'
<1>1. TypesInv /\ WriteInv /\ ReadInv
  BY DEF IInv
<1> DEFINE i == at[a]
           done == i = Len(out[a])
<1>2. /\ Writing(a) /\ block' = [block EXCEPT ![i] = out[a][i]]
      /\ at' = [at EXCEPT ![a] = i + 1]
      /\ op' = IF done THEN [op EXCEPT ![a] = "done"] ELSE op
      /\ UNCHANGED <<out, acc, copy, clean, last>>
  BY DEF WriteCell
<1>3. whole' \in BOOLEAN /\ (whole' => done /\ clean[a])
  BY DEF WriteCell
<1>4. /\ op \in [Actors -> {"idle", "set", "get", "write10", "read10", "done"}]
      /\ at \in [Actors -> 1..(Cells + 1)] /\ block \in [1..Cells -> Char]
      /\ out[a] \in Seq(Char) /\ Len(out[a]) <= Cells /\ i <= Len(out[a])
  BY <1>1, <1>2 DEF TypesInv
<1>5. /\ i \in 1..Len(out[a]) /\ i \in 1..Cells /\ i + 1 \in 1..(Cells + 1)
      /\ out[a][i] \in Char
  BY <1>4 DEF Cells
<1>6. \A b \in Actors : b # a => op'[b] = op[b] /\ at'[b] = at[b]
  BY <1>2, <1>4
<1>7. at'[a] = i + 1 /\ op'[a] = IF done THEN "done" ELSE op[a]
  BY <1>2, <1>4
<1>8. \A j \in 1..Cells : block'[j] = IF j = i THEN out[a][i] ELSE block[j]
  BY <1>2, <1>4
<1>9. \A b \in Actors : Writing(b)' => Writing(b)
  BY <1>6, <1>7 DEF Writing
<1>10. TypesInv'
  <2>1. /\ op' \in [Actors -> {"idle", "set", "get", "write10", "read10", "done"}]
        /\ at' \in [Actors -> 1..(Cells + 1)] /\ block' \in [1..Cells -> Char]
    BY <1>2, <1>4, <1>5
  <2>2. ASSUME NEW b \in Actors
        PROVE  /\ Writing(b)' => at'[b] <= Len(out'[b])
               /\ op'[b] = "read10" => b = Host /\ at'[b] <= Cells
    <3>1. CASE b = a
      BY <3>1, <1>2, <1>4, <1>5, <1>7 DEF Writing
    <3>2. CASE b # a
      BY <3>2, <1>1, <1>2, <1>6 DEF TypesInv, Writing
    <3> QED
      BY <3>1, <3>2
  <2> QED
    BY <1>1, <1>2, <1>3, <2>1, <2>2 DEF TypesInv
\* A clean writer goes on alone; of the others none is clean.
<1>11. ASSUME clean[a]
       PROVE  /\ \A b \in Actors : Writing(b) => b = a
              /\ out[a] = last /\ i <= Len(last)
              /\ \A j \in 1..i : block'[j] = last[j]
  <2>1. /\ \A b \in Actors : Writing(b) => b = a
        /\ out[a] = last /\ \A j \in 1..(i - 1) : block[j] = last[j]
    BY <1>1, <1>2, <1>11 DEF WriteInv
  <2>2. ASSUME NEW j \in 1..i
        PROVE  block'[j] = last[j]
    <3>1. j \in 1..Cells /\ (j = i \/ j \in 1..(i - 1))
      BY <1>5 DEF Cells
    <3> QED
      BY <3>1, <2>1, <1>8
  <2> QED
    BY <2>1, <2>2, <1>4
<1>12. WriteInv'
  <2>1. ASSUME NEW b \in Actors, Writing(b)', clean'[b]
        PROVE  /\ \A c \in Actors : Writing(c)' => c = b
               /\ out'[b] = last'
               /\ \A j \in 1..(at'[b] - 1) : block'[j] = last'[j]
    <3>1. b = a
      BY <1>1, <1>2, <1>9, <2>1 DEF WriteInv
    <3>2. at'[b] - 1 = i
      BY <3>1, <1>5, <1>7
    <3> QED
      BY <3>1, <3>2, <2>1, <1>2, <1>9, <1>11
  <2>2. ASSUME whole'
        PROVE  Holds(block', last') /\ \A b \in Actors : ~Writing(b)'
    <3>1. clean[a] /\ i = Len(last)
      BY <2>2, <1>3, <1>11
    <3>2. ~Writing(a)'
      BY <2>2, <1>3, <1>7 DEF Writing
    <3> QED
      BY <3>1, <3>2, <1>2, <1>9, <1>11 DEF Holds
  <2> QED
    BY <2>1, <2>2 DEF WriteInv
<1>13. \A b \in Actors : op'[b] \in {"get", "read10"} => ~clean'[b]
  BY <1>1, <1>2, <1>6, <1>7 DEF ReadInv, ReadsOn, Writing
<1> QED
  BY <1>10, <1>12, <1>13 DEF IInv, ReadInv

\* A get passes one more digit of the number, never the quotation mark.
LEMMA ReadDigitPreserves ==
  ASSUME IInv, NEW u \in Users, ReadDigit(u)
  PROVE  IInv'
<1>1. TypesInv /\ WriteInv /\ ReadInv /\ u \in Actors
  BY DEF IInv, Actors
<1>2. /\ op[u] = "get" /\ CellAt(at[u]) \in Digit
      /\ acc' = [acc EXCEPT ![u] = 10 * @ + block[at[u]]]
      /\ at' = [at EXCEPT ![u] = @ + 1]
      /\ UNCHANGED <<block, op, out, copy, clean, last, whole>>
  BY DEF ReadDigit
<1>3. /\ at \in [Actors -> 1..(Cells + 1)] /\ acc \in [Actors -> Nat]
      /\ block \in [1..Cells -> Char]
  BY <1>1 DEF TypesInv
<1>4. at[u] \in 1..Cells /\ block[at[u]] \in 0..9
  BY <1>1, <1>2, <1>3 DEF CellAt, Digit, Nul, Cells
<1>5. at'[u] = at[u] + 1 /\ acc'[u] = 10 * acc[u] + block[at[u]]
  BY <1>1, <1>2, <1>3
<1>6. \A b \in Actors : b # u => at'[b] = at[b] /\ acc'[b] = acc[b]
  BY <1>2, <1>3
<1>7. ~Writing(u) /\ \A b \in Actors : Writing(b)' <=> Writing(b)
  BY <1>2 DEF Writing
<1>8. TypesInv'
  <2>1. at[u] + 1 \in 1..(Cells + 1) /\ 10 * acc[u] + block[at[u]] \in Nat
    BY <1>1, <1>3, <1>4 DEF Cells
  <2>2. at' \in [Actors -> 1..(Cells + 1)] /\ acc' \in [Actors -> Nat]
    BY <2>1, <1>2, <1>3
  <2>3. ASSUME NEW b \in Actors
        PROVE  /\ Writing(b)' => at'[b] <= Len(out'[b])
               /\ op'[b] = "read10" => b = Host /\ at'[b] <= Cells
    BY <1>1, <1>2, <1>6, <1>7 DEF TypesInv
  <2> QED
    BY <1>1, <1>2, <2>2, <2>3 DEF TypesInv
<1>9. WriteInv'
  BY <1>1, <1>2, <1>6, <1>7 DEF WriteInv
<1>10. ReadInv'
  <2> SUFFICES ASSUME NEW b \in Actors, op'[b] \in {"get", "read10"}, clean'[b]
               PROVE  ReadsOn(b)'
    BY DEF ReadInv
  <2>0. ReadsOn(b)
    BY <1>1, <1>2 DEF ReadInv
  <2>1. CASE b # u
    BY <2>0, <2>1, <1>2, <1>6, <1>7, ReaderKept
  <2>2. CASE b = u
    <3>1. \A c \in Actors : ~Writing(c)'
      BY <2>0, <1>7 DEF ReadsOn
    <3>2. ASSUME NEW v \in 0..255, Shows(block, v)
          PROVE  \E k \in 0..NDigits(v) :
                   at'[u] = k + 2 /\ acc'[u] = Leading(v, k)
      <4>1. PICK k \in 0..NDigits(v) :
                   at[u] = k + 2 /\ acc[u] = Leading(v, k)
        BY <2>0, <2>2, <3>2, <1>2 DEF ReadsOn
      <4>2. NDigits(v) \in 1..3
        BY DigitsOf
      <4>3. k # NDigits(v)
        BY <3>2, <4>1, <1>4 DEF Shows, Quote
      <4>4. k + 1 \in 1..NDigits(v) /\ (k + 1) - 1 = k
        BY <4>2, <4>3
      <4>5. block[k + 2] = Digits(v)[k + 1]
        <5>1. block[(k + 1) + 1] = Digits(v)[k + 1] /\ (k + 1) + 1 = k + 2
          BY <3>2, <4>4 DEF Shows
        <5> QED
          BY <5>1
      <4>6. Leading(v, k + 1) = 10 * Leading(v, k) + Digits(v)[k + 1]
        BY <4>4, DigitsOf
      <4>7. at'[u] = (k + 1) + 2 /\ acc'[u] = Leading(v, k + 1)
        BY <4>1, <4>5, <4>6, <1>5
      <4> QED
        BY <4>2, <4>4, <4>7
    <3> QED
      BY <2>2, <3>1, <3>2, <1>2 DEF ReadsOn
  <2> QED
    BY <2>1, <2>2
<1> QED
  BY <1>8, <1>9, <1>10 DEF IInv

\* The steps that only end an operation, or forget it.
LEMMA EndPreserves ==
  ASSUME IInv, NEW a \in Actors, NEW what \in {"idle", "done"},
         op' = [op EXCEPT ![a] = what], ~Writing(a),
         at' \in [Actors -> 1..(Cells + 1)], acc' \in [Actors -> Nat],
         out' \in [Actors -> Seq(Char)], \A b \in Actors : Len(out'[b]) <= Cells,
         copy' \in [1..Cells -> Char], clean' \in [Actors -> BOOLEAN],
         \A b \in Actors : b # a =>
           /\ at'[b] = at[b] /\ acc'[b] = acc[b] /\ out'[b] = out[b]
           /\ clean'[b] <=> clean[b],
         a = Host \/ copy' = copy, UNCHANGED <<block, last, whole>>
  PROVE  IInv'
<1>1. TypesInv /\ WriteInv /\ ReadInv
  BY DEF IInv
<1>2. op \in [Actors -> {"idle", "set", "get", "write10", "read10", "done"}]
  BY <1>1 DEF TypesInv
<1>3. op'[a] = what /\ \A b \in Actors : b # a => op'[b] = op[b]
  BY <1>2
<1>4. \A b \in Actors : Writing(b)' <=> Writing(b)
  BY <1>3 DEF Writing
<1>5. TypesInv'
  <2>1. op' \in [Actors -> {"idle", "set", "get", "write10", "read10", "done"}]
    BY <1>2
  <2>2. ASSUME NEW b \in Actors
        PROVE  /\ Writing(b)' => at'[b] <= Len(out'[b])
               /\ op'[b] = "read10" => b = Host /\ at'[b] <= Cells
    <3>1. CASE b = a
      BY <3>1, <1>3, <1>4
    <3>2. CASE b # a
      BY <3>2, <1>1, <1>3, <1>4 DEF TypesInv
    <3> QED
      BY <3>1, <3>2
  <2> QED
    BY <1>1, <2>1, <2>2 DEF TypesInv
<1>6. WriteInv'
  <2>1. ASSUME NEW b \in Actors, Writing(b)', clean'[b]
        PROVE  /\ Writing(b) /\ clean[b]
               /\ at'[b] = at[b] /\ out'[b] = out[b]
    BY <1>4, <2>1
  <2>2. ASSUME NEW b \in Actors, Writing(b)', clean'[b]
        PROVE  /\ \A c \in Actors : Writing(c)' => c = b
               /\ out'[b] = last'
               /\ \A i \in 1..(at'[b] - 1) : block'[i] = last'[i]
    <3>1. Writing(b) /\ clean[b] /\ at'[b] = at[b] /\ out'[b] = out[b]
      BY <2>1, <2>2
    <3>2. /\ \A c \in Actors : Writing(c) => c = b
          /\ out[b] = last
          /\ \A i \in 1..(at[b] - 1) : block[i] = last[i]
      BY <1>1, <3>1 DEF WriteInv
    <3>3. \A c \in Actors : Writing(c)' => c = b
      BY <1>4, <3>2
    <3> QED
      BY <3>1, <3>2, <3>3
  <2>3. whole' => Holds(block, last)' /\ \A b \in Actors : ~Writing(b)'
    BY <1>1, <1>4 DEF WriteInv, Holds
  <2> QED
    BY <2>2, <2>3 DEF WriteInv
<1>7. ReadInv'
  <2> SUFFICES ASSUME NEW b \in Actors, op'[b] \in {"get", "read10"}, clean'[b]
               PROVE  ReadsOn(b)'
    BY DEF ReadInv
  <2>1. /\ b # a /\ op[b] = op'[b] /\ clean[b]
        /\ at'[b] = at[b] /\ acc'[b] = acc[b]
    BY <1>3
  <2>2. op[b] = "read10" => copy' = copy
    BY <1>1, <2>1 DEF TypesInv
  <2>3. ReadsOn(b)
    BY <1>1, <2>1 DEF ReadInv
  <2> QED
    BY <1>4, <2>1, <2>2, <2>3, ReaderKept
<1> QED
  BY <1>5, <1>6, <1>7 DEF IInv

LEMMA ReadEndPreserves ==
  ASSUME IInv, NEW u \in Users, ReadEnd(u)
  PROVE  IInv'
<1>1. TypesInv /\ u \in Actors
  BY DEF IInv, Actors
<1>2. /\ op[u] = "get" /\ acc' = [acc EXCEPT ![u] = @ % 256]
      /\ op' = [op EXCEPT ![u] = "done"]
      /\ UNCHANGED <<block, at, out, copy, clean, last, whole>>
  BY DEF ReadEnd
<1>3. acc \in [Actors -> Nat]
  BY <1>1 DEF TypesInv
<1>4. acc' \in [Actors -> Nat] /\ \A b \in Actors : b # u => acc'[b] = acc[b]
  BY <1>1, <1>2, <1>3
<1>5. ~Writing(u)
  BY <1>2 DEF Writing
<1> QED
  BY <1>1, <1>2, <1>4, <1>5, EndPreserves DEF TypesInv

LEMMA ReturnPreserves ==
  ASSUME IInv, NEW a \in Actors, Return(a)
  PROVE  IInv'
<1>1. TypesInv
  BY DEF IInv
<1>2. /\ op[a] = "done" /\ op' = [op EXCEPT ![a] = "idle"]
      /\ at' = [at EXCEPT ![a] = 1] /\ out' = [out EXCEPT ![a] = <<>>]
      /\ acc' = [acc EXCEPT ![a] = 0] /\ clean' = [clean EXCEPT ![a] = TRUE]
      /\ copy' = IF a = Host THEN Pad(<<>>) ELSE copy
      /\ UNCHANGED <<block, last, whole>>
  BY DEF Return
<1>3. /\ at \in [Actors -> 1..(Cells + 1)] /\ acc \in [Actors -> Nat]
      /\ out \in [Actors -> Seq(Char)] /\ \A b \in Actors : Len(out[b]) <= Cells
      /\ copy \in [1..Cells -> Char] /\ clean \in [Actors -> BOOLEAN]
  BY <1>1 DEF TypesInv
<1>4. at' \in [Actors -> 1..(Cells + 1)] /\ acc' \in [Actors -> Nat]
  BY <1>2, <1>3 DEF Cells
<1>5. out' \in [Actors -> Seq(Char)] /\ \A b \in Actors : Len(out'[b]) <= Cells
  <2>1. <<>> \in Seq(Char) /\ Len(<<>>) = 0 /\ 0 <= Cells
    BY DEF Cells
  <2> QED
    BY <2>1, <1>2, <1>3
<1>6. copy' \in [1..Cells -> Char]
  BY <1>2, <1>3, PadTypes, EmptySeq
<1>7. /\ clean' \in [Actors -> BOOLEAN]
      /\ \A b \in Actors : b # a => (clean'[b] <=> clean[b])
  BY <1>2, <1>3, Zenon
<1>8. \A b \in Actors : b # a =>
        at'[b] = at[b] /\ acc'[b] = acc[b] /\ out'[b] = out[b]
  BY <1>2, <1>3
<1>9. ~Writing(a)
  BY <1>2 DEF Writing
<1> QED
  BY <1>2, <1>4, <1>5, <1>6, <1>7, <1>8, <1>9, EndPreserves

LEMMA ReadCellPreserves ==
  ASSUME IInv, ReadCell
  PROVE  IInv'
<1> DEFINE i == at[Host]
<1>1. TypesInv /\ WriteInv /\ ReadInv /\ Host \in Actors
  BY DEF IInv, Actors
<1>2. /\ op[Host] = "read10" /\ copy' = [copy EXCEPT ![i] = block[i]]
      /\ at' = [at EXCEPT ![Host] = i + 1]
      /\ op' = IF i = Cells THEN [op EXCEPT ![Host] = "done"] ELSE op
      /\ UNCHANGED <<block, out, acc, clean, last, whole>>
  BY DEF ReadCell
<1>3. /\ op \in [Actors -> {"idle", "set", "get", "write10", "read10", "done"}]
      /\ at \in [Actors -> 1..(Cells + 1)] /\ block \in [1..Cells -> Char]
      /\ copy \in [1..Cells -> Char] /\ i <= Cells
  BY <1>1, <1>2 DEF TypesInv
<1>4. i \in 1..Cells /\ i + 1 \in 1..(Cells + 1)
  BY <1>1, <1>3 DEF Cells
<1>5. \A b \in Actors : b # Host => op'[b] = op[b] /\ at'[b] = at[b]
  BY <1>2, <1>3
<1>6. at'[Host] = i + 1 /\ op'[Host] = IF i = Cells THEN "done" ELSE "read10"
  BY <1>1, <1>2, <1>3
<1>7. \A b \in Actors : Writing(b)' <=> Writing(b)
  BY <1>2, <1>5, <1>6 DEF Writing
<1>8. TypesInv'
  <2>1. /\ op' \in [Actors -> {"idle", "set", "get", "write10", "read10", "done"}]
        /\ at' \in [Actors -> 1..(Cells + 1)] /\ copy' \in [1..Cells -> Char]
    BY <1>2, <1>3, <1>4
  <2>2. ASSUME NEW b \in Actors
        PROVE  /\ Writing(b)' => at'[b] <= Len(out'[b])
               /\ op'[b] = "read10" => b = Host /\ at'[b] <= Cells
    <3>1. CASE b = Host
      BY <3>1, <1>4, <1>6 DEF Writing, Cells
    <3>2. CASE b # Host
      BY <3>2, <1>1, <1>2, <1>5 DEF TypesInv, Writing
    <3> QED
      BY <3>1, <3>2
  <2> QED
    BY <1>1, <1>2, <2>1, <2>2 DEF TypesInv
<1>9. WriteInv'
  <2>1. ASSUME NEW b \in Actors, Writing(b)', clean'[b]
        PROVE  b # Host /\ Writing(b) /\ clean[b]
    BY <1>2, <1>6, <1>7, <2>1 DEF Writing
  <2> QED
    BY <1>1, <1>2, <1>5, <1>7, <2>1 DEF WriteInv
<1>10. ReadInv'
  <2> SUFFICES ASSUME NEW b \in Actors, op'[b] \in {"get", "read10"}, clean'[b]
               PROVE  ReadsOn(b)'
    BY DEF ReadInv
  <2>1. CASE b # Host
    <3>1. op[b] = "get" /\ op'[b] = "get"
      BY <2>1, <1>1, <1>5 DEF TypesInv
    <3>2. ReadsOn(b)
      BY <3>1, <1>1, <1>2 DEF ReadInv
    <3> QED
      BY <2>1, <3>1, <3>2, <1>2, <1>5, <1>7, ReaderKept
  <2>2. CASE b = Host
    <3>1. /\ \A c \in Actors : ~Writing(c)
          /\ \A j \in 1..(i - 1) : copy[j] = block[j]
      BY <2>2, <1>1, <1>2 DEF ReadInv, ReadsOn
    <3>2. ASSUME NEW j \in 1..i
          PROVE  copy'[j] = block[j]
      <4>1. j \in 1..Cells /\ (j = i \/ j \in 1..(i - 1))
        BY <1>4 DEF Cells
      <4> QED
        BY <4>1, <3>1, <1>2, <1>3
    <3>3. at'[Host] - 1 = i /\ op'[Host] # "get"
      BY <1>4, <1>6
    <3> QED
      BY <2>2, <3>1, <3>2, <3>3, <1>2, <1>7 DEF ReadsOn
  <2> QED
    BY <2>1, <2>2
<1> QED
  BY <1>8, <1>9, <1>10 DEF IInv

-----------------------------------------------------------------------------
LEMMA NextPreserves == IInv /\ [Next]_vars => IInv'
<1> SUFFICES ASSUME IInv, [Next]_vars
             PROVE  IInv'
  OBVIOUS
<1> USE DEF Actors
<1>1. ASSUME NEW u \in Users, NEW v \in Selects, CallSet(u, v)
      PROVE  IInv'
  <2>1. v % 256 \in 0..255
    BY SelectsAssumption
  <2>2. Format(v % 256) \in Seq(Char) /\ Len(Format(v % 256)) \in 1..Cells
    BY <2>1, TextTypes
  <2> QED
    BY <1>1, <2>2, BeginWritePreserves DEF CallSet
<1>2. ASSUME NEW u \in Users, CallGet(u)
      PROVE  IInv'
  <2>1. BeginRead(u, "get", 2) /\ acc' = [acc EXCEPT ![u] = 0] /\ copy' = copy
    BY <1>2 DEF CallGet
  <2>2. u \in Actors /\ 2 \in 1..2 /\ "get" \in {"get", "read10"}
    OBVIOUS
  <2> HIDE DEF Actors
  <2> QED
    BY <2>1, <2>2, BeginReadPreserves
<1>3. ASSUME NEW text \in HostTexts, CallWrite10(text)
      PROVE  IInv'
  <2>1. text \in Seq(Char) /\ Len(text) \in 1..Cells
    BY TextTypes
  <2> QED
    BY <1>3, <2>1, BeginWritePreserves DEF CallWrite10
<1>4. CASE CallRead10
  <2>1. BeginRead(Host, "read10", 1) /\ acc' = acc /\ copy' = copy
    BY <1>4 DEF CallRead10
  <2> QED
    BY <2>1, BeginReadPreserves
<1>5. CASE UNCHANGED vars
  <2>1. TypesInv' /\ WriteInv'
    BY <1>5 DEF vars, IInv, TypesInv, WriteInv, Writing, Holds
  <2>2. ASSUME NEW b \in Actors, op'[b] \in {"get", "read10"}, clean'[b]
        PROVE  ReadsOn(b)'
    <3>1. ReadsOn(b)
      BY <1>5, <2>2 DEF vars, IInv, ReadInv
    <3> QED
      BY <1>5, <3>1, ReaderKept DEF vars, Writing
  <2> QED
    BY <2>1, <2>2 DEF IInv, ReadInv
<1> QED
  BY <1>1, <1>2, <1>3, <1>4, <1>5, ReadDigitPreserves, ReadEndPreserves,
     ReadCellPreserves, WriteCellPreserves, ReturnPreserves DEF Next

LEMMA Invariance == Spec => []IInv
  BY InitIInv, NextPreserves, PTL DEF Spec

\* Only the last step of a read ends it.
LEMMA ReadsEnd ==
  ASSUME TypesInv, Next, NEW a \in Actors, op[a] \in {"get", "read10"},
         op'[a] = "done"
  PROVE  \/ op[a] = "get" /\ a \in Users /\ ReadEnd(a)
         \/ op[a] = "read10" /\ a = Host /\ ReadCell /\ at[Host] = Cells
<1>1. /\ op \in [Actors -> {"idle", "set", "get", "write10", "read10", "done"}]
      /\ Users \subseteq Actors /\ Host \in Actors
  BY DEF TypesInv, Actors
<1>2. ASSUME NEW b \in Actors, NEW what, NEW from, Begin(b, what, from)
      PROVE  FALSE
  BY <1>1, <1>2 DEF Begin
<1>3. ~\E u \in Users, v \in Selects : CallSet(u, v)
  BY <1>1, <1>2 DEF CallSet, BeginWrite
<1>4. ~\E u \in Users : CallGet(u)
  BY <1>1, <1>2 DEF CallGet, BeginRead
<1>5. ~\E text \in HostTexts : CallWrite10(text)
  BY <1>1, <1>2 DEF CallWrite10, BeginWrite
<1>6. ~CallRead10
  BY <1>1, <1>2 DEF CallRead10, BeginRead
<1>7. ~\E u \in Users : ReadDigit(u)
  BY DEF ReadDigit
<1>8. ~\E b \in Actors : WriteCell(b)
  BY <1>1 DEF WriteCell, Writing
<1>9. ~\E b \in Actors : Return(b)
  BY <1>1 DEF Return
<1>10. ASSUME NEW u \in Users, ReadEnd(u)
       PROVE  a = u
  BY <1>1, <1>10 DEF ReadEnd
<1>11. ASSUME ReadCell
       PROVE  a = Host /\ at[Host] = Cells
  BY <1>1, <1>11 DEF ReadCell
<1> QED
  BY <1>3, <1>4, <1>5, <1>6, <1>7, <1>8, <1>9, <1>10, <1>11
     DEF Next, ReadEnd, ReadCell

\* Only an idle PC begins to read.
LEMMA OnlyIdleBegins ==
  ASSUME TypesInv, Next, op'[Host] = "read10"
  PROVE  op[Host] \in {"idle", "read10"}
<1>1. /\ op \in [Actors -> {"idle", "set", "get", "write10", "read10", "done"}]
      /\ Users \subseteq Actors /\ Host \in Actors
  BY DEF TypesInv, Actors
<1>2. ASSUME NEW b \in Actors, NEW what, NEW from, Begin(b, what, from)
      PROVE  op[Host] \in {"idle", "read10"}
  BY <1>1, <1>2 DEF Begin
<1>3. CASE \E u \in Users, v \in Selects : CallSet(u, v)
  BY <1>1, <1>2, <1>3 DEF CallSet, BeginWrite
<1>4. CASE \E u \in Users : CallGet(u)
  BY <1>1, <1>2, <1>4 DEF CallGet, BeginRead
<1>5. CASE \E text \in HostTexts : CallWrite10(text)
  BY <1>1, <1>2, <1>5 DEF CallWrite10, BeginWrite
<1>6. CASE CallRead10
  BY <1>1, <1>2, <1>6 DEF CallRead10, BeginRead
<1>7. CASE \E u \in Users : ReadDigit(u) \/ ReadEnd(u)
  BY <1>1, <1>7 DEF ReadDigit, ReadEnd
<1>8. CASE ReadCell
  BY <1>8 DEF ReadCell
<1>9. CASE \E b \in Actors : WriteCell(b) \/ Return(b)
  BY <1>1, <1>9 DEF WriteCell, Return
<1> QED
  BY <1>3, <1>4, <1>5, <1>6, <1>7, <1>8, <1>9 DEF Next

LEMMA GetsRight ==
  ASSUME IInv, NEW u \in Users, ReadEnd(u), clean[u], whole,
         NEW v \in 0..255, Holds(Pad(last), Format(v))
  PROVE  acc'[u] = v
<1>1. TypesInv /\ WriteInv /\ ReadInv /\ u \in Actors
  BY DEF IInv, Actors
<1>2. op[u] = "get" /\ CellAt(at[u]) \notin Digit /\ acc'[u] = acc[u] % 256
  BY <1>1 DEF ReadEnd, TypesInv
<1>3. Shows(block, v)
  BY <1>1, LastShows DEF TypesInv, WriteInv
<1>4. PICK k \in 0..NDigits(v) : at[u] = k + 2 /\ acc[u] = Leading(v, k)
  BY <1>1, <1>2, <1>3 DEF ReadInv, ReadsOn
<1>5. /\ Digits(v) \in Seq(Digit) /\ Len(Digits(v)) = NDigits(v)
      /\ NDigits(v) \in 1..3
  BY DigitsOf
<1>6. k = NDigits(v)
  <2> SUFFICES ASSUME k # NDigits(v)
               PROVE  FALSE
    OBVIOUS
  <2>1. k + 1 \in 1..NDigits(v) /\ (k + 1) + 1 = k + 2 /\ k + 2 <= Cells
    BY <1>5 DEF Cells
  <2>2. block[k + 2] = Digits(v)[k + 1] /\ Digits(v)[k + 1] \in Digit
    BY <2>1, <1>3, <1>5 DEF Shows
  <2> QED
    BY <2>1, <2>2, <1>2, <1>4 DEF CellAt
<1>7. acc[u] = v
  BY <1>4, <1>5, <1>6 DEF Leading
<1> QED
  BY <1>2, <1>7

LEMMA HostReadsRight ==
  ASSUME IInv, op[Host] = "read10", ReadCell, at[Host] = Cells, clean[Host],
         whole
  PROVE  Holds(copy', last)
<1>1. TypesInv /\ WriteInv /\ ReadInv /\ Host \in Actors
  BY DEF IInv, Actors
<1>2. copy' = [copy EXCEPT ![Cells] = block[Cells]]
  BY DEF ReadCell
<1>3. /\ \A j \in 1..(Cells - 1) : copy[j] = block[j]
      /\ copy \in [1..Cells -> Char] /\ Len(last) \in Nat /\ Len(last) <= Cells
  BY <1>1 DEF ReadInv, ReadsOn, TypesInv
<1>4. ASSUME NEW j \in 1..Len(last)
      PROVE  copy'[j] = block[j] /\ block[j] = last[j]
  <2>1. j \in 1..Cells /\ (j = Cells \/ j \in 1..(Cells - 1))
    BY <1>3 DEF Cells
  <2> QED
    BY <2>1, <1>1, <1>2, <1>3 DEF WriteInv, Holds
<1> QED
  BY <1>4 DEF Holds

-----------------------------------------------------------------------------
(* The theorems                                                            *)

\* Every cell of the block and of the copy is a character, and no loop of
\* snprintf, strtoul or the callbacks runs past its text or past the block.
THEOREM TypeCorrect == Spec => []TypeOK
<1>1. IInv => TypeOK
  BY DEF IInv, TypesInv, TypeOK
<1> QED
  BY <1>1, Invariance, PTL

\* A write that nothing overlapped leaves its whole line in the block.
THEOREM WholeStays == Spec => []WholeWritesStay
<1>1. IInv => WholeWritesStay
  BY DEF IInv, WriteInv, WholeWritesStay
<1> QED
  BY <1>1, Invariance, PTL

\* A get that no write overlapped returns what the last writer set.
THEOREM CleanGets == Spec => CleanGetIsLastSet
<1> DEFINE Right ==
      \A u \in Users :
        op[u] = "get" /\ op'[u] = "done" /\ clean[u] /\ whole =>
          \A v \in 0..255 : Holds(Pad(last), Format(v)) => acc'[u] = v
<1>1. IInv /\ [Next]_vars => [Right]_vars
  <2> SUFFICES ASSUME IInv, Next, NEW u \in Users, op[u] = "get",
                      op'[u] = "done", clean[u], whole,
                      NEW v \in 0..255, Holds(Pad(last), Format(v))
               PROVE  acc'[u] = v
    OBVIOUS
  <2>1. ReadEnd(u)
    BY ReadsEnd DEF IInv, Actors
  <2> QED
    BY <2>1, GetsRight
<1> QED
  BY <1>1, Invariance, PTL DEF Spec, CleanGetIsLastSet

\* A block the PC reads while nobody writes is the line last written.
THEOREM CleanReads == Spec => CleanHostReadIsLast
<1> DEFINE Right ==
      op[Host] = "read10" /\ op'[Host] = "done" /\ clean[Host] /\ whole =>
        Holds(copy', last)
<1>1. IInv /\ [Next]_vars => [Right]_vars
  <2> SUFFICES ASSUME IInv, Next, op[Host] = "read10", op'[Host] = "done",
                      clean[Host], whole
               PROVE  Holds(copy', last)
    OBVIOUS
  <2>1. ReadCell /\ at[Host] = Cells
    BY ReadsEnd DEF IInv, Actors
  <2> QED
    BY <2>1, HostReadsRight
<1> QED
  BY <1>1, Invariance, PTL DEF Spec, CleanHostReadIsLast

\* Finding and saving the file changes nothing in BootDisk, so whatever holds
\* there of each step holds here.
LEMMA FileInvariance == FileSpec => []IInv
<1>1. FileInit => IInv
  BY InitIInv DEF FileInit
<1>2. IInv /\ [FileNext]_fileVars => IInv'
  <2>1. (FindFile \/ SaveEntry \/ UNCHANGED fileVars) => UNCHANGED vars
    BY DEF FindFile, SaveEntry, fileVars
  <2>2. DiskSteps => Next
    BY DEF DiskSteps
  <2> QED
    BY <2>1, <2>2, NextPreserves DEF FileNext
<1> QED
  BY <1>1, <1>2, PTL DEF FileSpec

\* The PC gives the entry other lengths but no other cluster, and reads the
\* block only where it has found it.
EntryInv ==
  /\ entry.cluster = Entry.cluster
  /\ found = NotFound \/ found.cluster = Entry.cluster
  /\ op[Host] = "read10" => found # NotFound

LEMMA EntryInvariance == FileSpec => []EntryInv
<1> USE DEF EntryInv
<1>1. FileInit => EntryInv
  BY DEF FileInit, Init, Actors
<1>2. IInv /\ EntryInv /\ [FileNext]_fileVars => EntryInv'
  <2> SUFFICES ASSUME IInv, EntryInv, [FileNext]_fileVars
               PROVE  EntryInv'
    OBVIOUS
  <2>1. CASE FindFile
    BY <2>1 DEF FindFile, vars
  <2>2. CASE SaveEntry
    <3>1. PICK n \in Sizes : entry' = [entry EXCEPT !.size = n]
      BY <2>2 DEF SaveEntry
    <3>2. entry'.cluster = entry.cluster
      BY <3>1
    <3> QED
      BY <2>2, <3>2 DEF SaveEntry, vars
  <2>3. CASE DiskSteps
    <3>1. op[Host] = "idle" /\ op'[Host] = "read10" => found # NotFound
      BY <2>3 DEF DiskSteps
    <3>2. entry' = entry
          /\ found' = IF op[Host] = "done" /\ op'[Host] = "idle"
                        THEN NotFound ELSE found
      BY <2>3 DEF DiskSteps
    <3>3. op'[Host] = "read10" => op[Host] \in {"idle", "read10"}
      BY <2>3, OnlyIdleBegins DEF DiskSteps, IInv
    <3> QED
      BY <3>1, <3>2, <3>3
  <2>4. CASE UNCHANGED fileVars
    BY <2>4 DEF fileVars, vars
  <2> QED
    BY <2>1, <2>2, <2>3, <2>4 DEF FileNext
<1> QED
  BY <1>1, <1>2, FileInvariance, PTL DEF FileSpec

\* The boot sector, the table and the directory of the image lead to the
\* block that set_boot_select prints into.
LEMMA Image == BlockOf(Entry.cluster) = 3 /\ LastCluster(Entry.cluster)
<1>1. BootSector.entries * 32 = 512 /\ 512 \div 512 = 1
  BY DEF BootSector
<1>2. RootBlocks = 1 /\ RootBlock = 2
  BY <1>1 DEF RootBlocks, RootBlock, BootSector
<1>3. BlockOf(Entry.cluster) = 3
  BY <1>2 DEF BlockOf, Entry, BootSector
<1>4. LastCluster(Entry.cluster)
  BY DEF LastCluster, Entry, FatTable
<1> QED
  BY <1>3, <1>4

\* Its length holds the digits of every selection, and the rest of the line
\* of those with one digit only.
LEMMA EntryLength ==
  ASSUME NEW v \in 0..255
  PROVE  /\ Entry.size - 12 > Len(Digits(v))
         /\ Entry.size - 12 = Len(Format(v)) - 1 <=> v \in Digit
<1>1. Entry.size = 16
  BY DEF Entry
<1>2. /\ Len(Digits(v)) = NDigits(v) /\ NDigits(v) \in 1..3
      /\ Len(Format(v)) = NDigits(v) + 4
  BY DigitsOf, FormatOf
<1>3. v \in Digit <=> NDigits(v) = 1
  BY DEF Digit, NDigits
<1> QED
  BY <1>1, <1>2, <1>3

\* A line that the PC has padded to the block is in the block as well.
LEMMA PaddedHolds ==
  ASSUME NEW v \in 0..255, last \in {Format(v), Pad(Format(v))},
         NEW cells, Holds(cells, last)
  PROVE  Holds(cells, Format(v))
<1> DEFINE line == Format(v)
<1>1. line \in Seq(Char) /\ Len(line) \in 1..Cells
  BY TextTypes
<1> HIDE DEF line
<1>2. CASE last = Pad(line)
  <2>1. /\ Pad(line) = [i \in 1..Cells |-> IF i <= Len(line) THEN line[i] ELSE Nul]
        /\ Len(Pad(line)) = Cells
    BY DEF Pad, Cells
  <2>2. ASSUME NEW i \in 1..Len(line)
        PROVE  cells[i] = line[i]
    <3>1. i \in 1..Cells /\ i <= Len(line)
      <4>1. Len(line) \in Nat /\ Len(line) <= 7
        <5>1. \A n \in 1..Cells : n \in Nat /\ n <= 7
          BY DEF Cells
        <5> QED
          BY <1>1, <5>1
      <4>2. \A n \in Nat : n <= 7 => \A k \in 1..n : k \in 1..7 /\ k <= n
        OBVIOUS
      <4> QED
        BY <4>1, <4>2 DEF Cells
    <3>2. Pad(line)[i] = line[i]
      BY <2>1, <3>1
    <3>3. cells[i] = Pad(line)[i]
      BY <1>2, <2>1, <3>1 DEF Holds
    <3> QED
      BY <3>2, <3>3
  <2> QED
    BY <2>2 DEF Holds, line
<1> QED
  BY <1>2 DEF line

\* Whoever reads boot.cfg while nobody writes finds the line last set, of
\* which the image's length lets through the number always and the end for
\* one digit.
THEOREM FileRead == FileSpec => FileIsTheLine
<1> DEFINE Right ==
      op[Host] = "read10" /\ op'[Host] = "done" /\ clean[Host] /\ whole =>
        /\ BlockOf(found.cluster) = 3 /\ LastCluster(found.cluster)
        /\ \A v \in 0..255 : last \in {Format(v), Pad(Format(v))} =>
             /\ Holds(copy', Format(v))
             /\ found = Entry =>
                  /\ FileCells > Len(Digits(v))
                  /\ FileCells = Len(Format(v)) - 1 <=> v \in Digit
<1>1. IInv /\ EntryInv /\ [FileNext]_fileVars => [Right]_fileVars
  <2> SUFFICES ASSUME IInv, EntryInv, FileNext, op[Host] = "read10",
                      op'[Host] = "done", clean[Host], whole
               PROVE  /\ BlockOf(found.cluster) = 3 /\ LastCluster(found.cluster)
                      /\ \A v \in 0..255 : last \in {Format(v), Pad(Format(v))} =>
                           /\ Holds(copy', Format(v))
                           /\ found = Entry =>
                                /\ FileCells > Len(Digits(v))
                                /\ FileCells = Len(Format(v)) - 1 <=> v \in Digit
    OBVIOUS
  <2>1. Next
    <3>1. ~FindFile /\ ~SaveEntry
      BY DEF FindFile, SaveEntry
    <3> QED
      BY <3>1 DEF FileNext, DiskSteps
  <2>2. ReadCell /\ at[Host] = Cells
    BY <2>1, ReadsEnd DEF IInv, Actors
  <2>3. Holds(copy', last)
    BY <2>2, HostReadsRight
  <2>4. BlockOf(found.cluster) = 3 /\ LastCluster(found.cluster)
    <3>1. found.cluster = Entry.cluster
      BY DEF EntryInv
    <3> QED
      BY <3>1, Image
  <2>5. ASSUME NEW v \in 0..255, last \in {Format(v), Pad(Format(v))}
        PROVE  Holds(copy', Format(v))
    BY <2>3, <2>5, PaddedHolds
  <2>6. ASSUME NEW v \in 0..255, found = Entry
        PROVE  /\ FileCells > Len(Digits(v))
               /\ FileCells = Len(Format(v)) - 1 <=> v \in Digit
    BY <2>6, EntryLength DEF FileCells
  <2> QED
    BY <2>4, <2>5, <2>6
<1> QED
  BY <1>1, FileInvariance, EntryInvariance, PTL DEF FileSpec, FileIsTheLine
=============================================================================
