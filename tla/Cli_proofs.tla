------------------------------ MODULE Cli_proofs ------------------------------
(***************************************************************************)
(* Proofs about Cli, for every vocabulary and every length of the line.    *)
(* The array holds much that is no longer part of the line, so what is     *)
(* inductive is that the terminal shows its first pos - 1 characters.      *)
(* Where the text ends that a '\0' cuts short is carried along from key to *)
(* key, which spares an induction over the text.                           *)
(***************************************************************************)
EXTENDS Cli, SequenceTheorems, TLAPS

\* What the terminal shows is the array up to the next keystroke.
EditInv ==
  /\ Len(typed) = pos - 1
  /\ \A i \in 1..(pos - 1) : line[i] = typed[i]

\* The first n elements are those in front of the first '\0'.
Ends(seq, n) ==
  /\ \A i \in 1..n : seq[i] # Nul
  /\ n < Len(seq) => seq[n + 1] = Nul

EndInv == \E n \in 0..Len(typed) : Ends(typed, n)

\* What the last keystroke did, if it did anything, is in the buffer.
Announced ==
  effect # Nothing =>
    /\ buffer.what = effect.what
    /\ effect.what = "toggle" => effect.arg = buffer.arg
    /\ effect.what = "set_boot" => effect.arg = buffer.arg % 256

IInv == TypeOK /\ EditInv /\ EndInv /\ Announced

-----------------------------------------------------------------------------
(* Lemmas about the operators                                              *)

LEMMA Beginning ==
  ASSUME NEW S, NEW seq \in Seq(S), NEW n \in 0..Len(seq)
  PROVE  /\ Len(SubSeq(seq, 1, n)) = n
         /\ \A i \in 1..n : SubSeq(seq, 1, n)[i] = seq[i]
         /\ IsPrefix(SubSeq(seq, 1, n), seq)
         /\ n = Len(seq) => SubSeq(seq, 1, n) = seq
<1> DEFINE part == SubSeq(seq, 1, n)
<1>1. Len(seq) \in Nat /\ n \in Nat /\ n <= Len(seq)
  BY LenProperties
<1>2. \A i \in 1..n : seq[i] \in S
  BY <1>1, ElementOfSeq
<1>3. part \in Seq(S) /\ Len(part) = n /\ \A i \in 1..n : part[i] = seq[i]
  <2>1. /\ part \in Seq(S)
        /\ Len(part) = IF 1 <= n THEN n - 1 + 1 ELSE 0
        /\ \A i \in 1..(n - 1 + 1) : part[i] = seq[1 + i - 1]
    BY <1>1, <1>2, SubSeqProperties
  <2> HIDE DEF part
  <2>2. n - 1 + 1 = n /\ \A i \in 1..n : 1 + i - 1 = i
    BY <1>1
  <2> QED
    BY <1>1, <2>1, <2>2
<1> HIDE DEF part
<1>4. SubSeq(part, 1, n) = part
  <2>1. /\ SubSeq(part, 1, n) = [i \in 1..n |-> part[i]]
        /\ part = [i \in 1..n |-> part[i]]
    BY <1>1, <1>3
  <2> QED
    BY <2>1
<1>5. IsPrefix(part, seq)
  BY <1>1, <1>3, <1>4 DEF IsPrefix, part
<1>6. n = Len(seq) => part = seq
  BY <1>1, <1>3, SeqEqual
<1> QED
  BY <1>3, <1>5, <1>6 DEF part

\* Terminated where the line ends, the array reads as the line up to its
\* first '\0', whatever it holds behind.
LEMMA TextIsTyped ==
  ASSUME TypeOK, EditInv, NEW n \in 0..Len(typed), Ends(typed, n)
  PROVE  Text([line EXCEPT ![pos] = Nul]) = SubSeq(typed, 1, n)
<1> DEFINE array == [line EXCEPT ![pos] = Nul]
           First(i) == array[i] = Nul /\ \A j \in 1..(i - 1) : array[j] # Nul
<1>1. /\ pos \in 1..(LineSize + 1) /\ pos \in Nat /\ LineSize \in Nat
      /\ line \in [1..(LineSize + 1) -> Strokes]
      /\ typed \in Seq(Strokes) /\ Len(typed) = pos - 1
      /\ n \in 0..(pos - 1) /\ n \in Nat
  BY LineSizeAssumption DEF TypeOK, EditInv
<1>2. /\ DOMAIN array = 1..(LineSize + 1)
      /\ array[pos] = Nul
  BY <1>1
<1>3. ASSUME NEW j \in 1..(pos - 1)
      PROVE  array[j] = typed[j]
  <2>1. j \in 1..(LineSize + 1) /\ j # pos
    BY <1>1
  <2>2. array[j] = line[j]
    BY <1>1, <2>1
  <2> QED
    BY <2>2 DEF EditInv
<1> HIDE DEF array
<1>4. \A j \in 1..n : array[j] = typed[j] /\ array[j] # Nul
  BY <1>1, <1>3 DEF Ends
<1>5. array[n + 1] = Nul
  <2>1. CASE n = pos - 1
    BY <1>1, <1>2, <2>1
  <2>2. CASE n < pos - 1
    <3>1. n + 1 \in 1..(pos - 1)
      BY <1>1, <2>2
    <3> QED
      BY <1>1, <1>3, <2>2, <3>1 DEF Ends
  <2> QED
    BY <1>1, <2>1, <2>2
<1>6. n + 1 \in DOMAIN array /\ First(n + 1)
  BY <1>1, <1>2, <1>4, <1>5
<1>7. ASSUME NEW i \in DOMAIN array, First(i)
      PROVE  i = n + 1
  <2>1. i \in Nat /\ i >= 1
    BY <1>1, <1>2
  <2>2. CASE i < n + 1
    <3>1. i \in 1..n
      BY <1>1, <2>1, <2>2
    <3> QED
      BY <1>4, <1>7, <3>1
  <2>3. CASE i > n + 1
    <3>1. n + 1 \in 1..(i - 1)
      BY <1>1, <2>1, <2>3
    <3> QED
      BY <1>5, <1>7, <3>1
  <2> QED
    BY <1>1, <2>1, <2>2, <2>3
<1>8. (CHOOSE i \in DOMAIN array : First(i)) = n + 1
  BY <1>6, <1>7
<1>9. Text(array) = SubSeq(array, 1, n)
  <2>1. Text(array) = SubSeq(array, 1, (n + 1) - 1)
    BY <1>8 DEF Text
  <2>2. (n + 1) - 1 = n
    BY <1>1
  <2> QED
    BY <2>1, <2>2
<1>10. SubSeq(array, 1, n) = [i \in 1..n |-> array[i]]
  BY <1>1
<1>11. SubSeq(typed, 1, n) = [i \in 1..n |-> typed[i]]
  BY <1>1
<1>12. [i \in 1..n |-> array[i]] = [i \in 1..n |-> typed[i]]
  BY <1>4
<1>13. Text(array) = SubSeq(typed, 1, n)
  BY <1>9, <1>10, <1>11, <1>12
<1> QED
  BY <1>13 DEF array

\* So it is a prefix of the line, of words only, and what follows it in the
\* line, if anything does, begins with a '\0'.
LEMMA TextOfLine ==
  ASSUME TypeOK, EditInv, EndInv
  PROVE  LET text == Text([line EXCEPT ![pos] = Nul])
         IN  /\ text \in Seq(Keys)
             /\ IsPrefix(text, typed)
             /\ \A i \in 1..Len(text) : text[i] # Nul
             /\ text # typed => typed[Len(text) + 1] = Nul
<1> DEFINE text == Text([line EXCEPT ![pos] = Nul])
<1>1. PICK n \in 0..Len(typed) : Ends(typed, n)
  BY DEF EndInv
<1>2. typed \in Seq(Strokes) /\ Len(typed) \in Nat /\ n \in Nat
  BY DEF TypeOK
<1>3. text = SubSeq(typed, 1, n)
  BY <1>1, TextIsTyped
<1> HIDE DEF text
<1>4. /\ Len(text) = n
      /\ \A i \in 1..n : text[i] = typed[i]
      /\ IsPrefix(text, typed)
      /\ n = Len(typed) => text = typed
  BY <1>2, <1>3, Beginning
<1>5. \A i \in 1..n : typed[i] # Nul /\ typed[i] \in Keys
  <2>1. \A i \in 1..n : typed[i] \in Strokes
    BY <1>2, ElementOfSeq
  <2> QED
    BY <1>1, <2>1 DEF Ends, Strokes
<1>6. text \in Seq(Keys)
  BY <1>2, <1>3, <1>5, SubSeqProperties
<1>7. text # typed => typed[n + 1] = Nul
  BY <1>1, <1>2, <1>4 DEF Ends
<1> QED
  BY <1>4, <1>5, <1>6, <1>7 DEF text

\* An argument that is no number is 0.
LEMMA ArgumentType ==
  ASSUME NEW text
  PROVE  Argument(text) \in Nat
  BY KeysAssumption DEF Argument

LEMMA EffectTypes ==
  ASSUME NEW text
  PROVE  /\ EffectOf(text).what \in {"nothing", "toggle", "set_boot"}
         /\ EffectOf(text).arg \in Nat
<1>1. Argument(text) \in Nat /\ Argument(text) % 256 \in Nat
  BY ArgumentType
<1> QED
  BY <1>1 DEF EffectOf, Say, Nothing

LEMMA OutputTypes ==
  ASSUME NEW text, NEW before, before.what \in Words \cup {"nothing"},
         before.arg \in Nat
  PROVE  /\ OutputOf(text, before).what \in Words \cup {"nothing"}
         /\ OutputOf(text, before).arg \in Nat
<1>1. CASE StartsWith(text, "toggle") /\ Argument(text) # 0
  BY <1>1, ArgumentType, WordsAssumption DEF OutputOf, Say
<1>2. CASE ~(StartsWith(text, "toggle") /\ Argument(text) # 0)
           /\ StartsWith(text, "set_boot")
  BY <1>2, ArgumentType, WordsAssumption DEF OutputOf, Say
<1>3. CASE /\ ~(StartsWith(text, "toggle") /\ Argument(text) # 0)
           /\ ~StartsWith(text, "set_boot")
           /\ text \in {<<"sense">>, <<"get_boot">>, <<"status">>,
                        <<"programming">>, <<"reboot">>}
  <2>1. text[1] \in Words
    BY <1>3, WordsAssumption
  <2> QED
    BY <1>3, <2>1 DEF OutputOf, Say
<1>4. CASE /\ ~(StartsWith(text, "toggle") /\ Argument(text) # 0)
           /\ ~StartsWith(text, "set_boot")
           /\ text \notin {<<"sense">>, <<"get_boot">>, <<"status">>,
                           <<"programming">>, <<"reboot">>}
  BY <1>4 DEF OutputOf
<1> QED
  BY <1>1, <1>2, <1>3, <1>4

\* A command that acts says so, with its number, of which a selection keeps
\* the low byte.
LEMMA OutputAnnounces ==
  ASSUME NEW text, NEW before, EffectOf(text) # Nothing
  PROVE  /\ OutputOf(text, before).what = EffectOf(text).what
         /\ EffectOf(text).what = "toggle" =>
              EffectOf(text).arg = OutputOf(text, before).arg
         /\ EffectOf(text).what = "set_boot" =>
              EffectOf(text).arg = OutputOf(text, before).arg % 256
<1>1. CASE StartsWith(text, "toggle") /\ Argument(text) # 0
  BY <1>1 DEF OutputOf, EffectOf, Say
<1>2. CASE ~(StartsWith(text, "toggle") /\ Argument(text) # 0)
  <2>1. StartsWith(text, "set_boot")
    BY <1>2 DEF EffectOf
  <2>2. /\ OutputOf(text, before) = Say("set_boot", Argument(text))
        /\ EffectOf(text) = Say("set_boot", Argument(text) % 256)
    BY <1>2, <2>1 DEF OutputOf, EffectOf
  <2> QED
    BY <2>2 DEF Say
<1> QED
  BY <1>1, <1>2

-----------------------------------------------------------------------------
(* The invariant                                                           *)

LEMMA InitIInv == Init => IInv
<1> SUFFICES ASSUME Init
             PROVE  IInv
  OBVIOUS
<1>1. TypeOK
  BY LineSizeAssumption DEF Init, TypeOK, Blank, Nothing, Strokes
<1>2. EditInv /\ Announced
  BY DEF Init, EditInv, Announced
<1>3. EndInv
  <2>1. Len(typed) = 0 /\ 0 \in 0..Len(typed)
    BY DEF Init
  <2>2. Ends(typed, 0)
    BY <2>1 DEF Ends
  <2> QED
    BY <2>1, <2>2 DEF EndInv
<1> QED
  BY <1>1, <1>2, <1>3 DEF IInv

LEMMA KeyPreserves ==
  ASSUME IInv, NEW k \in Strokes, Key(k)
  PROVE  IInv'
<1> USE DEF Key, Editing
<1>1. TypeOK /\ EditInv
  BY DEF IInv
<1>2. /\ pos \in 1..LineSize /\ LineSize \in Nat /\ pos' = pos + 1
      /\ line \in [1..(LineSize + 1) -> Strokes]
      /\ typed \in Seq(Strokes) /\ Len(typed) = pos - 1
  BY <1>1, LineSizeAssumption DEF TypeOK, EditInv
<1>3. /\ typed' \in Seq(Strokes) /\ Len(typed') = pos /\ typed'[pos] = k
      /\ \A i \in 1..(pos - 1) : typed'[i] = typed[i]
  BY <1>2
<1>4. TypeOK'
  <2>1. line' \in [1..(LineSize + 1) -> Strokes]
    BY <1>2
  <2>2. pos' \in 1..(LineSize + 1)
    BY <1>2
  <2> QED
    BY <1>1, <1>3, <2>1, <2>2 DEF TypeOK, Nothing
<1>5. EditInv'
  <2>1. ASSUME NEW i \in 1..(pos' - 1)
        PROVE  line'[i] = typed'[i]
    <3>1. i \in 1..pos /\ i \in 1..(LineSize + 1)
      BY <1>2
    <3>2. CASE i = pos
      BY <1>2, <1>3, <3>1, <3>2
    <3>3. CASE i # pos
      <4>1. i \in 1..(pos - 1)
        BY <1>2, <3>1, <3>3
      <4>2. line[i] = typed[i]
        BY <1>1, <4>1 DEF EditInv
      <4> QED
        BY <1>2, <1>3, <3>1, <3>3, <4>1, <4>2
    <3> QED
      BY <3>2, <3>3
  <2> QED
    BY <1>2, <1>3, <2>1 DEF EditInv
<1>6. EndInv'
  <2>1. PICK n \in 0..Len(typed) : Ends(typed, n)
    BY DEF IInv, EndInv
  <2>2. n \in 0..(pos - 1) /\ pos \in Nat
    BY <1>2
  <2>3. CASE n = pos - 1 /\ k # Nul
    <3>1. pos \in 0..Len(typed') /\ Ends(typed', pos)
      BY <1>2, <1>3, <2>1, <2>3 DEF Ends
    <3> QED
      BY <3>1 DEF EndInv
  <2>4. CASE ~(n = pos - 1 /\ k # Nul)
    <3>1. n \in 0..Len(typed') /\ Ends(typed', n)
      BY <1>2, <1>3, <2>1, <2>2, <2>4 DEF Ends
    <3> QED
      BY <3>1 DEF EndInv
  <2> QED
    BY <2>3, <2>4
<1>7. Announced'
  BY DEF Announced
<1> QED
  BY <1>4, <1>5, <1>6, <1>7 DEF IInv

LEMMA BackspacePreserves ==
  ASSUME IInv, Backspace
  PROVE  IInv'
<1> USE DEF Backspace, Editing
<1>1. TypeOK /\ EditInv
  BY DEF IInv
<1>2. /\ pos \in 2..(LineSize + 1) /\ LineSize \in Nat /\ pos' = pos - 1
      /\ typed \in Seq(Strokes) /\ Len(typed) = pos - 1
  BY <1>1, LineSizeAssumption DEF TypeOK, EditInv
<1>3. typed' = SubSeq(typed, 1, pos - 2)
  BY <1>2 DEF Front
<1>4. /\ typed' \in Seq(Strokes) /\ Len(typed') = pos - 2
      /\ \A i \in 1..(pos - 2) : typed'[i] = typed[i]
  BY <1>2, <1>3
<1>5. TypeOK'
  BY <1>1, <1>2, <1>4 DEF TypeOK, Nothing
<1>6. EditInv'
  BY <1>1, <1>2, <1>4 DEF EditInv
<1>7. EndInv'
  <2>1. PICK n \in 0..Len(typed) : Ends(typed, n)
    BY DEF IInv, EndInv
  <2>2. n \in 0..(pos - 1) /\ pos - 2 \in Nat
    BY <1>2
  <2>3. CASE n = pos - 1
    <3>1. pos - 2 \in 0..Len(typed') /\ Ends(typed', pos - 2)
      BY <1>2, <1>4, <2>1, <2>2, <2>3 DEF Ends
    <3> QED
      BY <3>1 DEF EndInv
  <2>4. CASE n # pos - 1
    <3>1. n \in 0..Len(typed') /\ Ends(typed', n)
      BY <1>2, <1>4, <2>1, <2>2, <2>4 DEF Ends
    <3> QED
      BY <3>1 DEF EndInv
  <2> QED
    BY <2>3, <2>4
<1>8. Announced'
  BY DEF Announced
<1> QED
  BY <1>5, <1>6, <1>7, <1>8 DEF IInv

LEMMA EnterPreserves ==
  ASSUME IInv, Enter
  PROVE  IInv'
<1> DEFINE text == Text([line EXCEPT ![pos] = Nul])
<1>1. TypeOK /\ EditInv /\ EndInv /\ Announced
  BY DEF IInv
<1>2. text \in Seq(Keys)
  BY <1>1, TextOfLine
<1>3. /\ ran' = text /\ line' = Blank /\ pos' = 1 /\ typed' = <<>>
      /\ IF Throws(text)
           THEN pc' = "aborted" /\ UNCHANGED <<buffer, effect>>
           ELSE /\ pc' = IF Resets(text) THEN "reset" ELSE "reading"
                /\ buffer' = OutputOf(text, buffer)
                /\ effect' = EffectOf(text)
  BY DEF Enter
<1> HIDE DEF text
<1>4. EditInv' /\ EndInv'
  <2>1. Len(typed') = 0 /\ 0 \in 0..Len(typed')
    BY <1>3
  <2>2. Ends(typed', 0)
    BY <2>1 DEF Ends
  <2> QED
    BY <1>3, <2>1, <2>2 DEF EditInv, EndInv
<1>5. /\ line' \in [1..(LineSize + 1) -> Strokes]
      /\ pos' \in 1..(LineSize + 1)
      /\ ran' \in Seq(Keys) /\ typed' \in Seq(Strokes)
  BY <1>2, <1>3, LineSizeAssumption DEF Blank, Strokes
<1>6. CASE Throws(text)
  <2>1. TypeOK'
    BY <1>1, <1>3, <1>5, <1>6 DEF TypeOK
  <2>2. Announced'
    BY <1>1, <1>3, <1>6 DEF Announced
  <2> QED
    BY <1>4, <2>1, <2>2 DEF IInv
<1>7. CASE ~Throws(text)
  <2>1. buffer' = OutputOf(text, buffer) /\ effect' = EffectOf(text)
        /\ pc' \in {"reset", "reading"}
    BY <1>3, <1>7
  <2>2. TypeOK'
    BY <1>1, <1>5, <2>1, EffectTypes, OutputTypes DEF TypeOK
  <2>3. Announced'
    BY <2>1, OutputAnnounces DEF Announced
  <2> QED
    BY <1>4, <2>2, <2>3 DEF IInv
<1> QED
  BY <1>6, <1>7

LEMMA Step == IInv /\ [Next]_vars => IInv'
<1>1. IInv /\ UNCHANGED vars => IInv'
  <2> SUFFICES ASSUME IInv, UNCHANGED vars
               PROVE  IInv'
    OBVIOUS
  <2>1. TypeOK' /\ EditInv' /\ Announced'
    BY DEF IInv, TypeOK, EditInv, Announced, vars
  <2>2. EndInv'
    BY Zenon DEF IInv, EndInv, vars
  <2> QED
    BY <2>1, <2>2 DEF IInv
<1> QED
  BY <1>1, KeyPreserves, BackspacePreserves, EnterPreserves DEF Next

LEMMA Invariance == Spec => []IInv
  BY InitIInv, Step, PTL DEF Spec

-----------------------------------------------------------------------------
(* What follows from it                                                    *)

\* The array, the position in it and the buffer keep their types: no
\* keystroke and no terminator is written beyond the end of the array.
THEOREM TypeCorrect == Spec => []TypeOK
<1>1. IInv => TypeOK
  BY DEF IInv
<1> QED
  BY Invariance, <1>1, PTL

\* command() is given what the terminal shows up to the first '\0', for every
\* line that can be typed, taken back and typed over.
THEOREM RunsShown == Spec => RunsWhatIsShown
<1>1. IInv /\ [Next]_vars =>
        [Enter => /\ IsPrefix(ran', typed)
                  /\ \A i \in 1..Len(ran') : ran'[i] # Nul
                  /\ ran' # typed => typed[Len(ran') + 1] = Nul]_vars
  BY TextOfLine DEF IInv, Enter
<1> QED
  BY Invariance, <1>1, PTL DEF Spec, RunsWhatIsShown

\* No toggle and no selection is silent, or announced with another number.
THEOREM EffectsAnnounced == Spec => EffectsAreAnnounced
<1>1. IInv' => [Enter /\ effect' # Nothing =>
                  /\ buffer'.what = effect'.what
                  /\ effect'.what = "toggle" => effect'.arg = buffer'.arg
                  /\ effect'.what = "set_boot" =>
                       effect'.arg = buffer'.arg % 256]_vars
  BY DEF IInv, Announced
<1> QED
  BY Invariance, Step, <1>1, PTL DEF Spec, EffectsAreAnnounced
=============================================================================
