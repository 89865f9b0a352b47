---------------------------------- MODULE Cli ----------------------------------
(***************************************************************************)
(* cli_task (firmware/src/cli_task.cpp): a line editor over a fixed array  *)
(* of characters, a chain of commands, and one output buffer that lives as *)
(* long as the task and is printed after every line.                       *)
(*                                                                         *)
(* A keystroke stands for a word, with a blank between it and the one      *)
(* before, or for the character '\0', which the editor takes like any      *)
(* other and which ends the C string made of the line.  A line of a few    *)
(* words is a command with its argument.  What toggle and set_boot do to   *)
(* other tasks is in PowerSwitch and BootDisk; here it is the command's    *)
(* effect.                                                                 *)
(*                                                                         *)
(* A definition marked "Slip" is the next one with a plausible mistake in  *)
(* it; no specification uses it.  The README says which property notices.  *)
(***************************************************************************)
EXTENDS Integers, Sequences, SequencesExt

CONSTANTS
  Words,    \* words that are not numbers
  Value,    \* the value of each word that is a number
  LineSize  \* keystrokes that fit a line: 32 in the firmware

ASSUME WordsAssumption ==
  {"toggle", "sense", "get_boot", "set_boot", "status", "programming", "reboot"}
    \subseteq Words
ASSUME LineSizeAssumption == LineSize \in Nat \ {0}

Nul == ""

Numbers == DOMAIN Value

Keys == Words \cup Numbers

\* What can be typed.
Strokes == Keys \cup {Nul}

\* '\0' is a keystroke of its own, in no word, and no number has a sign.
ASSUME KeysAssumption == Nul \notin Keys /\ Value \in [Numbers -> Nat]

VARIABLES
  line,    \* char line[33]
  pos,     \* where the next keystroke goes
  buffer,  \* what the output buffer holds
  pc,      \* "reading", or how the firmware ended
  ran,     \* history: the text command() was given by the last keystroke
  effect,  \* history: and what it did
  typed    \* history: what the terminal shows of the present line

vars == <<line, pos, buffer, pc, ran, effect, typed>>

Nothing == [what |-> "nothing", arg |-> 0]

Say(what, arg) == [what |-> what, arg |-> arg]

TypeOK ==
  /\ line \in [1..(LineSize + 1) -> Strokes]
  /\ pos \in 1..(LineSize + 1)
  /\ buffer.what \in Words \cup {"nothing"} /\ buffer.arg \in Nat
  /\ pc \in {"reading", "aborted", "reset"}
  /\ ran \in Seq(Keys)
  /\ effect.what \in {"nothing", "toggle", "set_boot"} /\ effect.arg \in Nat
  /\ typed \in Seq(Strokes)

Blank == [i \in 1..(LineSize + 1) |-> Nul]

Init ==
  /\ line = Blank
  /\ pos = 1
  /\ buffer = Nothing
  /\ pc = "reading"
  /\ ran = <<>>
  /\ effect = Nothing
  /\ typed = <<>>

-----------------------------------------------------------------------------
(* The line editor                                                         *)

\* Nothing is run by a keystroke that edits the line.
Editing == ran' = <<>> /\ effect' = Nothing

\* Slip: the guard leaves no room for the terminator.
KeyToTheEnd(k) ==
  /\ pc = "reading"
  /\ pos <= LineSize + 1
  /\ line' = [line EXCEPT ![pos] = k]
  /\ pos' = pos + 1
  /\ typed' = Append(typed, k)
  /\ Editing
  /\ UNCHANGED <<buffer, pc>>

\* Any other character, '\0' too; one that does not fit is not echoed either.
Key(k) ==
  /\ pc = "reading"
  /\ pos <= LineSize
  /\ line' = [line EXCEPT ![pos] = k]
  /\ pos' = pos + 1
  /\ typed' = Append(typed, k)
  /\ Editing
  /\ UNCHANGED <<buffer, pc>>

\* '\b' only moves back; the character stays in the array.
Backspace ==
  /\ pc = "reading"
  /\ pos > 1
  /\ pos' = pos - 1
  /\ typed' = Front(typed)
  /\ Editing
  /\ UNCHANGED <<line, buffer, pc>>

-----------------------------------------------------------------------------
(* command(): the text, the buffer before and after, and the effect        *)

\* The C string in the array.
Text(array) ==
  LET end == CHOOSE i \in DOMAIN array :
               array[i] = Nul /\ \A j \in 1..(i - 1) : array[j] # Nul
  IN  SubSeq(array, 1, end - 1)

StartsWith(text, word) == text # <<>> /\ text[1] = word

\* from_chars on what follows the word: 0 if no number is there
Argument(text) == IF text[2] \in Numbers THEN Value[text[2]] ELSE 0

\* substr(7) and substr(9) throw when the line is the word alone, and nothing
\* catches that.
Throws(text) == text \in {<<"toggle">>, <<"set_boot">>}

Resets(text) == text \in {<<"programming">>, <<"reboot">>}

EffectOf(text) ==
  IF StartsWith(text, "toggle") /\ Argument(text) # 0
    THEN Say("toggle", Argument(text))
  ELSE IF StartsWith(text, "set_boot")
    THEN Say("set_boot", Argument(text) % 256)
  ELSE Nothing

\* Slip: set_boot reports nothing.
OutputOfSilent(text, before) ==
  IF StartsWith(text, "toggle") /\ Argument(text) # 0
    THEN Say("toggle", Argument(text))
  ELSE IF text \in {<<"sense">>, <<"get_boot">>, <<"status">>,
                    <<"programming">>, <<"reboot">>}
    THEN Say(text[1], 0)
  ELSE before

\* What the buffer holds afterwards: commands that write nothing, and lines
\* that are no command, leave it as it was.
OutputOf(text, before) ==
  IF StartsWith(text, "toggle") /\ Argument(text) # 0
    THEN Say("toggle", Argument(text))
  ELSE IF StartsWith(text, "set_boot")
    THEN Say("set_boot", Argument(text))
  ELSE IF text \in {<<"sense">>, <<"get_boot">>, <<"status">>,
                    <<"programming">>, <<"reboot">>}
    THEN Say(text[1], 0)
  ELSE before

-----------------------------------------------------------------------------
\* Slip: the array is not terminated where the line ends.
EnterUnterminated ==
  LET text == Text(line) IN
  /\ pc = "reading"
  /\ ran' = text
  /\ line' = Blank
  /\ pos' = 1
  /\ IF Throws(text)
       THEN pc' = "aborted" /\ UNCHANGED <<buffer, effect>>
       ELSE /\ pc' = IF Resets(text) THEN "reset" ELSE "reading"
            /\ buffer' = OutputOf(text, buffer)
            /\ effect' = EffectOf(text)
  /\ typed' = <<>>

\* '\r': the line is terminated, run, its output printed, and cleared.
Enter ==
  LET text == Text([line EXCEPT ![pos] = Nul]) IN
  /\ pc = "reading"
  /\ ran' = text
  /\ line' = Blank
  /\ pos' = 1
  /\ typed' = <<>>
  /\ IF Throws(text)
       THEN pc' = "aborted" /\ UNCHANGED <<buffer, effect>>
       ELSE /\ pc' = IF Resets(text) THEN "reset" ELSE "reading"
            /\ buffer' = OutputOf(text, buffer)
            /\ effect' = EffectOf(text)

Next == Enter \/ Backspace \/ \E k \in Strokes : Key(k)

Spec == Init /\ [][Next]_vars

-----------------------------------------------------------------------------
(* Properties                                                              *)

\* command() is given what the terminal was sent of this line, up to the first
\* '\0' that was typed, and to the end if none was: a keystroke that did not
\* fit, a character taken back and what earlier lines left in the array never
\* reach it, and nothing that was shown in front of a '\0' is missing.
RunsWhatIsShown ==
  [][Enter => /\ IsPrefix(ran', typed)
              /\ \A i \in 1..Len(ran') : ran'[i] # Nul
              /\ ran' # typed => typed[Len(ran') + 1] = Nul]_vars

\* A toggle or a boot selection is never made without the line saying so: a
\* toggle with its exact time; set_boot says the number that was asked for,
\* and the selection is its low byte.
EffectsAreAnnounced ==
  [][Enter /\ effect' # Nothing =>
       /\ buffer'.what = effect'.what
       /\ effect'.what = "toggle" => effect'.arg = buffer'.arg
       /\ effect'.what = "set_boot" => effect'.arg = buffer'.arg % 256]_vars

\* The converse, which is what the message at cli_task.cpp:41, "Toggling
\* switch for %lu milliseconds", says: it is printed by a line that toggles.
AnnouncedToggleHappens ==
  [][Enter /\ pc' = "reading" /\ buffer'.what = "toggle" => effect' = buffer']_vars
=============================================================================
