------------------------------- MODULE BootDisk -------------------------------
(***************************************************************************)
(* The boot selection (firmware/src/usb_descriptors.cpp): a line of text,  *)
(* `set default="N"`, in block 3 of a small FAT12 disk that the PC sees as *)
(* a USB mass storage device.  The CLI and the network tasks set it with   *)
(* snprintf and read it with strtoul; the host reads and writes the block  *)
(* through the USB task's read10 and write10 callbacks.  There is no lock, *)
(* and the two cores run these loops side by side: a step reads or writes  *)
(* one cell of the block.                                                  *)
(*                                                                         *)
(* Cell 1 stands for the 13 bytes `set default="`, the other cells for one *)
(* byte each; what lies behind the last cell is never anything but zero.   *)
(* A digit is its value.                                                   *)
(*                                                                         *)
(* A definition marked "Slip" is the next one with a plausible mistake in  *)
(* it; no specification uses it.  The README says which property notices.  *)
(***************************************************************************)
EXTENDS Integers, Sequences

CONSTANTS
  Users,     \* cli_task and network_task
  Host,      \* the USB task, on behalf of the PC
  Selects,   \* numbers users ask for; uint8_t in set_boot_select
  HostTexts  \* contents the PC writes to the block

Actors == Users \cup {Host}

Cells == 7

Digit == 0..9
Char == Digit \cup {-1, -2, -3, -4, -5}

Prefix == -1   \* set default="
Quote == -2
Newline == -3
Nul == -4
Other == -5    \* any other text

ASSUME ActorsAssumption == Host \notin Users
ASSUME SelectsAssumption == Selects \subseteq Nat
\* White space or a sign, which strtoul would skip, is not told apart from
\* other text: a host text has none where the number is.
ASSUME HostTextsAssumption ==
  /\ HostTexts \subseteq [1..Cells -> Char]
  /\ \A text \in HostTexts : text[2] # Newline

VARIABLES
  block,  \* block_data[3]
  op,     \* what each actor is doing
  at,     \* the next cell it reads or writes
  out,    \* the text it is writing
  acc,    \* strtoul's number so far, or the result of the last get
  copy,   \* what the PC has read of the block
  clean,  \* history: no writer was at work beside this actor's operation
  last,   \* history: the text that was last begun to be written
  whole   \* history: that write has ended and nothing overlapped it

vars == <<block, op, at, out, acc, copy, clean, last, whole>>

Writing(a) == op[a] \in {"set", "write10"}

Digits(v) ==
  IF v < 10 THEN <<v>>
  ELSE IF v < 100 THEN <<v \div 10, v % 10>>
  ELSE <<v \div 100, (v \div 10) % 10, v % 10>>

\* snprintf(..., "set default=\"%u\"\n", select), its terminator included.
Format(v) == <<Prefix>> \o Digits(v) \o <<Quote, Newline, Nul>>

TypeOK ==
  /\ block \in [1..Cells -> Char]
  /\ op \in [Actors -> {"idle", "set", "get", "write10", "read10", "done"}]
  /\ at \in [Actors -> 1..(Cells + 1)]
  /\ \A a \in Actors : Len(out[a]) <= Cells /\ \A i \in 1..Len(out[a]) : out[a][i] \in Char
  /\ acc \in [Actors -> Nat]
  /\ copy \in [1..Cells -> Char]
  /\ clean \in [Actors -> BOOLEAN]
  /\ Len(last) <= Cells
  /\ whole \in BOOLEAN

Pad(text) == [i \in 1..Cells |-> IF i <= Len(text) THEN text[i] ELSE Nul]

Init ==
  /\ block = Pad(Format(0))
  /\ op = [a \in Actors |-> "idle"]
  /\ at = [a \in Actors |-> 1]
  /\ out = [a \in Actors |-> <<>>]
  /\ acc = [a \in Actors |-> 0]
  /\ copy = Pad(<<>>)
  /\ clean = [a \in Actors |-> TRUE]
  /\ last = Format(0)
  /\ whole = TRUE

-----------------------------------------------------------------------------
(* Beginning an operation.  A writer spoils whatever else is under way.    *)

Begin(a, what, from) ==
  /\ op[a] = "idle"
  /\ op' = [op EXCEPT ![a] = what]
  /\ at' = [at EXCEPT ![a] = from]

Others(a) == Actors \ {a}

Overlapped(a) == \E b \in Others(a) : Writing(b)

BeginWrite(a, what, text) ==
  /\ Begin(a, what, 1)
  /\ out' = [out EXCEPT ![a] = text]
  /\ clean' = [b \in Actors |->
                 IF b = a THEN ~Overlapped(a) ELSE clean[b] /\ op[b] = "idle"]
  /\ last' = text
  /\ whole' = FALSE
  /\ UNCHANGED <<block, acc, copy>>

BeginRead(a, what, from) ==
  /\ Begin(a, what, from)
  /\ clean' = [clean EXCEPT ![a] = ~Overlapped(a)]
  /\ UNCHANGED <<block, out, last, whole>>

\* Slip: the parameter of set_boot_select is wider than a byte.
CallSetWide(u, v) == u \in Users /\ BeginWrite(u, "set", Format(v))

\* set_boot_select(v); its parameter is an uint8_t.
CallSet(u, v) == u \in Users /\ BeginWrite(u, "set", Format(v % 256))

\* Slip: the quotation mark is taken for the first digit.
CallGetEarly(u) ==
  /\ u \in Users
  /\ BeginRead(u, "get", 1)
  /\ acc' = [acc EXCEPT ![u] = 0]
  /\ UNCHANGED copy

\* get_boot_select(): strtoul from byte 13
CallGet(u) ==
  /\ u \in Users
  /\ BeginRead(u, "get", 2)
  /\ acc' = [acc EXCEPT ![u] = 0]
  /\ UNCHANGED copy

\* tud_msc_write10_cb and tud_msc_read10_cb, a block at a time
CallWrite10(text) == BeginWrite(Host, "write10", text)

CallRead10 ==
  /\ BeginRead(Host, "read10", 1)
  /\ UNCHANGED <<acc, copy>>

-----------------------------------------------------------------------------
(* One cell of an operation under way                                      *)

\* Slip: the text is copied without its terminator.
WriteCellUnterminated(a) ==
  /\ Writing(a)
  /\ at[a] < Len(out[a])
  /\ block' = [block EXCEPT ![at[a]] = out[a][at[a]]]
  /\ at' = [at EXCEPT ![a] = @ + 1]
  /\ op' = IF at[a] + 1 = Len(out[a]) THEN [op EXCEPT ![a] = "done"] ELSE op
  /\ whole' = (at[a] + 1 = Len(out[a]) /\ clean[a])
  /\ UNCHANGED <<out, acc, copy, clean, last>>

WriteCell(a) ==
  LET done == at[a] = Len(out[a]) IN
  /\ Writing(a)
  /\ block' = [block EXCEPT ![at[a]] = out[a][at[a]]]
  /\ at' = [at EXCEPT ![a] = @ + 1]
  /\ op' = IF done THEN [op EXCEPT ![a] = "done"] ELSE op
  /\ whole' = (done /\ clean[a])
  /\ UNCHANGED <<out, acc, copy, clean, last>>

CellAt(i) == IF i <= Cells THEN block[i] ELSE Nul

\* strtoul takes the digits it finds, up to the first other character.
ReadDigit(u) ==
  /\ op[u] = "get"
  /\ CellAt(at[u]) \in Digit
  /\ acc' = [acc EXCEPT ![u] = 10 * @ + block[at[u]]]
  /\ at' = [at EXCEPT ![u] = @ + 1]
  /\ UNCHANGED <<block, op, out, copy, clean, last, whole>>

\* It is returned as an uint8_t.
ReadEnd(u) ==
  /\ op[u] = "get"
  /\ CellAt(at[u]) \notin Digit
  /\ acc' = [acc EXCEPT ![u] = @ % 256]
  /\ op' = [op EXCEPT ![u] = "done"]
  /\ UNCHANGED <<block, at, out, copy, clean, last, whole>>

\* Slip: the copy leaves out a byte of the line.
ReadCellShort ==
  /\ op[Host] = "read10"
  /\ copy' = IF at[Host] = 3 THEN copy ELSE [copy EXCEPT ![at[Host]] = block[at[Host]]]
  /\ at' = [at EXCEPT ![Host] = @ + 1]
  /\ op' = IF at[Host] = Cells THEN [op EXCEPT ![Host] = "done"] ELSE op
  /\ UNCHANGED <<block, out, acc, clean, last, whole>>

ReadCell ==
  /\ op[Host] = "read10"
  /\ copy' = [copy EXCEPT ![at[Host]] = block[at[Host]]]
  /\ at' = [at EXCEPT ![Host] = @ + 1]
  /\ op' = IF at[Host] = Cells THEN [op EXCEPT ![Host] = "done"] ELSE op
  /\ UNCHANGED <<block, out, acc, clean, last, whole>>

\* The caller has used the result; its locals are gone.
Return(a) ==
  /\ op[a] = "done"
  /\ op' = [op EXCEPT ![a] = "idle"]
  /\ at' = [at EXCEPT ![a] = 1]
  /\ out' = [out EXCEPT ![a] = <<>>]
  /\ acc' = [acc EXCEPT ![a] = 0]
  /\ copy' = IF a = Host THEN Pad(<<>>) ELSE copy
  /\ clean' = [clean EXCEPT ![a] = TRUE]
  /\ UNCHANGED <<block, last, whole>>

-----------------------------------------------------------------------------
Next ==
  \/ \E u \in Users, v \in Selects : CallSet(u, v)
  \/ \E u \in Users : CallGet(u) \/ ReadDigit(u) \/ ReadEnd(u)
  \/ \E text \in HostTexts : CallWrite10(text)
  \/ CallRead10 \/ ReadCell
  \/ \E a \in Actors : WriteCell(a) \/ Return(a)

Spec == Init /\ [][Next]_vars

-----------------------------------------------------------------------------
(* Properties                                                              *)

Holds(cells, text) == \A i \in 1..Len(text) : cells[i] = text[i]

\* A write that nothing overlapped leaves its whole line in the block, with
\* nothing in front of the terminator of what a longer line, a torn write or
\* the PC left there, and it stays until the next write begins.
WholeWritesStay == whole => Holds(block, last)

\* A get that no write overlapped returns what the last writer set, whether
\* that was a user or the PC and whatever was in the block before.
CleanGetIsLastSet ==
  [][\A u \in Users :
       op[u] = "get" /\ op'[u] = "done" /\ clean[u] /\ whole =>
         \A v \in 0..255 : Holds(Pad(last), Format(v)) => acc'[u] = v]_vars

\* A block the PC reads while nobody writes is the line last written.
CleanHostReadIsLast ==
  [][op[Host] = "read10" /\ op'[Host] = "done" /\ clean[Host] /\ whole =>
       Holds(copy', last)]_vars
=============================================================================
