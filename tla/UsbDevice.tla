------------------------------- MODULE UsbDevice -------------------------------
(***************************************************************************)
(* The control side of the USB device (firmware/src/usb_descriptors.cpp):  *)
(* the string descriptors, which are all built in one static buffer, and   *)
(* the reset interface, through which the PC reboots the device into its   *)
(* boot loader.  TinyUSB, which is external, calls one callback at a time  *)
(* from one task and copies a string out of the buffer before it takes the *)
(* next request.  What the PC sends, and when, is up to the PC.            *)
(*                                                                         *)
(* A string is an index of the table and a length; a unit of the buffer is *)
(* the string that wrote it last.                                          *)
(*                                                                         *)
(* A definition marked "Slip" is the next one with a plausible mistake in  *)
(* it; no specification uses it.  The README says which property notices.  *)
(***************************************************************************)
EXTENDS Integers, Sequences

CONSTANTS
  Indices,  \* string indices the PC asks for
  NoString  \* what no string has written

ASSUME IndicesAssumption == Indices \subseteq 0..255 /\ NoString \notin 0..255

ITF_NUM_CDC == 0
ITF_NUM_CDC_DATA == 1
ITF_NUM_MSC == 2
ITF_RESET == 3

\* desc_configuration: the interfaces in their order, with their class and
\* the index of their name (the second of CDC's two has none).
desc_configuration ==
  <<[number |-> ITF_NUM_CDC, class |-> "cdc", name |-> 4],
    [number |-> ITF_NUM_CDC_DATA, class |-> "cdc_data", name |-> 0],
    [number |-> ITF_NUM_MSC, class |-> "msc", name |-> 5],
    [number |-> ITF_RESET, class |-> "vendor", name |-> 6]>>

Interfaces == {desc_configuration[i] : i \in DOMAIN desc_configuration}

\* iManufacturer, iProduct and iSerialNumber
desc_device == {1, 2, 3}

\* The indices a PC can know of: the languages and the names given above.
Named == {0} \cup desc_device \cup {i.name : i \in Interfaces}

\* string_desc_arr: the length of each entry.
string_desc_arr ==
  [index \in 0..6 |-> <<1, 15, 24, 0, 3, 3, 5>>[index + 1]]

SerialLength == 16  \* pico_id: two hex digits for each of eight bytes

LongestString == 24 \* desc_max without the header

VARIABLES
  mode,                    \* "running", or how the firmware ended
  configured,              \* the PC has set the configuration
  reset_interface_number,
  header,                  \* length in the buffer's first unit
  units,                   \* the other units of _desc_str
  answer,                  \* what the last control request was answered
  asked                    \* history: the string it asked for, if any

vars == <<mode, configured, reset_interface_number, header, units, answer, asked>>

Stall == [length |-> 0, units |-> <<>>]

TypeOK ==
  /\ mode \in {"running", "bootsel", "flash", "undefined"}
  /\ configured \in BOOLEAN
  /\ reset_interface_number \in {i.number : i \in Interfaces}
  /\ header \in 0..LongestString
  /\ units \in [1..LongestString -> 0..255 \cup {NoString}]
  /\ answer.length \in 0..LongestString
  /\ answer.units \in Seq(0..255 \cup {NoString})
  /\ asked \in Indices \cup {NoString}

Init ==
  /\ mode = "running"
  /\ configured = FALSE
  /\ reset_interface_number = 0
  /\ header = 0
  /\ units = [i \in 1..LongestString |-> NoString]
  /\ answer = Stall
  /\ asked = NoString

-----------------------------------------------------------------------------
(* tud_descriptor_string_cb                                                *)

Fill(index, length) ==
  [i \in 1..LongestString |-> IF i <= length THEN index ELSE units[i]]

\* The buffer goes out as far as its header says.
Answer(index) ==
  /\ answer' = [length |-> header', units |-> SubSeq(units', 1, header')]
  /\ asked' = index
  /\ UNCHANGED <<mode, configured, reset_interface_number>>

NoAnswer(index) == answer' = Stall /\ asked' = index

\* Slip: chr_count is set in the other branch only, and starts at 0.
GetSerialUncounted ==
  /\ mode = "running"
  /\ 3 \in Indices
  /\ units' = Fill(3, SerialLength)
  /\ header' = 0
  /\ Answer(3)

\* Slip: chr_count counts bytes, of which a unit has two.
GetSerialBytes ==
  /\ mode = "running"
  /\ 3 \in Indices
  /\ units' = Fill(3, 2 * SerialLength)
  /\ header' = 2 * SerialLength
  /\ answer' = [length |-> header', units |-> units']
  /\ asked' = 3
  /\ UNCHANGED <<mode, configured, reset_interface_number>>

\* Index 3 is the serial number, from pico_id.
GetSerial ==
  /\ mode = "running"
  /\ 3 \in Indices
  /\ units' = Fill(3, SerialLength)
  /\ header' = SerialLength
  /\ Answer(3)

GetString(index) ==
  /\ mode = "running"
  /\ index # 3
  /\ index \in DOMAIN string_desc_arr
  /\ units' = Fill(index, string_desc_arr[index])
  /\ header' = string_desc_arr[index]
  /\ Answer(index)

\* index > string_desc_arr.size(), which lets the size itself through.
GetNoString(index) ==
  /\ mode = "running"
  /\ index > 7
  /\ NoAnswer(index)
  /\ UNCHANGED <<mode, configured, reset_interface_number, header, units>>

\* string_desc_arr[7] is behind the end of the array.
GetBeyond(index) ==
  /\ mode = "running"
  /\ index = 7
  /\ mode' = "undefined"
  /\ NoAnswer(index)
  /\ UNCHANGED <<configured, reset_interface_number, header, units>>

-----------------------------------------------------------------------------
(* Configuration and reset interface                                       *)

\* Slip: reset_open accepts the interface and does not note its number.
SetConfigurationForgets ==
  /\ mode = "running"
  /\ configured' = TRUE
  /\ NoAnswer(NoString)
  /\ UNCHANGED <<mode, reset_interface_number, header, units>>

\* TinyUSB offers each interface to reset_open, which takes the one of the
\* vendor class and notes its number.
SetConfiguration ==
  /\ mode = "running"
  /\ ~configured
  /\ \E i \in Interfaces :
       /\ i.class = "vendor"
       /\ reset_interface_number' = i.number
  /\ configured' = TRUE
  /\ NoAnswer(NoString)
  /\ UNCHANGED <<mode, header, units>>

\* A bus reset, or configuration 0: TinyUSB calls reset_reset and forgets the
\* configuration.
BusReset ==
  /\ mode = "running"
  /\ reset_interface_number' = 0
  /\ configured' = FALSE
  /\ NoAnswer(NoString)
  /\ UNCHANGED <<mode, header, units>>

\* A class request to an interface; TinyUSB hands it to the driver that
\* opened the interface and refuses it while there is none.  `index` is the
\* whole of wIndex, of which TinyUSB takes the low byte.
ControlXfer(index, request) ==
  /\ mode = "running"
  /\ configured
  /\ index % 256 = ITF_RESET
  /\ mode' = IF index # reset_interface_number THEN "running"
             ELSE IF request = "bootsel" THEN "bootsel"
             ELSE IF request = "flash" THEN "flash"
             ELSE "running"
  /\ NoAnswer(NoString)
  /\ UNCHANGED <<configured, reset_interface_number, header, units>>

\* tud_cdc_line_coding_cb: 1200 baud asks for the boot loader, too.
LineCoding(baud) ==
  /\ mode = "running"
  /\ configured
  /\ mode' = IF baud = 1200 THEN "bootsel" ELSE "running"
  /\ NoAnswer(NoString)
  /\ UNCHANGED <<configured, reset_interface_number, header, units>>

-----------------------------------------------------------------------------
ResetRequests == {"bootsel", "flash", "other"}

Next ==
  \/ GetSerial
  \/ \E index \in Indices : GetString(index) \/ GetNoString(index) \/ GetBeyond(index)
  \/ SetConfiguration \/ BusReset
  \/ \E index \in {ITF_RESET, 256 + ITF_RESET}, request \in ResetRequests :
       ControlXfer(index, request)
  \/ \E baud \in {1200, 9600} : LineCoding(baud)

Spec == Init /\ [][Next]_vars

-----------------------------------------------------------------------------
(* Properties                                                              *)

\* A request for a string that a descriptor of the device names is answered,
\* with that string, whole, and with nothing of those that were in the buffer
\* before.
StringsAreAnswered ==
  asked \in Named =>
    /\ answer.length = (IF asked = 3 THEN SerialLength ELSE string_desc_arr[asked])
    /\ answer.units = [i \in 1..answer.length |-> asked]

\* However often the bus was reset, a configured device carries out a reset
\* that is asked of the interface its configuration announces.
ResetsAreObeyed ==
  [][\A request \in {"bootsel", "flash"} :
       ControlXfer(ITF_RESET, request) => mode' = request]_vars
=============================================================================
