# Verification of the wifi PC power switch firmware

The repository holds the board and the firmware of a Raspberry Pi Pico W that
presses the power button of a PC, reports whether the PC is on, and tells its
boot loader what to boot. The hardware files (KiCad, production, design) are not
a program. The firmware, `src/firmware`, is about 2300 lines of C++ on FreeRTOS
(two cores, preemption, time slicing), lwIP, the cyw43 wifi driver and TinyUSB.
It has no tests and no documents besides its comments. This directory specifies
its logic in TLA+, checks it with TLC on small instances and proves all of its
safety properties with TLAPS for all instances.

## 1. The system

Six tasks of the repository and the USB task of the gpico library share a few
objects. Of these only `wifi_initd` and `pc_state` are atomic, and nothing is
locked but inside the libraries.

| component | state | operations | correct when |
|---|---|---|---|
| `switch_queue` (`switch_task.h`) | `initialized`, `handle` | `get()`, which creates the queue the first time | all tasks use one queue |
| `switch_task`, `pc_switch<22>` (`switch_task.cpp`, `switch.ipp`) | the queue of length 1, GPIO 22, the LED | receive a time, LED on, pin high, delay, LED off, pin low | the button is down only in a press, a press lasts its time, every queued request is carried out |
| `init_task` (`main.cpp`) | `wifi_initd` (read) | creates the CLI and wifi tasks, waits for the wifi, creates the others | nothing uses the chip before it is up |
| `monitor_task` (`monitor_task.cpp`) | `pc_state`, a second `pc_switch<22>` | build the driver, then sample GPIO 21 once a second | its driver object never disturbs a press |
| `network_task`, `server`, `socket`, `request_handler` | one listening and one connected socket, a 1024-byte array | listen, accept, read a request, answer, act, close | no descriptor leaks, only complete requests act, every connection is answered and ends |
| boot selection and mass storage (`usb_descriptors.cpp`) | `block_data[3]`, a line of text | `set_boot_select`, `get_boot_select`, `read10`, `write10` | undisturbed operations agree, a torn write is repaired by the next, and the file a boot loader finds is the line |
| `cli_task` (`cli_task.cpp`) | the line, the output buffer | edit, run a line, print the buffer; `status` lists interface and tasks | the line that runs is the one shown; what is printed is what was done, or what is there |
| `wifi_management_task` | `wifi_initd`, the link | bring up the chip, connect, watch, connect again | `init_task` is released, outages are noticed and end |
| USB descriptors, reset interface (`usb_descriptors.cpp`) | the string buffer, `reset_interface_number` | the control callbacks of TinyUSB | strings are sent whole, a reset that is asked for happens |
| `ntp.cpp`, `log.cpp` | | nothing constructs the NTP client; the log is in the external gpico library | not modelled |

How they interact:

* `cli_task` and `network_task` send times to `switch_task` through the switch
  queue, without waiting and without looking at the result.
* `switch_task` and `monitor_task` own one driver object each, for the same pin.
* `cli_task`, `network_task` and the USB task read and write one block of
  memory.
* `wifi_management_task` sets `wifi_initd`; `init_task` spins on it before it
  creates `switch_task`, `network_task` and `monitor_task`. `cli_task` runs
  before.
* `network_task` and `cli_task` read `pc_state`.
* `status` counts and lists the tasks while `init_task` still creates them, and
  uses the network interface that `wifi_management_task` sets up.

What is hard here: two cores interleave all of this statement by statement; the
queue is created lazily and without a lock; requests arrive before the task that
serves them exists; recv splits requests anywhere and peers stop anywhere;
almost every call into lwIP can fail; the wifi link comes and goes between the
reading of its state and the use of what was read. `PROJECT.json` lists these
hazards one by one, each with its line and the properties that would notice it
going wrong, or with the reason why none does yet.

## 2. Modules

| module | models | proofs |
|---|---|---|
| `SwitchQueue` | `switch_queue::get` access by access, by any number of tasks, and the queue calls after it | `SwitchQueue_proofs` |
| `PowerSwitch` | `init_task`, `switch_task`, both constructors of the pin's driver, the requests | `PowerSwitch_proofs` |
| `Firmware` | the two in one: the tasks of `PowerSwitch` reach their queue through `SwitchQueue`, in boot order | `Firmware_proofs` |
| `Monitor` | `PowerSwitch` with `monitor_task` in full | `PowerSwitch_proofs` |
| `Status` | `Monitor` with the `status` command | `PowerSwitch_proofs` |
| `Button` | the abstract promise about the button; `PowerSwitch` implements it | `PowerSwitch_proofs` |
| `NetworkServer`, `MCNetworkServer` | the whole of `network_task` and its classes | `NetworkServer_proofs` |
| `NetworkService` | the abstract promise to clients; `NetworkServer` implements it | `NetworkServer_proofs` |
| `BootDisk` | the block with the selection, byte by byte, under two users and the PC | `BootDisk_proofs` |
| `BootFile`, `MCBootFile` | `BootDisk` in its volume: boot sector, table and directory, and who follows them | `BootDisk_proofs` |
| `Cli`, `MCCli` | the line editor, the chain of commands, the output buffer | `Cli_proofs` |
| `WifiManager` | `wifi_management_task` and the link | `WifiManager_proofs` |
| `UsbDevice` | string descriptors, configuration and reset interface | `UsbDevice_proofs` |

Actions have the name of the call or statement they stand for; the comment above
an action quotes it. A definition under a comment that begins with "Slip" is its
successor with a plausible mistake in it. No specification uses it. Putting it
in the successor's place makes one property fail (section 5), which shows that
the property depends on that piece of the code.

**SwitchQueue.** One step is one access to `initialized` or `handle`, or one
queue call. The fields are neither atomic nor volatile, so the model leaves open
what the build may do: the two stores of the creating branch happen in either
order, and what `return handle` gives back may have been loaded when the call
began, be the value just stored, or be loaded now. A creation may fail for lack
of memory; its null is stored and handed out like a handle. A queue is
identified with the task that made it. `overlap` is a history variable: it
becomes true when a call that is creating the queue runs beside another call.

**PowerSwitch.** `pc["init"]`, `pc["switch"]` and `pc["monitor"]` name the next
statement of the three tasks; `dir` and `level` are the two halves of GPIO 22
(direction and output register). `cli_task`, `network_task` and
`wifi_management_task` appear as the actions `CliToggle`, `NetworkToggle` and
`WifiUp`, enabled once `init_task` has created the task. The module takes the
queue as existing and shared. That is what `SwitchQueue`'s theorem `OneQueue`
gives while the creation is not raced and succeeds, and `Firmware` shows that
this is enough; when it is raced, `switch_task` may wait on a queue nobody fills
and nothing here applies. Ticks are counted only while `vTaskDelay` runs. `lost`
and `sure` are history variables, about the ticks in which the press did not
reach the pin, and about whether `monitor_task` had finished its constructor
when the press began.

**Firmware** has the variables of both modules but `full` and `queue`, which
become what the queues hold: `items` has the contents of every queue, and
`queue` is that of the one `handle` names. An access of `get()` leaves
`PowerSwitch` alone, and a send or a receive is a step of both. A task is at the
queue once `init_task` has created it. `warm` is a history variable: a `get()`
of the command line had come back before `init_task` created `switch_task`.

**Monitor** extends `PowerSwitch`: its steps are those of `PowerSwitch`, those
of the sampling loop, and the PC going on or off. The sample and its store in
`pc_state` are two steps. `current_pc_state()` returns `pc_state`; it has no
action of its own, as its callers only print or send what they get.

**Status** extends `Monitor`: the count of the tasks and the listing are two
steps of `cli_task`, beside which everything else goes on. `Existing` are the
tasks the kernel counts, `init_task` among them until the idle task has freed it
(`Reap`). `Filled` is what `uxTaskGetSystemState` puts into an array of
`counted` entries: nothing when it is too small. `calm` is a history variable:
the boot was over when the command began.

**Button.** Requests wait in a bounded line, in order; the button is held for
one at a time and for the time it asked; it is up otherwise. Until the device
has `settled` a press may be disturbed, after that never.

**NetworkServer.** One step is one call into lwIP or one effect on another task;
`pc` is the next call. `holder` maps the four socket objects (`server_`'s, the
local of `listen`, the result of `accept`, the handler's) to descriptors, `open`
is what lwIP has open, so moves, swaps and destructors are visible. A client's
message is a record: the size it announces, the bytes it really sends, whether
it closes or falls silent, whether the magic matches, and the request. Payload
values are left out. The moves of a socket inside `accept` are one step: nobody
else sees the objects. Peers connect at any time and in any number, since
`lwipopts.h` does not set `TCP_LISTEN_BACKLOG` and the backlog of 1 that
`listen` is given bounds nothing.

**NetworkService** knows connections, answers and effects only. A command is
answered if the client asked for it, then carried out, once; `set_boot` is
confirmed after that; everything else is answered once without effect; a
connection is closed when nothing is owed. `NetworkServer` maps to it by the
identity, with what a client asks computed from its message: the exact size
announced, and all of it sent.

**BootDisk.** Cell 1 of the block stands for the 13 constant bytes `set
default="`, cells 2 to 7 for one byte each. `set` and `write10` write cell by
cell, `get` and `read10` read cell by cell, with no order between actors.
`clean`, `last` and `whole` record whether an operation was overlapped by a
writer. `% 256` is the cut to `uint8_t` in the parameter of `set_boot_select`
and in the result of `get_boot_select`.

**BootFile** adds what stands around the block. The numbers of the boot sector,
the table and the directory entry are those of `block_data`; the way from them
to a block is the FAT driver's, which is external. The PC finds the file
(`FindFile`), then reads the block found, or saves the entry with another length
(`SaveEntry`) and writes the block. `found` is the entry it follows.

**Cli.** A keystroke stands for a word, so that `<<"toggle", "five">>` is the
line `toggle 5`; a line holds three of them. The character `'\0'`, which the
editor stores and echoes like any other, is a keystroke of its own. `line` is
the character array with what earlier keystrokes left in it, `typed` what the
terminal shows. `effect` is what the line asked of other tasks. `starts_with`
compares with a whole word, so that a command with something attached to it
(`toggle15`) is no line of the model; no property is about such a line.

**WifiManager.** `link` is what the driver reports and `flag` the flag of the
lwIP interface. Between any two steps of the task both may change in any way,
for better or worse or from one bad state to another (`LinkChanges`).
`current_state` is the task's copy. `lost` is a history variable: which of the
two has fallen since the task looked at it, or since it connected. `behind`
counts the periods that `vTaskDelayUntil` has to catch up with after attempts
that took ten seconds each.

**UsbDevice.** TinyUSB is external and calls one callback at a time. A string is
an index and a length, a unit of the buffer is the string that wrote it last.
TinyUSB sends class requests to the driver that opened their interface, which
the model takes as it is; `reset_control_xfer_cb` compares the whole of `wIndex`
with the number it noted. Index 7, one past the table, is let through by the
code and ends in `undefined`.

## 3. Runs

`tlc -config <cfg> <module>`, with cfg and module as in `PROJECT.json`; all take
seconds, the largest half a minute.

| run | shows |
|---|---|
| `switch_queue` | While no creation is overlapped, the tasks share one existing queue (`SerialTasksShareOneQueue`), one queue is ever made and holds all items (`SerialGetMakesOneQueue`), and each item is received (`SerialItemsAreReceived`). Raced or not, once the flag is up and nobody is creating, the handle never changes (`HandleSettles`), also when it is the null of a failed creation. |
| `firmware` | Unless the creation is raced, the firmware in its boot order, `get()` access by access, is `PowerSwitch` (`UnracedIsPowerSwitch`), and a toggle in the queue is carried out for the time it asked (`ToggleIsPressed`). A toggle whose `get()` came back before `switch_task` was created rules the race out (`WarmBootIsNotRaced`): only a boot during which nothing was toggled can be raced. |
| `power_switch` | The button is up between presses, at every point of either constructor (`ReleasedBetweenPresses`); a press that began after the device settled holds the pin for every tick (`SettledPressIsWhole`); after both constructors, in any order, the pin is an output (`PinIsOutput`); the LED, which is behind the wifi chip, waits for the chip (`LedNeedsWifi`); the firmware implements `Button` (`ButtonPromise`); every queued request is carried out, also one typed before `switch_task` exists (`QueuedRequestIsPressed`), and every press ends, also one of no time (`PressEnds`). The run's module is `Status`, so all of this holds with the sampling loop and the `status` command running; what `current_pc_state()` returns agrees with the PC in the end if the PC stays as it is (`SenseFollows`); a `status` that begins after `init_task` is gone shows the interface and exactly the tasks that exist (`StatusAfterBootIsRight`). |
| `network_server` | Every open descriptor is held by one object and no object holds a closed one (`SocketsAreOwnedOnce`); the task implements `NetworkService` (`KeepsService`): it acts only for a request that announced its exact size and arrived in full, acknowledges it first and carries it out once, and closes no connection that is owed anything; no connection waits for ever (`ConnectionsEnd`). |
| `boot_disk` | A write nothing overlapped leaves its whole line, over any remains (`WholeWritesStay`); a `get` or a read by the PC that nothing overlapped returns what was last written (`CleanGetIsLastSet`, `CleanHostReadIsLast`); `boot.cfg`, followed from the boot sector on, holds the line last set, by a task or by the PC, for each of the 256 selections; its length in the directory lets the whole number through, and the end of the line if and only if the number has one digit (`FileIsTheLine`). |
| `cli` | What runs is what is shown, up to the first `'\0'` typed and all of it if there is none (`RunsWhatIsShown`); a toggle is announced with its time, a selection with a number of which it is the low byte, and neither is silent (`EffectsAreAnnounced`). |
| `wifi_manager` | `wifi_initd` is set in the end (`Released`); an outage ends, unless status and flag take turns for ever at being bad, so that each look of the task finds its half good (`OutagesEnd`); if they stop changing by themselves the link is good and left alone in the end (`StaysConnected`); what is bad while the task sleeps fell after the task had looked at it, although it acts on a copy of the status (`SleepsConnected`); after the last outage the loop returns to one look a second (`CatchesUp`). |
| `usb_device` | A string that a descriptor names is answered whole, with nothing of what was in the buffer (`StringsAreAnswered`); a configured device carries out a reset asked of the interface it announces, however often the bus was reset (`ResetsAreObeyed`). |

Each passing run also checks its module's `TypeOK`. Four more runs check what a
comment, a header or a message of the code says, and TLC finds it violated:

| run | what the code says | what it does |
|---|---|---|
| `firmware_race` | `switch_task.h:15`: `get()` must be called from a task | that is not enough, also in the order in which `init_task` creates the tasks: the first calls of two tasks can both create a queue, and one task keeps the other's |
| `power_switch_cut` | `switch_task.cpp:33`: toggling the pin for so many ms | a toggle typed before the wifi is up is carried out when `switch_task` starts; `monitor_task`'s constructor then releases the pin (`monitor_task.cpp:35`) |
| `network_server_restart` | `network_task.cpp:28`: restart the server if there are errors | after an error of `accept` the loop goes on with the same socket; `server_.close()` at line 174 is out of reach |
| `cli_stale_output` | `cli_task.cpp:41`: toggling the switch | the buffer is never cleared: an empty line prints the message again and toggles nothing |

Four more flaws need no run to be seen, being one step of one actor, and are in
the models as they are in the code: a `getaddrinfo` that fails with a code other
than -1 is taken for a success and its null list dereferenced (`server.cpp:93`,
`Getaddrinfo`); string index 7 is looked up behind the table
(`usb_descriptors.cpp:287`, `GetBeyond`); a bare `toggle` or `set_boot` throws
out of the task (`cli_task.cpp:38`, `Throws`); the directory entry of `boot.cfg`
keeps its 16 bytes (`usb_descriptors.cpp:410`, called 4 in its comment) when
`set_boot_select` prints a number of two or three digits, so from 10 on the file
has no newline and from 100 on no closing quote (`FileIsTheLine` says so). A
`status` during the boot prints an interface that is not there, an empty list,
or an entry without a name (`Count`, `List`). And the serial number has the low
digit of each byte first (`usb_descriptors.cpp:243`), which makes it differ from
the unique id that `status` prints.

### Bounds

* `switch_queue`: two senders and one receiver, the firmware's tasks. The proofs
  cover any number of senders.
* `firmware`: the three tasks; `Durations` 0 and 2. Its `CONSTRAINT Unraced`
  keeps TLC from going on behind a race. What is cut off satisfies all four
  properties by their wording, or is of no concern to them: `overlap` never
  falls back, `UnracedIsPowerSwitch` asks nothing of a step that leads there or
  of those after it, `ToggleIsPressed` is fulfilled there, and the first state
  of a race is still checked for the invariants' sake, being found from an
  unraced one. Behind a race TLC checks nothing; that the types and the promises
  about the pin hold there too is proved (`TypeCorrect`, `PinSafe`).
* `power_switch`: `QueueLength` 1 as in `switch_task.h:23`; `Durations` 0 (which
  only the network accepts), 1 and 3, the last long enough for the other
  constructor to run within a press. The proofs cover any set and any length.
* `network_server`: two clients, so that one may wait, or come, while the other
  is served. `BufferSize` is 16 instead of 1024: the code compares a size with
  8, with 12 and with the buffer, and the messages lie on, below and above each,
  cut inside the size field, one byte short, complete, and longer than
  announced. `ZeroReads` is 1: after a FIN lwIP returns 0 once and then fails
  with ENOTCONN.
* `boot_disk`: two users that are alike (hence the symmetry) and the PC. The
  users ask for 1031, which is 7 as a byte; the PC writes a longer line, 232, or
  a block of other text. So a short line lands on a longer one, on a torn one
  and on one without a terminator. Two users with different numbers would meet
  no step that a user and the PC do not meet, as all writers go through
  `WriteCell`. Host texts have no blank or sign in front of the number, which
  `strtoul` would skip. The PC reads and writes whole blocks, as the USB buffer
  is one block. It saves the entry with one other length, 18. So the run sees
  numbers of one digit from the users and of three from the PC; that
  `FileIsTheLine` holds of all 256 is proved.
* `cli`: a line of three words, two being a full command; all commands, a word
  that is none, `'\0'`, and the numbers 0, 5 and 300 (more than a byte).
* `wifi_manager`: `behind` saturates at `MaxBehind` = 20, two failed attempts.
  It changes nothing but the length of the way back.
* `usb_device`: all indices of the table, the one behind it, the next, and 238,
  which Windows asks for; `wIndex` with the reset interface in its low byte,
  alone and with a high byte.

`Cli` and `UsbDevice` check no deadlock since `programming` and `reboot` reset
the device and a bare `toggle` ends it in an uncaught exception, and so do the
reset interface and the lookup of index 7. `NetworkServer` really stops: when
all clients are served, and after the null dereference. `SwitchQueue` and
`Firmware` stop when a task has used a null handle and the assertion has halted
it while the receiver waits.

### Fairness

Every fairness assumption is one of these.

* A ready task runs: fixed priorities, time slicing among equals, two cores, and
  every task blocks in its loop. (`Get(Receiver) \/ Receive`, `InitTask`,
  `SwitchTask`, `Construct("monitor")`, `Sample`, `HandleSteps`, `AcceptAgain`,
  `TaskSteps`, and in `Firmware` the same steps with their accesses:
  `InitSteps`, `SwitchSteps`, `Alone(Construct("monitor"))`.)
* Ticks go on (`Tick`, `Alone(Tick)`), and recv returns within its one second
  timeout, an option that `lwipopts.h` enables and `server.cpp` sets
  (`HandleSteps`).
* The chip comes up and adds its interface (`EnableSta`), and the access point
  answers one of the attempts that never stop (`Connect`). `PowerSwitch`'s
  fairness of `WifiUp` is what `WifiManager` shows as `Released`.
* `accept` does not fail for ever while a connection waits: strong fairness of
  `Accept`, since each failure takes the task out of `accept` for a step. An
  error for ever is the subject of `network_server_restart`.

Nobody has to send a request, connect, or type, and nothing is assumed of
`LinkChanges`: the link may come and go for ever, or stay as it is.

## 4. Proofs

TLAPS checks all of it from no assumption but those the modules state about
their constants: durations are naturals, `QueueLength` is a positive natural,
`NoPress` is no duration, `NULL` is no task, the tasks are different ones,
messages have their fields, the buffer holds more than 12 bytes, the PC is no
user, its texts are of characters with no newline where the number is, `'\0'` is
in no word, the lengths of a file are naturals, the commands are words, and what
`from_chars` makes of a word is a natural.

**PowerSwitch_proofs.** The inductive invariant `IInv` joins `TypeOK` with
`BootInv` (a task exists only once `init_task` has passed the line that creates
it, which is behind the wait for the wifi), `LevelInv` (the output register is
high only between `SetTrue` and `SetFalse`, and no tick is left at `SetFalse`),
`DirInv` (the pin is an input only before the first constructor or inside one)
and `SureInv` (a press begun after `monitor_task`'s constructor has lost no
tick, and the constructor cannot run again). None of the properties is inductive
alone: that the pin comes down with `SetFalse` needs to know that the other task
cannot be about to set it, and that a press is whole needs that the other
constructor is over for good. From it follow `TypeCorrect`, `Released`, `Whole`,
`Output`, `LedAfterWifi`, and `KeepsPromise`: `Spec => ButtonPromise`, where
each action of `PowerSwitch` is matched with an action of `Button` or a stutter.

Nothing of this but the bound of the queue depends on where the requests come
from. So the proof is about `PinNext`, the steps of the tasks with a receive
that may return any duration, and its invariant `PinInv`; `NextIsPinNext` says
that `PowerSwitch` takes no other steps, and `Firmware_proofs` uses the same
lemmas for its own queues.

Every step of `Monitor` is a step of `PowerSwitch` or leaves its variables alone
(`SamplingIsInvisible`), so all of the above carries over
(`MonitoredKeepsPromise`), and so it does with `status` (`StatusIsInvisible`).
`StatusRight` rests on `StatusInv`: once `init_task` has been freed the tasks
are five and stay so (`CreatedInv`, the converse of `BootInv`), and what a calm
status has counted is their number.

**SwitchQueue_proofs.** `IInv` says that as long as no creation was overlapped
the system is in one of these phases: `Fresh` (no handle yet, all loads gave
`NULL`), `AboutToMake(t)`, `Storing(t)` (task `t` is alone in `get()`), or
`Shared` (every task in `get()` or with a result has what `handle` says, one
queue or the null of a failed creation). From it follow `TypeCorrect`,
`SharedHandle` and `OneQueue`, for any number of tasks; `SettledForEver` needs
only the types.

**Firmware_proofs.** `Firmware` implements both modules it is made of. It
implements `SwitchQueue` always (`ImplementsSwitchQueue`), so its invariant
holds here and says which queue a sender or the receiver has in hand while
nothing is raced. With it each step of `Firmware` is matched with one of
`PowerSwitch` or a stutter (`ImplementsPowerSwitch`), and from there with one of
`Button` (`KeepsPromise`), for as long as nothing is raced. What is said about
the pin needs no such condition: every step of `Firmware` is a step of
`PinNext`, whatever queue it is that gives `switch_task` its time (`PinStep`),
so the four promises about button, pin and LED hold behind a race as well
(`PinSafe`). A race can lose a toggle. It cannot leave the button down, cut a
press that begins on a settled device, or touch the LED too early. `WarmBoot`
rests on `WarmInv`: until `switch_task` is created nobody but `cli_task` can be
in `get()`, and once one `get()` has come back the flag is up and nobody creates
any more.

**NetworkServer_proofs.** `IInv` joins the types with `HolderInv` (which of the
four objects holds which descriptor at each call, and that these are all that
are open), `ConnInv` (the one open connection is the one being served; who has
not been served was told nothing) and `ProgressInv` (how many bytes have been
read, what they bound, and what the present client has been told).
`SocketsOwned` follows from `HolderInv`. `ServesAsPromised` matches each call
with a step of `NetworkService`; that a command is acknowledged only to who
asked is `ProgressInv`: at the dispatch all announced bytes have been read, and
none was taken from what the array held before.

What clients get out of this is proved of `NetworkService` and holds of the
server because it implements it: a command acts only for who asked for it in
full and was told so first, a connection is closed only when nothing is owed,
and one is served at a time (`ClientsCanRely`); no command acts twice, and a
connection that is over stays as it was (`CommandsActOnce`).

**BootDisk_proofs.** `IInv` joins `TypesInv`, which has the bounds of every
position and text, with `WriteInv` (a clean writer is the only one, writes what
was last begun, and has left its line behind it so far; after a whole write the
line stands and nobody writes) and `ReadInv` (beside a clean reader nobody
writes; the PC's copy is the block so far; a `get` has made the number of the
digits it has passed). The number of the digits is given case by case for one,
two and three digits, so that no induction is needed. `FileRead` adds the way to
the block, for any texts and any lengths the PC may give the file. Its invariant
`EntryInv` says that the entry followed names the cluster of the image, whatever
its length; `PaddedHolds` that a block of the PC that is the line and zeros
holds the line; and `EntryLength` compares the 16 bytes of the image with the
line for each of the 256 numbers.

**Cli_proofs.** The array keeps what was taken back and, behind the terminator,
whatever was typed there before, so the shown line is not the array. What is
inductive is that it is the array up to `pos` (`EditInv`), so the C string that
`Enter` hands on is the shown line up to its first `'\0'` or, with none, all of
it, as `line[pos]` is set to one (`TextIsTyped`, where the `CHOOSE` for the
first terminator gets its one witness). That there is such a first one would
need an induction over the line, which is out of this prover's reach; instead
`EndInv` carries the place where the text ends along the keystrokes that move
it, and `TextOfLine` joins the two. `RunsShown` follows. `EffectsAnnounced`
needs a second invariant although it is about one step, since a bare `toggle`
throws and leaves buffer and effect as they are: what was done last stays
announced until the next key (`Announced`).

**WifiManager_proofs.** Status and flag are read one after the other, and both
may have changed any number of times when the task acts. `CopyInv` says what its
copy is still good for: between the two reads a copy that says `join` is the
status, unless the status has fallen since. `SleepsWell` follows, with nothing
assumed of how the link behaves.

**UsbDevice_proofs.** A string is filled to its length and nothing beyond it is
sent (`Sent`); a configured device has noted the number of its reset interface
(`ResetNoted`).

Only model-checked: the liveness properties, which are out of this prover's
reach (`SerialItemsAreReceived`, `ToggleIsPressed`, `QueuedRequestIsPressed`,
`PressEnds`, `SenseFollows`, `ConnectionsEnd`, `Released` of `WifiManager`,
`OutagesEnd`, `StaysConnected`, `CatchesUp`). Every invariant and every action
property that a passing run checks is proved.

Only proved: `PinIsSafe` and `UnracedKeepsPromise` of `Firmware`, and `Reliable`
and `NothingIsRepeated` of `NetworkService`. The runs check what they follow
from, and `PinIsSafe` is about states behind a race, which the run cuts off.

## 5. What the properties depend on

| property | fails when |
|---|---|
| `SerialTasksShareOneQueue`, `HandleSettles`, `WarmBootIsNotRaced` | `get()` looks at the handle and not at the flag, so that a failed creation is tried again |
| `SerialGetMakesOneQueue`, `UnracedIsPowerSwitch` | `get()` does not raise the flag |
| `SerialItemsAreReceived` | the item is peeked at and not taken |
| `ReleasedBetweenPresses` | the driver is constructed with the pin on |
| `SettledPressIsWhole` | `monitor_task`'s driver is not static and built for each sample |
| `PinIsOutput` | `gpio_set_dir` is left out |
| `LedNeedsWifi` | `init_task` does not wait |
| `ButtonPromise` | a request overwrites the one that waits |
| `QueuedRequestIsPressed`, `ToggleIsPressed` | `switch_task` is not created |
| `PressEnds` | a delay of no ticks is taken for one without end |
| `SocketsAreOwnedOnce` | `listen`'s socket is not closed on an error |
| `KeepsService` | the end of the stream ends the read successfully |
| `ConnectionsEnd` | recv returns 0 for ever after a FIN |
| `WholeWritesStay` | the terminator is not written |
| `CleanGetIsLastSet` | `strtoul` starts a byte early |
| `CleanHostReadIsLast` | a byte is left out of the copy |
| `FileIsTheLine` | the directory entry has the 4 bytes its comment gives it |
| `RunsWhatIsShown` | the line is not terminated where it ends |
| `EffectsAreAnnounced` | `set_boot` reports nothing |
| `SleepsConnected` | one attempt to connect is made |
| `Released` | the task gives up on a failure |
| `OutagesEnd` | only the driver's status is looked at |
| `StaysConnected` | the status is read once, in front of the loop |
| `CatchesUp` | a round takes longer than the period it waits for |
| `SenseFollows` | the pin is read once, in front of the loop |
| `StatusAfterBootIsRight` | the array has no place for the task that asks |
| `StringsAreAnswered` | the length of the serial number is not set |
| `ResetsAreObeyed` | `reset_open` does not note the number |

The type invariants fail when the null handle, the full queue, the length of the
queue, the size of the request, the width of the selection or the end of the
line is not dealt with, when missed periods are counted down past none, or when
bytes are counted for characters.

## 6. What is left out

* `pc_switch::get` and `toggle`, called by nobody; the NTP client, constructed
  by nobody; the log and what is written to it, as it is in the external gpico
  library.
* What `status` prints besides the interface and the tasks: numbers, and the
  log.
* Writes of the PC to the boot sector and the table, which would make it another
  volume; the inquiry and the other fixed SCSI answers; offsets inside a block,
  as the buffer of `tusb_config.h` is one block; the contents of the USB
  descriptors beyond interfaces and string indices.
* `FreeRTOSConfig.h`, `lwipopts.h`, `tusb_config.h`: constants, of which the
  models take two cores, preemption, time slicing, the receive timeout and the
  size of the USB buffer.
* How long ago `pc_state` was sampled: the model has no common clock. Nor does
  any document bound it.
* lwIP, cyw43, TinyUSB and FreeRTOS themselves: they appear as what their calls
  may return.

## 7. Plan

The modules were ordered so that the button, which is what the device is for,
came first: `SwitchQueue`, `Button`, `PowerSwitch`, `Monitor` and their proofs,
then what can reach it from outside (`NetworkServer`, `Cli`), then the other
shared state (`BootDisk`), the task everything waits for (`WifiManager`) and
`UsbDevice`. On these stand the compositions and the abstract specifications:
`Firmware`, `Status`, `BootFile` and `NetworkService`, and the proofs of every
component.

What could follow:

1. The whole firmware with `NetworkServer` and `Cli` as the senders of
   `Firmware`, which takes their `effect` for the request. The interfaces are
   one action each, so the composition would add states and few questions.
2. Block offsets in `BootDisk`, if the USB buffer should ever be smaller than a
   block.
