# FodderFactory in TLA+

FodderFactory is a controller for hydroponic sheds. An Arduino runs a list of
configured *blocks* (sensors, monitors, schedules, rules, controllers, relays); a
Python broker on a PC talks to it over a serial line. This directory models the part
of the program that decides and acts, the configuration it runs, the file system on
the SD card and the file transfer of the tree's ZMODEM sketch, checks the models with
TLC on small instances, and proves with TLAPS what matters most for every instance.

Paths below are relative to the repository; line numbers are in `PROJECT.json`
(`map`), definition by definition.

## The system

| Part | Source | State it keeps | Operations |
|---|---|---|---|
| Block operation | `src/inputs.cpp`, `monitors.cpp`, `rules.cpp`, `controllers.cpp`, `outputs.cpp` | per block: `active`, `status`, `f_val`, `bool_val`, the pending `command` of an output; the pins | `…Setup`, `…Operate` per category |
| Life cycle, main loop | `src/registry.cpp`, `validate.cpp`, `ff_arduino/ff_arduino.ino` | `status` of each block, the place in the list | load, `RegInitValidateAll`, `RegInitSetupAll`, `Operate` pass after pass, console commands in between |
| Schedules | `src/schedules.cpp` | `active`; settings days, start, end, duration, repeat | `ScheduleSetup`, `ScheduleOperate` |
| Clock | `src/HAL.cpp` | `base_real_time`, `previous_millis`, the RTC and the timer | `TimeNow`, `HALInitRTC`, `HALSetRTCTime/Date` |
| Configuration | `src/init_config.cpp` | the text file, line by line; the settings of every node | `ConfigParse`, `InitConfigSave`, `InitConfigLoad`, console edits |
| Registry | `src/registry.cpp` | `bll`, `ill` (block and interface lists), `block_count`, ids, labels | add, look up by id and by label, delete, clear, admin enable and disable |
| Temperature sensors | `src/interfaces.cpp` | address and conversion flag of each interface; the state of the bus | scan and match, set up, read |
| Broker | `ff_broker/ff_broker.py` | queues, the adaptor's mode, tries | interface and adaptor threads, `activateItch`, `processConfigCommands`, the system's command loop |
| SD card library | `arduino.priv/libraries/SD`: `SD.cpp`, `File.cpp`, `utility/SdFile.cpp`, `utility/SdVolume.cpp` | one cached block, the place of the last allocation, the handles of open files; the card | open, write, read, seek, flush, close; exists, mkdir, remove, rmdir |
| File transfer | `zmodem/` | on each side the place in the protocol, in the file and the tries left; the files stored | `SZ` (`wcs`, `zsendfdata`, `getinsync`, `saybibi`), `RZ` (`tryz`, `rzfile`, `ackbibi`) |
| Events | `src/events.cpp` | a ring buffer no one fills | `EventMsg` prints |

How they interact. The main loop calls `Operate`, which visits the list in order;
a block reads others through the registry by id (`IsActive`, `GetFVal`,
`GetBVal`), a controller writes the command slot of an output (`SetCommand`), an
output writes a pin. Schedules and inputs ask `TimeNow`. After a pass the serial
console is polled, and its handler may change the status of blocks, override an
output, delete a block, load or save the configuration. The Arduino has one
thread: nothing runs between the statements of a visit or of a handler. The
broker is multi-threaded and reaches the controller only through the serial line.
The SD library is called from one thread as well; what interrupts it is the power.
The file transfer is a sketch of its own: two boards, each with one program, and a
line between them.

What is hard in it, and what makes each part correct:

* **Block operation**: controllers and outputs act on *changes* only, so one lost
  or misordered change is never repaired; references may point forward, backward
  or at deleted blocks. Correct when every decision of a pass agrees with the
  blocks it rests on, and a pin with the command and the rule behind it.
* **Life cycle**: nine statuses, changed in a dozen places. Correct when a block
  is enabled only through validation and set up, and a disabled one neither
  decides nor acts.
* **Schedules**: a schedule exists only at the moments it is visited; midnight,
  the end of a window and unsigned arithmetic bite. Correct when windows are
  kept, one-shots fire once, repetitions are neither skipped nor merged.
* **Clock**: a timer that wraps and drifts, a clock that lies. Correct when
  answers stay within the drift of the truth, do not run backwards, and garbage
  does no lasting harm.
* **Configuration**: files and the console name blocks by label, blocks refer to
  each other by id; a save empties the file before it writes it; lines are refused half
  way; a load runs over whatever is in memory. Correct when what boots after a completed
  save is what was saved, and when no file, however cut short, boots into an enabled
  block with a reference that leads nowhere.
* **Registry**: ids are handed out by a counter that deletions do not turn back.
  Correct when no id is given to two nodes and none comes to mean another block while
  a setting still holds it.
* **Sensors**: inputs share a bus and a conversion. Correct when every reading
  belongs to a conversion that was complete.
* **Broker**: two threads set the adaptor's mode; answers carry no identity.
  Correct when each command is confirmed by its own answer and every wait ends.
* **SD card**: everything shares one cached block, some blocks go past it straight
  to the card, tables are written twice, and a call is many writes. Correct when a file
  reads back what was written to it, no cluster belongs to two files or to none, and a
  closed file survives whatever happens to the others.
* **File transfer**: what was sent before a complaint arrives after it, and
  both sides give up waiting by the clock. Correct when what is stored is the file, what
  is reported as sent is stored, and both programs end.

## Modules

| Module | What it is |
|---|---|
| `ControlLoop` | blocks of every category, the main loop, the console's commands on blocks |
| `ControlLoopProofs` | its theorems |
| `Schedule`, `ScheduleProofs` | one schedule under arbitrary visits and restarts |
| `TimeKeeper`, `TimeKeeperProofs` | `TimeNow` against a drifting timer and an unreliable RTC |
| `Broker`, `BrokerProofs` | the broker's threads and queues against a controller at the other end of the line |
| `DS1820B`, `DS1820BProofs` | temperature sensors that share a one-wire bus, and the inputs that read them |
| `ConfigStore` | the abstract store: what saving a configuration promises |
| `InitConfig`, `InitConfigProofs` | the two lists, CONFIG lines, the file, save, load, boot and the console's changes, with the power failing at any moment; implements `ConfigStore` |
| `ConfigStoreProofs` | that it does: the theorems on saving, booting and loading over |
| `FileStore` | the abstract store: what a file system with one writer promises, power losses included |
| `SdVolume`, `SdFile`, `SD` | the block cache, the tables and the clusters; files and directories; the program's calls, the card and the power. Each extends the one before; `SD` implements `FileStore` |
| `FileTransfer` | what sending files over a line promises |
| `Zmodem`, `ZmodemProofs` | the sender, the receiver and the line between them; implements `FileTransfer` |
| `MC…` | instances for TLC |

Definitions named as a *defective variant* are used by nothing in the
specification: each is a mapped definition with a plausible mistake, and a
property is worth stating if it tells the two apart.

### ControlLoop

`conf`, `status`, `active`, `fVal`, `bVal`, `command` are the fields of `BlockNode`;
`present` says which blocks are on the list; `pin` is what `HALDigitalWrite` last
wrote; `touched` stands for the four fields that only `Validate` looks at
(`last_polled`, `last_logged`, `int_val` and so on), of which all that matters is
whether they left their initial value. `phase` and `cur` are the program counter
of `main` and of the loop in `Operate`. `writer` is auxiliary.

One action is one visit of one block (`Operate`, or `PassOver` for a block that is
disabled or gone), or one console command with every call it makes. `RegInitSetup`,
`RegInitValidate` and `RegInitDisable` take one block or all of them, as the `…BID`
and `…All` functions do. Boot is two actions, since the console is not polled
between them. The enumerated settings cover every branch of the five `…Operate`
functions; `IN_VEDIRECT` is a type of the generated header the Arduino build
includes. `Validate` is the Arduino's: a failed assertion is a status, not an
`abort`.

Abstracted: time (whether an input is due and what a schedule asks for are
choices, and `Schedule` says which choices are possible), the sensor (any value or
a failure), interfaces (an input has one or has none), messages and logs. The
fields of the settings union that a type does not use keep a neutral value. The
console may be polled twice before the next pass, which the code does only as
often as the port has a line: one behaviour more, none less.

### Schedule

State: the settings, the day of the week and second of the day of the last visit,
`active`. `ScheduleOperate` lets at most `MaxLag` seconds go by and does what the
function does at the new time; `ScheduleSetup` is a restart, or an enable after any
time of being disabled. `early` and `pulses` are auxiliary: has it been running
since before today's start, and how often it came on since.

The three tests of a contained window are kept with their gap (`now == end`), the
order of the tests of a crossing window (today after yesterday) too, and the
unsigned `secs_today_now - sched_start` is computed modulo `WORD`. The source adds
the midnight of today to both sides of each comparison; the model leaves it out
on both sides.

### TimeKeeper

`clock` is the RTC's true time in milliseconds, `millis` the timer,
`previous_millis` and `base_real_time` the statics of `HAL.cpp`. One action is the
time between two calls of `TimeNow` and the second call: `gap` milliseconds on the
timer, `t` in truth, with `|gap - t| <= gap / DRIFT`. When the interval is over, the
RTC answers its true second or any member of `Garbage` that is wrong by more than
`SLACK`. `HALInitRTC` is a restart: the RTC's answer, right or wrong, is taken as it
is, or none is. `RegSetTime` and `RegSetDate` are the operator's commands: the one
moves the RTC within its day, the other by whole days, both under `TimeNow`'s feet.
`DAY` is the number of seconds in a day.

The assumption `WordAssumption` (an interval and a gap fit in the word) says that
`TimeNow` is called more often than every 49 days.

### Broker

`mainBus`, `brokerToInterfaceQ`, `txQ`, `rxQ` are the queues the threads share,
`command` the adaptor's mode; `apc` and `spc` are the program counters of the adaptor
and of `System.run`. One action is what a thread does between two accesses to shared
state: `Relay` and `SendInLinemode` are the two halves of a round of line mode,
`QueueEscape` and `SendEscape` those of `activateItch`, since another thread may
append to a queue in between. `System.run` puts `L` commands on the bus, numbered in
order; the wake-up line of `Broker.run` is -1 and the escape sequence 0, so the line
at place `i` is `i - 2`.

The controller is external. It takes lines in order, answers each command and the
escape sequence with OK or ERROR, and writes event messages in between; an answer to a
command may be lost. `Answer.to`, `owed`, `credited` and `alone` are auxiliary: they
say which line an answer is about, which the broker cannot know.

Left out: sleeps, except that the 20 seconds before `System.run` asks for ITCH are
enough to send the wake-up line (the guard of `AskForItch`), and that the five seconds
of `timeout` may or may not be over at a look at the clock, except at the first one,
which comes right after it is started; the interface's prompts without a line end
(`hanging_prompts` is off); the bytes of a line, and the interface thread's end when
they do not decode.

### DS1820B

`in_progress` and `status` are fields of the interface, `wait` the ticks until an
input's `last_logged + log_rate`; `cur` is the place in the main loop. One action is
one visit (`InputOperate` with the call of `InterfaceDS1820B_Read`) or one console
command. `taken` and `disturbed` are auxiliary.

The bus is external: the tree's copy of the DallasTemperature library is an older one
than the code is written for. What the model takes from its documented protocol: a
sensor told to convert answers the read slots of the bus until the next reset, a bus
on which nobody answers reads as done, every scratchpad access and every search
resets, and a scratchpad keeps its reading until the next is complete. A sensor that
is there reads a temperature within the limits of `InterfaceDS1820B_Read`, except the
85 degrees after power on. `RegIFOneWireScan` and `RegIFOneWireAssignBID` are the
console's scan and assignment; `RegIFDS1820BTest`, which reads over and over in a
loop, is left out. An interface is identified with the sensor assigned to it;
assigning a sensor to an interface without one is left out. `LastTime` puts
`last_logged` back to the start of a period of the day, so the next one is due after 1
to `LOG` ticks. A scan of several sensors takes longer than `CONV`: the ticks that
follow it.

### InitConfig

`bll` and `ill` are the linked lists as sequences (a new node goes to the end), with
`block_count` the counter that ids are made from: `BLOCK_ID_BASE` plus the count,
except for the system block, which is always 500. A node has its id, category,
label, type, status and settings; all keys are there and those of other categories
are never read. `file` is the text file as a sequence of lines; `mode` and `pos` say
what runs to completion (a boot, a save, a load from the console) and how far it has
come. `saved` is auxiliary, `edits` and `losses` count towards the bounds.

* *Lines.* `ConfigureBlock`, `ConfigureInterface` and `Configured` are the parser: a
  label that is not found is added first and stays when its setting is refused; a
  refused setting has already overwritten the old value; a reference to an unknown
  label becomes `M_FF_ERROR`, which is 0.
* *Save.* All nodes are written twice, first the lines that register them and then
  all their settings, one node per `SaveNode`. `PutBlock` follows the writer key by
  key, with the conditions under which it leaves one out, among them the one that
  tests `input2` for `input4`.
* *Load and boot.* `LoadLine` is one line of the file, `BootDone` the rest of
  `setup`: `Validated` and then `SetUp` for every node. A load from the console does
  neither.
* *Console.* Every change of the lists: a line, deletion by id and by label, clear,
  the administrative status of a block and of an interface (the source writes
  through a null pointer: nothing happens or the program dies), and the sensor
  exchange. `RegSystemReboot` restarts the program (`HALReboot`).
* *Power.* `PowerLoss` is possible in every state, also between two lines of a boot
  and two nodes of a save; `Remains` is what it may leave of an open file, any
  number of whole lines and perhaps one more cut short.

Texts are abstracted to what their parser tells apart: a label, the name of a type,
`"set"` (a usable value), `"24:00:00"` (parses, but is no time of day), `"unset"`,
`"garbage"` and none at all. A number in a setting stands for a class, too: `SET` is
any usable value, so `Validate`'s comparisons of thresholds and its range tests come
down to "set"; keys without effect on anything (the description, the display name, the
data type, a flag of `IF_WIFI` that nothing reads) are left out. All fifteen types of
interface are there, and `IFKeys` says which settings each takes: only
`IF_ONEWIRE_BUS` and `IF_DS1820B` take any. A value cut short stays usable unless the
instance says what it becomes (`Shorter`); no name of a type, cut short, is the name
of a type of interface (`ShorterAssumption`, as the table of names has it). Two things
are assumed of the operator (`CategoryAssumption`): a label is used for one category
only, and an interface keeps its type. No label is one of the two texts that stand for
a reference to nothing (`LabelAssumption`).

`ConfigStore` says what saving is for: what boots after a completed save is what was
running when it completed, and of a boot from a torn store nothing is promised.
`InitConfig` implements it with `running` the `View` of the lists (labels, types and
settings, references by label; no ids and no status) and `store` the `View` of the
last save. Not every configuration survives, and `Storable` says which do: every
type known, every reference of a kind the writer always writes set and leading to a
node, no schedule without a day, no 24:00:00, the week's start known, an input's
interface set, `input2` and `input4` both set or both not, a schedule's times set,
and no label used both by a block and by an interface. They follow the writer and
the parser: what is left out, garbled or refused on the way comes back as something
else.

### SdVolume, SdFile, SD

The library of the tree's copy of Arduino. The controller uses it when it is built
with `OLD_SD` (the event buffer's file); the build as it stands takes another library
for its configuration file, `InitConfig` therefore has its own, coarser file.

`SdVolume` and `SdFile` have no actions: each of their operators is a function of the
library, from the machine state before a call to the one after it, failed calls with
the changes they made. `cache` is the static state of `SdVolume`: which block is
cached, its contents, whether it is dirty and where its copy goes (the second table),
and the hint where to look for a free cluster. `SD` has one action per call of the
program. A call runs to its end, and the blocks it wrote are in `writes`, in order;
they reach the card one at a time (`CardWrite`), no other call begins before they
have, and `PowerLoss` may come between any two. That the writes come after the call's
own reads changes nothing: a call finds the blocks it has written itself.

`live` is what the program finds at each path, `prev` what it found before the running
call, `stored` what it would find after a power loss. They are computed from the blocks
and are the refinement mapping to `FileStore`, which says: `live` changes as the call
says (one file created, emptied, written over from a place on, cut, removed), and
`stored` follows, one path at a time; on the way a file may mix, unit by unit, what it
had with what the program sees, and is torn at most while it loses clusters.

Data: a unit stands for what is read and written at once; a block is `BlockUnits` of
them, a directory entry and an entry of the table are one unit each. What the program
is assumed to do (`MayUse`, `Sound`): it opens no path twice; it names a path under a
name only if that name is not a file's (`SD.mkdir` of an existing file returns true, and
a file opened "inside" an empty file becomes part of it); it opens no directory as a
file; it does not go on with a card on which a file is torn, and not with a handle that
a failed write left past the end of its file. Left out: `O_APPEND`, `O_SYNC`,
`createContiguous`, `ls`, `rmRfStar`, timestamps and their callback, FAT32 roots (the
root directory is the fixed one of FAT16), and the SPI protocol of `Sd2Card`, which is
the card that `WriteBlock` and `ReadBlock` assume: a block is written whole or not at
all, and only a block number out of range fails.

### Zmodem

`SZ` on one board against `RZ` on the other. A header or a data subpacket is one token
of the line; `toRx` and `toTx` are the tokens under way. `spc` and `rpc` are where the
two programs wait or act next, named for the place in the code; one action is what a
program does from one read of the line to the next. `zgethdr` and `zrdata` are
operators: what a read returns, given what is on the line, and what it leaves there.
`sent` is what `wcs` returned for each file, `received` what `wcreceive` did, `stored`
the files on the receiving card; with them `Zmodem` implements `FileTransfer`.

The line (`Garble`) loses a header, garbles a header or a subpacket, with or without
its end, `Faults` times. A time-out happens when the other side is itself waiting or
has ended and nothing is on its way; while something is to come it costs a fault. What
is assumed: the checks (CRC) notice everything garbled; a subpacket does not vanish
without a trace; a file of that name that the receiver already has is the beginning of
the one that is sent or longer than it (`FilesAssumption`: the receiver appends, and
nothing in the protocol as these two speak it compares what is there); what is said to
a program that has ended does not matter (the sketch's command loop may read it).
Neither program sends ZSINIT, ZCOMMAND, ZFREECNT, ZCRC, ZSKIP, ZABORT or ZCRCQ, and
the branches for them are left out. Whether a subpacket asks for an answer depends in
the code on junk on the line, block length and window: a free choice. The fall back to
XMODEM ends the model (`rpc = "xmodem"`).

## Runs

| Run | Shows |
|---|---|
| `control_loop` | six networks of six blocks, every history of sensors and schedules, up to two console commands: the seven safety properties, and that a rule that comes on reaches the pin, in whatever order the list is |
| `schedule` | 48 settings, every sequence of visits and restarts |
| `schedule_midnight` | finding 1 below |
| `clock` | every interleaving of calls, drift, garbage, wraps, one restart or setting of the time or of the date |
| `clock_garbage` | finding 2 |
| `broker` | every interleaving of the four threads and the controller, with event messages and a lost answer |
| `sensors` | three sensors on one bus and their inputs; a sensor may come off at any moment, and one console command is given |
| `config` | three files booted, changed from the console, saved, loaded over themselves and booted again, with the power failing at any moment: ids, references, and that `InitConfig` implements `ConfigStore` |
| `config_disable` | finding 3 |
| `sd_files` | two files opened, written over, cut, sought in and removed, on a card that fills up: what is read is what was written (`ReadBack`), every cluster taken is in a file (`NoLeak`), and the card is a file store (`Refines`) |
| `sd_dirs` | two handles, clusters of two blocks, a directory with a file in it, and a power loss between any two blocks of any call: files share no cluster, a listing is complete, a closed file survives (`ClosedIsStored`) |
| `zmodem` | two files, three kinds of receiving card, two faults of the line: what is stored and reported is right (`Refines`), and both programs end (`Termination`) |

**Bounds.** `N = 6` is the shortest list that holds a whole chain (input, monitor,
schedule, rule, controller, output); the networks are chosen so that references go
forward (`Backwards`), two controllers share an output (`Shared`), two outputs share a
pin (`OnePin`) and validation, set up and look-ups fail (`Odd`). Two console commands
(`MaxCmds`) are enough for each pair whose order matters: disable and set up, override
and disable, delete and set up. Two temperatures, one on each side of the thresholds.
A day has 16 seconds and a word 256, which is no multiple of the repeats used, like
2^32 and 70 s; `MaxLag = 3 = ONE_SHOT_DURATION + 1` is the largest lag at which a
one-shot is still seen. The clock has seconds of 4 ms, an interval of 4 s and a timer
that wraps every 8 s, so that 16 s (`Horizon`) hold several polls on both sides of a
wrap; `SLACK` is two seconds. `MaxSets` counts restarts and settings, and a day has
five seconds, so that setting the time and setting the date are different jumps. For
the broker, three commands are the fewest that can be swapped and leave one behind,
two tries (for 100) let event messages use them up while a command is awaited, and one
lost answer is enough to let a late one arrive. For the sensors, three on a bus let
one disturb a second while a third answers; two ticks for a conversion tell one under
way from one just begun; the inputs are due as often as that, so that conversions
overlap as much as they can. For the configuration, the three files have every
category, an interface that takes no settings and a line that is refused, and the
eight console lines are chosen one for each way a value can go wrong (a reference
changed, refused, to a block of the wrong kind; a time and a day that the file cannot
hold; a new block). One change from the console and one loss of power: saves, loads
and restarts are not bounded, so a change is saved, lost or kept in every possible
way, and a file torn by the one loss is booted, saved and booted again. `MaxNodes` is
never reached at these bounds. For the card, two clusters are the fewest that two
files can compete for, and enough to run out of; two units to a block make half a
block the smallest write, and with two blocks to a cluster (`sd_dirs`) a write of
three units crosses from block to block every time and from cluster to cluster the
second time. `sd_files` has all the seeks and two kinds of data, which tell old from
new; `sd_dirs` has the second handle and one loss of power: the card it leaves is used
on, as long as no file is torn. Data, names of files in one directory, and handles are
symmetric where they are permuted (no action tells them apart, and only safety
properties are checked there). For the transfer, subpackets of two units make one file
two subpackets, the second of them short, and the other a single short one; two and
three tries (for 15 and 20) are used up by two faults with an answer to spare, and two
faults are enough to garble a subpacket and then the complaint about it (three faults
were checked too, and take longer than they show). `Horizon` ends time, hence no
deadlock check there; the broker's `System.run` ends by sleeping or by giving up, and
none there either; both programs of `Zmodem` end; and a card that is full or torn,
with all sizes at their bound, may leave nothing to do. In the others a deadlock would
be reported.

**Fairness.** `FairSpec` is `WF_vars(MainLoop)`: `main` calls `setup` and then `loop`
for ever, and no step of it waits. The console is not fair: the operator need not
type. In `Broker` each thread is weakly fair (none waits for a lock, and the
interpreter switches between them), and the controller goes on reading lines; it need
not say anything, and what it says may be lost. In `DS1820B` the main loop is weakly
fair and so is time (`Tick`); nobody need plug a sensor in again. In `Zmodem` each
program is weakly fair and the line is not: it need do nothing wrong, and may. Every
wait of a program has a time-out, which is what makes its next step possible again.
Safety properties are checked and proved without fairness.

## What the runs found

1. **A window that ends with the day never closes** (`schedule_midnight`).
   `ScheduleOperate` asks for "off" only at a visit with `end < now` on a day that is
   one of the schedule's. If `end` is 23:59:59, or the last visit of the day falls on
   `end` or before it, no such visit exists: on the next day, unless it too is one
   of its days, nothing is asked for, and the block stays on until it is.
   The grammar's description promises events "configured for specific days of the
   week or ALL and with a resolution down to 1 sec".
2. **The sanity check of the RTC mixes units** (`clock_garbage`). A difference in
   seconds is compared with `RTC_POLL_INTERVAL + 5000` milliseconds: a report up to a
   week ahead is accepted, and then the right ones are refused.
3. **A disabled block comes back enabled** (`config_disable`). The writer saves the
   status of a block that the operator disabled "so that it persists between
   reboots", and the load restores it; but the boot goes on with `Validate`, which
   puts every block in `STATUS_DISABLED_INIT`, and `Setup` enables it.

Seen while modelling, without a run of their own: nothing in the tree states the
opposite in so many words, or the case is left out by an assumption above.

* Schedules: before its start a repeating schedule runs at a phase of `2^32 mod
  repeat`, because the unsigned difference wraps.
* Broker: the tries of `processConfigCommands` are counted down by lines that arrive,
  and the time-out is looked at only when they are used up. One lost answer on a
  silent line, and the wait does not end; the commands after it are never sent.
* Sensors: `isConversionComplete` asks the bus, not the sensor. A request to a sensor
  that is gone, a search, or the loss of the sensor that answered leaves the bus
  silent while another sensor converts: its reading from before is returned as new.
* SD library: a write of a whole block that happens to be the cached one forgets which
  block is cached but leaves it dirty. The next flush then writes to block 0xFFFFFFFF
  and fails, and so does every later call that needs another block. It takes a part of
  a block, a seek back to its start and a whole block: `write` has the branch, but
  `sd_files` seeks and writes less than a block, and `sd_dirs` writes whole blocks and
  does not seek (with `Seeks = TRUE`, `ListingComplete` fails). `SD.mkdir` over a file
  returns true; a truncation interrupted by the power leaves an entry whose chain is
  gone, and `remove` fails on it; on a full card clusters are linked to a file of size
  zero, and removing it frees none; a failed write leaves the position past the end of
  the file.
* File transfer: a file that the receiver cannot open is to be skipped, but `tryz` sets
  the header it answers with to `ZRINIT` before it sends it, so the sender offers the
  same file for ever (`Termination` excepts this); a short write to the receiving card
  counts as success; the macro `zsendline` does not escape a carriage return after "@",
  as the function it replaces does.

The properties that pass leave the cases above out by name: `KeepsItsWindow` asks for
room after the end (`EndSeen`), `EveryRepetitionServed` speaks of the time from the
start on, `TracksRTC` of answers that go back to a true report, `EveryCommandSent` of
lines that lose no answer. `AckIsOwn` speaks of commands sent when no answer is owed:
commands that go out while the adaptor is still in line mode are not waited for, so
their answers may be taken for those of the next ones. `ReadingIsOwn` allows the
silent bus described above and no other case. `DueIsServed` speaks of wirings in which
no two inputs share an interface: of two that do, one asks again as soon as the other
has taken a reading, the bus is never found done in between, and an input of another
sensor waits for ever. The status of a block is no part of what `ConfigStore` promises
to bring back. `NoLeak` leaves out the card that once was full and the one that lost
power, `Termination` the file that cannot be opened.

## What is proved

For every value of the constants that satisfies the named assumptions
(`tlapm <module>Proofs.tla`):

* `ControlLoopProofs`. `TypeCorrect`. `PinAgrees`: `PinMatchesActive` is inductive
  with the type invariant, since `OutputOperate` and `OutputSetup` change flag and
  pin together and an exclusive pin has no other writer. `CommandMatches`: the
  property speaks of blocks on the list only and is not inductive; `WriterInv`
  extends it to all blocks and says that a writer is a controller wired to the
  output. `PassesSettle`: inductive with "`cur = 1` outside a pass"; the work is
  that a visit of a later block disturbs nothing an earlier, settled block looks at
  (`SettledBefore`), and settles its own (`SettledAtVisit`). `DecisionsReachPins`
  follows from the last three. `EnabledBySetup` rests on `PassiveInv` (the block
  types without a flag never set it); `DisabledFrozen` on the frame of a visit
  (`OperateFrame`) and on exclusive pins.
* `ScheduleProofs`. `ScheduleTypeCorrect`; `WindowKept`, inductive as it stands: one
  lemma per kind of window for a visit; `OneShotFires`, from `OneShotInv`, which
  adds that the flag is up exactly from the start to the last second of the pulse
  and that a pulse was counted if the start was seen. `RepetitionsServed`:
  `RepeatInv` adds that before the start nothing is counted and that from then on the
  flag is up exactly in the pulse of the current repetition, so a visit in the next
  one finds it down; what is left is arithmetic of quotients (`DivisionStep`).
* `TimeKeeperProofs`. `TimeTypeCorrect`, `TimeTracksRTC`, `TimeHonestAccepted`,
  `TimeMonotone`, from one inductive invariant: the last answer is the base plus the
  elapsed timer seconds (`Answered`), and, if trusted, base plus elapsed differs from
  the truth by the drift of `timed` and the dropped fractions, one per refusal
  (`Known`). The modular
  facts (a wrapped difference grows by the gap while less than a word goes by) are
  lemmas of their own. That a true report is accepted follows from `Known` before the
  report: the difference `TimeNow` looks at is the drift and the fractions.
* `BrokerProofs`. `BrokerTypeCorrect`. `BrokerKeepsOrder`: `Ordered` says that all
  lines there are, from those received to those on the bus, are in order and as many
  as were put in; a hand-over leaves the concatenation as it is (`Handover`), and
  the two actions that add a line add the next one, which needs `Control`: where the
  threads can be at the same time (no command is on the bus before ITCH has
  answered). `BrokerAckIsOwn`: every line under way and every answer on its way back
  is owed (`Owing`), no two answers are about the same line (`Distinct`), and lines
  under way come after those answered (`Positions`, from `Ordered`); so if nothing
  was owed, the first answer is the command's.
* `DS1820BProofs`. `DallasTypeCorrect`. `DallasReadingIsOwn`, for any number of
  buses and any wiring (shared interfaces too): who waits for a reading has it
  (`Finished`), or the sensor that answers on the bus has no less time to go
  (`Covered`), since the last one asked takes longest; so if the bus is done,
  everybody on it is. That who answers is on the bus (`Answers`) keeps a loss on one
  bus from mattering on another.
* `InitConfigProofs`, for any files, console lines and labels. Every step either
  forgets both lists or leaves each a selection of what it was with one node more at
  most (`ListStep`), and puts in settings only plain values and ids of nodes that
  are there (`SettingsStep`); `EveryStep` proves it, action by action.
  `InitConfigTypeCorrect` adds that what a save writes and what a loss leaves are
  lines. `InitConfigIds`: `IdsApart` says `IdsInv` of the two lists one by one.
  `InitConfigBootRefs`: while a boot loads, every value in a setting is plain or the
  id of a node (`BootInv`), since lines only add nodes; a plain value is no id to
  `Validate`. `InitConfigTargets`: no setting holds an id that is still to be handed
  out (`RefsBounded`), so what is added takes the place of nothing.
* `ConfigStoreProofs`, for the same. `InitConfigStores`: `InitConfig` implements
  `ConfigStore`, whatever is entered and whenever the power fails. The proof follows a
  face (what a file can say of a node) from the list to the file and back, and needs no
  induction over the file, since `pos` counts what has been done of it.
  - `Registry` and `FileInv`: no label is borne by two nodes of a list, an interface has
    one of the types the operator gives it and only settings that type takes, and no
    line that a save writes, or a loss cuts short, says otherwise.
  - `SaveInv`, for a view that is `Storable`: of the file so far, the first lines
    register the faces in order; every face that has had its second turn has each of
    its settings in a line or as a new node has it; and every line has no value or
    fits a face (`FaceWritten` is the writer, key by key: `PutLines`).
  - `StoredInv`: from then on all that is true of what was saved, until the next save
    begins. `Keepable` adds what a load needs: labels borne once, and every reference
    a label that is found, and found as the block that was meant (system blocks share
    an id).
  - `LoadInv`: a boot that has read `pos` lines has the first faces on the lists, with
    the settings those lines tell and otherwise those of a new node. The lines that
    register come first (`LoadRegisters`), so each reference finds its node when it is
    told (`LoadTells`, from `LineTells`). At the end of the file the view is what was
    saved (`BootShows`), and neither `Validate` nor `Setup` changes a face.

  `InitConfigReloads`: a line that fits a face that is already there leaves the view
  as it is (`ReloadStays`, again from `LineTells`). Both hold of loads that stay within
  `MaxNodes` (a load that would go beyond it stops in the model), and use that `Down`
  and `Torn` are no configurations (`StoreAssumption`).
* `ZmodemProofs`, for any files, cards, tries and number of faults.
  `ZmodemTypeCorrect`, and `TransferImplements`: every step of the two programs and of
  the line is a step of `FileTransfer` or changes nothing of it. Data that was sent
  before the last ZRPOS may still arrive after it, so the invariant (`Inv`) is mostly
  about what is on the line. Towards the sender (`Answers`): while it offers a file, no
  ZRINIT is behind a ZRPOS, and no ZRPOS is there at all while the receiver still waits
  for the offer; while it sends one, no ZRPOS is behind a ZRINIT, and a ZRINIT means
  that the file is stored. Towards the receiver (`LineInv`): first what is left of
  earlier files, without an offer, then offers of this file, then its stream. In the
  stream every token has a place in the file (`Placed`): a ZDATA names it, a subpacket
  that promises more moves it by its units, and what the sender says next belongs at
  `Txpos`. So what is stored comes next in the file (`PlaceInv`), and what is not being
  received is whole or untouched (`ReportInv`). A header that is lost leaves the places
  as they are, and after a garbled subpacket anything may follow (`GarbleInv`).

The provers check the models; that the models are the program is by the map and by
reading.

Only model-checked: `RuleReachesPin`, `EveryCommandSent`, `DueIsServed` and
`Termination` (liveness is out of this prover's reach); all properties of `SD` (chains,
paths and lists of blocks are walked by RECURSIVE operators, which keep the prover's
back end out of the module).

## Not modelled

* Text and paper: message texts, logs, the SHOW commands, the LCD and its state
  register, the tables of names. They print what the modelled state holds and change
  none of it.
* The VE.Direct serial text, which an input copies into the event log without
  keeping a value; the event ring buffer, which has no live caller (the call that
  fills it is commented out).
* The display names and descriptions and their update commands, which the build leaves
  out (`EXCLUDE_DISPLAYNAME`, `EXCLUDE_DESCRIPTION`).
* The binary configuration and the INI reader: formats that the boot no longer uses.
* Of the transfer: the bytes of headers and subpackets with their escapes and checks,
  XMODEM and YMODEM, and the sketch's own file commands.
* The rest of `arduino.priv` and the scratch projects: third-party drivers, examples and
  experiments.
* The command grammar: its interpreter is a submodule that is not in the tree.
  Callers of the console's handlers are taken from `registry.cpp` and the grammar's
  actions.
* The Linux clock (`time(NULL)`) and the compile-time `SET_RTC`.
* What the bytes of one kind of settings mean when read as another (an interface that
  is given another type).
* Two components in one state space: a schedule does not see the clock step (the
  jumps that `TimeKeeper` allows at an accepted report are covered in `Schedule`
  only up to `MaxLag`), and `ControlLoop` starts from a configuration that
  `InitConfig` could have set up rather than from a file. `InitConfig` has a file of
  lines of its own and does not run on `SD`, whose calls its build does not use.

## Plan

1. `SD` with recursive functions in place of its RECURSIVE operators. What a walk over a
   chain returns is induction over data, out of the prover's reach, so at most the steps
   that take no walk gain theorems.
2. An abstract bus with one outstanding request per sensor, implemented by an
   undisturbed `DS1820B`; an abstract channel (a sequence of commands and their
   confirmations) implemented by a `Broker` that loses no answer.
3. YMODEM, to which the receiver falls back (`wcrxpn`, `wcrx`, `wcgetsec`), with an end
   of file that is one byte and may be garbled data; the codec of a ZMODEM line.
