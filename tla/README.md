# Verification of the iPad Air 2 (J81) NixOS port

TLA+ models of the parts of this repository that keep state, run concurrently or
have to survive failures; the TLC runs that check them on small instances; and
proofs, checked by TLAPS, that hold for every value of the constants.  Paths
below are relative to the repository's root.

- [1. The system](#1-the-system): inventory of the components
- [2. The modules](#2-the-modules): what models what
- [3. The runs](#3-the-runs): questions, bounds, results
- [4. Fairness](#4-fairness)
- [5. The proofs](#5-the-proofs)
- [6. Findings](#6-findings)
- [7. What is left out](#7-what-is-left-out)
- [8. Plan](#8-plan)
- [9. Running it](#9-running-it)

## 1. The system

The repository boots NixOS on an iPad Air 2 (Apple T7001).  It is a Linux kernel
plus about 120 patches (`kernel/patches/`), a host-side loader and console
(`boot/*.py`), small services that run on the tablet (`boot/*.sh`), guarded
hardware experiments (`boot/gpu-*`), and a large body of notes and analysis
tools.  What talks to what:

```
  operator -- ipad_console.py --telnet--> tablet shell -- i2c --> D2207 charger registers
                                                                    ^        ^
  charging-policy.sh -- sysfs --> power_supply --> charger driver --+        |
        |   reads                     |  VBUS current/voltage -- ADC --------+
        v                             v
  bq27xxx gauge driver -- words --> HDQ byte transport -- serdev/UART --> gauge
  PMIC GPIO consumers -- nested irq --> PMU event controller -- I2C --> D2365/D2207
  capture script --TCP--> supervisor --pipes--> worker --/dev/mem, helper modules--> GPU registers
                              +-- watchdog
  console, records --one telnet session--> tablet shell;  transcript --> audit_session.py
  bt_*, uart3_* experiments --a session per command--> tablet registers, put back at the end
  public build --verifier--> assembler --> output directory --> load_m1n1.py --USB--> PongoOS --> tablet
```

### Components that are modelled

| Component | State | Operations | What is hard | What makes it correct |
|---|---|---|---|---|
| PMU event interrupts (`0116`) | read-to-clear event block, interrupt mask and its cached copy, enabled/wake sets, `irq_held`, retry and burst budgets, `suspended`, `removing` | threaded handler, delayed retry work, consumers' mask/unmask/set_wake and bus sync, suspend/suspend_noirq/resume, unbind and rebind | six actors around one lock that is dropped over I2C; a level line; a block that a read clears | no event lost, no bus access while the bus sleeps, the line's disable depth balanced, nothing runs after unbind, suspend gets through |
| HDQ byte transport (`0004`) | `rx_buf` (a pointer to a caller's stack), `rx_want`, `rx_count`, `rx_done`, `xfer_lock` | read byte, write byte, receive callback | one wire with echo; lost, weak and stray bytes; a timeout that races the last byte; the completion survives a transaction | success means the gauge's answer; the stack buffer is never written after the caller left; every call returns |
| HDQ words and identification (`0004`, `0091`) | the locals of a word read, the attempts of a probe, the device table in use | word read with its second look at the high byte, identification, probe, retry, rebind | the gauge steps a counter between the bytes of a word; a subcommand nobody acknowledges | words not torn; the table is the gauge's; reads and probes end |
| Input current limit (`0010`, `0017`, `ipad_console.py`) | one register | decode, two encoders | C and Python round differently | the two writers agree, limits survive a round trip |
| Charging policy and console action (`charging-policy.sh`, `ipad_console.py`, `nixos-handoff.sh`) | the register, the policy's latch, the console's tier, the system that runs | wait for sysfs or give up, evaluate and write, hand over to NixOS; pick a tier, write, read back, poll, abort, restore, keep | two writers that do not know each other, a battery that changes between their steps, lost writes, a policy killed between reading and writing | limit validated, backs off when hot where a policy runs, no chatter, comes to rest |
| VBUS ADC (`0099`) | control register, event mask, event, sample, `adc_lock` | one bounded conversion with cleanup | late completions, any access can fail, two readers | the sample is of this call; registers as found afterwards |
| GPU experiments (`gpu-watchdog-supervisor.c`, `gpu-bridge-once*`, `gpu_bridge_capture.py`) | the script's expectations and log, the supervisor's relay, the worker's step, the watchdog, the one-shot guard | checkpoint, permission, access, result, feed, disarm, reset, second session | the host, the session, the worker or the machine can go away at any point | logged before done, in order and once, disarmed only when complete, every armed watchdog resolves |
| GPU captures (`gpu_*_capture.py`, `j81_mcc_capture.py`, `gpu-gpc-init.c`, ...) | a script's place in its plan, the program's place, words in flight, one-shot marks of the boot | announce, permit, access, poll, judge, finish; hang, reset, a second run | two programs in a row read one input; who judges a result differs from script to script | a word is for the access that asked, nothing is written twice in a boot, "complete" is true |
| Register experiments (`bt_*.py`, `uart3_*.py`) | the registers as found or changed, the command the tablet still works on | baseline, write and read back, probe, give a command up and go on, restore, compare | a session lost before or after its command ran; a command given up runs on, or starts, during the restore | "restored OK" is true; the finally block covers what the try block can leave |
| Console session (`ipad_console.py`, `session_evidence.py`, `audit_session.py`) and the records over it (`h1b_*.py`, `bt_probe.py`, `j81_readonly_snapshot.py`) | the telnet session, the token awaited, what is buffered, the transcript | connect, send a command with a token, read to its trailer, give up, reconnect, record, audit | late answers, an echo that holds the token, reboots between commands, torn records | an answer is the command's own, no replay, a record is of one boot, an accepted transcript tells the truth |
| Private payload and its loaders (`verify_pcie_j81_reg_on_payload.py`, `assemble_private_wifi_payload.py`, `load_m1n1.py`, `load_linux.py`, `h1b_run_record.py`) | the files of an output directory, an assembly under way, PongoOS's upload buffer, what the tablet runs | judge a public build, assemble, write file by file, verify, upload, boot, observe | two assemblers in one directory, kills between files, swapped or rotten files, uploads that end short or raise | a passing directory is one assembly, what boots is what was sent, the observed identity is true |

How they interact: the policy reads the gauge (words over HDQ) and writes the
charger's property, whose encoder it shares a register with the console through;
the ADC is a reader of the same charger; PMU events are what a PMIC GPIO or power
key would be delivered by; the GPU experiments share the watchdog supervisor
(modelled in `GuardedRun`, seen as one with the program in `GpuCapture`).  The
console's charging action is in `Charging`; all its other actions go over the
session of `Console`, whose records `h1b_run_record.py` joins with the payload
directory that `Payload` builds.

### Components that are not modelled

| Component | State and operations | Why not, or when |
|---|---|---|
| ANS1 storage (`0015`, `0012`, `0013`) | mailbox handshake, tag bitmap, per-tag command, submission, completion, block-layer disk | first in the plan: it has the richest error paths of what is left |
| SPI S5L controller and touchscreen (`0007`, `0096`, `0098`, `0106`, ...) | FIFO depth, chip-select timing, polled transfers | patches of a driver whose body is not in the repository; a small module of the PIO loop is planned |
| PMIC GPIO (`0110`, `0111`, `0113`, `0118`) | one register per line | no state of its own |
| PCIe host and MSI (`0053`-`0058`) | register bring-up, a vector bitmap | fixed sequence only hardware judges; the bitmap is under one mutex |
| DART (`0055`, `0063`, `0080`, `0085`) | page tables, windows | bit layouts, no interleavings of their own |
| Wi-Fi (`0072`, `0101`-`0103`) | patches of `brcmfmac` | the driver and firmware are not in the repository |
| USB gadget (`0104`, `0105`) | two short fixes | the state machines they touch are not in the repository |
| Bluetooth and serial port drivers (`0120`, `0121`, `0003`, `0092`) | nodes, a match entry, baud and stop bits | no state; the experiments with them are modelled |
| GPU helper modules (`kernel/gpu-*`, `kernel/mcc-read-once`) | one access each at probe | their one-shot marks are in `GpuCapture` |
| Tablet services (`power-logger.sh`, `power-diag.sh`, `backlight-idle.sh`) | loops over sysfs | no shared state besides the charging policy |
| Boot chain (`flash.sh`, `nixos_ram_serve.py`, `pongo-t7001.patch`) | an operator's script, a file server, a patch | no state of their own, or of a third-party boot loader |
| Build, analysis tools, research (`flake.nix`, `docs/`, `research/`) | none at run time | no running system |

`PROJECT.json` lists every hazard the survey found with the line where it bites
and the properties that cover it, the ones of unmodelled components included.

## 2. The modules

```
PmuEventIrq ------------ PmuEventIrqProofs
HdqBus <-- implements -- HdqUart ------- HdqUartProofs,  MCHdqUart
   ^--- uses ----------- HdqGauge ------ HdqGaugeProofs, MCHdqGauge
ChargeCurrent
   ^--- extends -------- Charging ------ ChargingProofs, MCCharging
ChargerAdc ------------- ChargingProofs, MCChargerAdc
GuardedRun ------------- GuardedRunProofs   (the bridge experiment, step by step)
GpuCapture ------------- GpuCaptureProofs   (the fifteen other captures, as plans)
LiveExperiment --------- GuardedRunProofs   (eight register experiments, as plans)
RemoteCommand <-- implements -- Console -- ConsoleProofs
PayloadBuild <-- extends -- Payload ---- PayloadProofs, MCPayload
```

A definition whose comment says *mutant* is a plausible bug of the definition
after it; `PROJECT.json` pairs each checked property with a mutant that TLC finds
to violate it.

### PmuEventIrq

The D2365 event interrupt driver of patch 0116.  A step is what one actor does
while it holds `irq_lock`; what the code does without the lock is a step of its
own, so the handler is `Fire` (the line's hard interrupt), `EntryPassed` or
`EntryTurned` (gate), `ReadDone`/`ReadLost`/`ReadTurned` (block read and what it
found, budgets included), `DispatchLine`, `Dispatch`/`Dispatched` (nested handlers without the
lock).  The delayed work is `RetryExpires` (dequeued) and `RetryRuns`.  Consumers
are `IrqMask`, `IrqUnmask`, `IrqSetWake`, `ParentWake`, each with the bus sync that ends it.  Suspend is
`SuspendCancel` (`cancel_delayed_work_sync`), `SuspendGate`, `SuspendDone`
(`synchronize_irq` returned), `PmRest` (buses and the noirq phases), `Resume`.
Binding is `Probe` and the devm order of unbind: `StopFlag`, `StopCancel`,
`StopShutdown`, `StopFree`, `StopRestore`.  Two history variables record what a
property needs: `owed` (events raised for a listening consumer) and `stray` (the
bus was used while down).  The PMIC may raise any event at any time; a block read
may fail after clearing part of the block; a mask write may fail.

### HdqBus, HdqUart

`HdqBus` is the promise: a call acts at one instant between call and return, a
read that succeeds returns the register at that instant, a write that succeeds
was stored as asked unless the gauge missed it (nothing acknowledges a write),
and an error promises nothing.

`HdqUart` is the byte transport as the code has it: `Call`, `LockXfer`, `Break`,
`Arm` (reinit of the completion and arming under `rx_lock`), `Send`, `WaitDone`
or `WaitTimesOut`, `Disarm`, `Check` (echo and decode), `Unlock`, and the failing
break and write (`BreakFails`, `SendFails`, `Abort`).  The line delivers (`Deliver`),
loses (`Lose`) or disturbs bytes, and makes noise before and after; `Receive` is
`hdq_uart_receive_buf()` for one byte.  The gauge (external) hears the command, answers in
pulses of any strength, stores, or is deaf.  A byte of the HDQ is `L` UART bytes
(8 in the code).  `Bus == INSTANCE HdqBus WITH phase <- Phase, ...` is the
refinement mapping: a call is served when the gauge has the whole command and
returns at its unlock.

### HdqGauge

`hdq_uart_read()` and the identification over `HdqBus`: `ReadWord`, `FirstUpper`,
`Lower`, `Upper` (accept, or look again, `HDQ_WORD_READ_RETRIES` times),
`ByteFails`, `Identify`, `IdentifyHigh`, `IdentifyRead`, `Judge`, `Retry`
(patch 0091: a timeout is retried), `ProbeFails`, and `Rebind` of
`charging-policy.sh`.  The gauge (external) executes the subcommand (`Execute`) and steps its
counter (`Count`) up or down.

### ChargeCurrent, Charging

`ChargeCurrent` is arithmetic: the decode of register 0x04c0, the driver's
encoder with C's `DIV_ROUND_CLOSEST`, the console's with Python's `round`.
`Charging` is who uses it: the policy's loop, one action per reading, decision,
comparison and write (`ReadTemp`, `ReadCapacity`, `Decide`, `Look`, `SetLimit`,
`SetLimitFails`, `Sleep`) and its wait (`PolicyWaits`, `PolicyStarts`,
`PolicyGivesUp`).  `stage` is the system that runs.  The initramfs starts the
policy once (`flake.nix:1346-1347`), so one that gave up
(`charging-policy.sh:26-28`) is gone for good; `PolicyRestarts` is systemd's, in
NixOS only (`ipad-air2-ram.nix:105-116`).  Between the two is `Handoff`
(`nixos-handoff.sh:101-104`), which kills the policy, latch included, and telnetd.
The console's steps are `Pick`, `Custom`, `WriteTier`, `Readback`, `Poll`,
`Restore`, `Keep`, each with its lost connection, and `Interrupt`; from the
hand-over on every command it sends is lost (`Linked`, `Slips`).  The battery
changes between any two steps.

### ChargerAdc

`j81_d2207_adc_read()`: one action per register access (`Save`, `Discard`,
`Unmask`, `Start`, `PollEvent`, `Result`, `RestoreCtrl`, `RestoreMask`), each with a
failing twin, `Deadline`, and the lock.  A conversion is known by the number of
the start that began it, so a stale sample can be told from one's own.

### GuardedRun

The bridge experiment from the host's disk to the hardware: script
(`Checkpoint`, `Expects`, `HostFails`, `Connect`), supervisor (`Arm`, `Leave`,
`Relay`, `Permit`, `Feed`, `FailClosed`, `Reap`, `Disarm`), worker (`Announce`, `Allowed`,
`Access`, `Report`, `Guard`, `GivesUp`, `Finish`) and watchdog (`Tick`, `Reset`).  Lines
travel in sequences: worker to supervisor, supervisor to worker, and both ways to
the host.  Opening the watchdog's device starts it: a supervisor that fails
between opening and arming (`Arm(FALSE)`) leaves through `Leave`, where the 'V'
that stops the watchdog may fail as well, so that it runs on with nobody to feed
it.  An access may hang the machine; a reset forgets everything of the boot but
not what the host knows.

### GpuCapture

Every other capture script is a record: its plan of accesses (what is read,
written, polled; who judges the result: the script, the program, or both),
whether it runs below the watchdog, and whether a one-shot mark guards it.  One
pair of machines runs any of them: the script (`Connect`, `ArmsWatchdog`, `Armed`,
`Checkpoint`, `Result`, `Finished`, `Disarmed`, `Ends`) and the program on the
tablet (`Arms`, `Announces`, `Accesses`, `Judges`, `Refuses`, `Finishes`,
`Disarms`, `HearsNothing`), with `Hangs` and `Reboots` around them.  The records are the
translation of the scripts; each is mapped to the lines of its `capture()`.

Two scripts are looser than the rest.  `gpu_bridge_segment_capture.py:26-39`
keeps no place in the plan (`keeps`): it answers any `before`, compares any
`after`, and takes `finished` and `disarmed` whenever they come.
`gpu-fender-status-run.sh` announces itself once and reads three registers
without waiting for a word (`asks`), and its script (`gpu_fender_status_capture.py:29-33`)
is content when it has seen the announcement and one `stage` line
(`SomethingSeen`).  One step is judged differently on the two sides: the
postgpc script wants a value whole of which the program looks at one bit
("partly").

### LiveExperiment

Eight scripts as records: the registers written in the try block, what the
readbacks check, the commands its probes run, what the finally block writes and
what is compared afterwards.  The script is `Baseline` or `Refuses`, `Write`,
`WriteRaises`, `Probe`, `Loses`, `Restore`, `RestoreRaises`, `Compare`, `Says`.

Every command has a session of its own, and the end of a session says little about
the command: a write has happened, never will, or comes later (`Sends`).  A
probe's session that ends early does not end the try block: `run_telnet()`
returns what it has (`ipad_telnet_run.py:50-68`) and the script goes on to the next
rate (`bt_powerup_listen.py:57-60`, `bt_3m_probe.py:94`) or, when ssh's deadline
or ^C raised, to the finally block (`Loses`).  Either way the tablet may kill
the command (`Killed`) or work on at its own pace (`WorksOn`), during everything
the script does from there.  `Works` is the next step of the command the script
waits for, and `Drives` the kernel's driver, which sets the port while `btattach`
is attached.  `late` records the parts that a given-up command wrote after the
script had given it up and that were not put back since.

### RemoteCommand, Console

`RemoteCommand` is the promise of `run_result()`: a command happens at most
once, its answer is what it did, or the caller is told that nobody knows.
`Console` is the session: `Connect`, `Choose`, `Call` and `Send` (command and
trailer under a fresh token), `Read`, `Answered`, `GivesUp` (deadline or lost session:
the session is closed), `Misread` (a trailer without a status), `Record` (a line of the
transcript, whole, torn or refused), `Raises`, `Returns`, `Leave`.  The programs that use it, the menu's
actions and the read-only records, are sequences of commands with what each does
about an error.  The tablet's shell works late, still echoes, or reboots.
`Promise == INSTANCE RemoteCommand` is the refinement; `EvidenceValid` and
`Counted` are the audit.

### PayloadBuild, Payload

`PayloadBuild` is the verifier of public builds as sets of facts: what a flag
asks for (`Needs`), what it bars (`Bars`), what flags bring along (`On`).
`Payload` goes on from there: `Assemble` (accepts a request or not),
`WriteNext` in the order of `Order` with exclusive creation, `Killed` (a payload
may be cut short), `Damaged`; `Verified` is `--verify`; `LoadM1n1` and
`LoadLinux` start a loader whose transfers happen one by one (`Transfer`,
`Raises`, `Short`); `Observed` is the run record's identity.  Files are sequences
of named parts; a part is its content.  While a loader runs nothing else moves
(`Quiet`): the loaders read their file before the first transfer, so steps on the
disk commute with transfers.

## 3. The runs

Every run but the two of section 6 passes.  Sizes are distinct states.

| Run | Question | Bounds | States |
|---|---|---|---|
| `pmu` | do handler, retry, consumers, suspend and unbind together keep the safety properties; does suspend complete; is every event handled? | 1 wake-capable event, 2 retries, burst 1, failing reads and mask writes | 58 k |
| `hdq_shared` | two threads: buffer safety, no needless timeout, implementation of `HdqBus`, every call returns | 2-bit words, 1 address, 1 value, weak pulses, 2 faults, 1 noise byte and 1 trailing byte per transaction | 72 k |
| `hdq_gauge` | torn words, wrong table, endless loops | bytes of 3 values, counter falling or wandering, 2 looks, 2 attempts, 1 rebind, a known and an unknown gauge, any byte call may fail | 428 k |
| `charging` | two writers and a changing battery | temperatures on, between and above the thresholds, capacities around the cap, 2 polls, 2 battery changes, 1 console use, 1 failure, a hand-over | 464 k |
| `adc` | samples and registers under timeouts and failures | 2 threads, 2 channels, 3 calls, 2 failing accesses of any kind | 402 k |
| `guarded` | the whole bridge experiment | 4 accesses, 2 sessions, watchdog of 2 ticks | 1.9 k |
| `captures` | each of the other captures | every script, supervised or not as it runs, 2 polls for 64, 2 runs | 9.7 k |
| `live` | each register experiment | every script, a fault at any step, 2 given-up commands | 220 k |
| `console` | the session, the transcript, the programs over it | every program, 2 commands, 2 boots | 208 k |
| `payload` | builds, assembly, upload, identity | every near-miss of each flag's build; 3 public builds, 9 requests, 2 directories, 2 operators, 2 assemblies, 1 damaged file, 2 uploads; directories and operators symmetric | 960 k |
| `pmu_wake`, `adc_restore` | see section 6 | the smallest that show it | |

Why these bounds show the interesting cases:

- **PMU.**  Which events share a block only matters to the partial read, which
  is a failed read that already cleared the event; the safety properties are
  proved for any number of events (section 5), so the run takes one and pays for
  liveness instead.  Two retries let the budget be used, refilled and exhausted;
  a burst limit of 1 makes the storm branch reachable with two reads.
- **HDQ.**  The receiver's decisions depend on the position in the frame, on
  whether a byte is a level, and on the echo matching so far; two bits per word
  give a first and a last byte of both halves.  Two threads are enough for
  anything the mutex separates; a third only waits.  Addresses, values and longer words are the proofs' (any
  word length, any values).  In the run a wait times out only when nothing is on
  its way (500 ms against a frame of 5 ms), so of the race of the last byte with the
  disarm it has the byte that trails; the proof of `StackSafety` does not use
  that condition and covers a timeout at any point of the frame.
- **Gauge.**  With three values a byte a carry takes few steps, so the counter
  crosses one between any two bytes; with two looks allowed both the accepted and the
  given-up word occur.  `NotTorn` is claimed for a counter that moves one way
  (the run checks falling; a wandering one exercises the give-up path).
- **Charging.**  38.0, 40.0 and 42.0 degrees are below, in and above the
  hysteresis; 79 and 80 percent are both sides of the cap.  Two polls give an
  abort at the first, at the last, and none.  One tier and two typed currents (the largest accepted and one refused)
  suffice as all validated tiers behave alike.
- **ADC.**  Three calls are a failed one, one that meets what it left, and one
  beside it; two faults are an access and its cleanup.
- **GuardedRun.**  One access before the guard, one that arms it, two writes: each
  has another protocol position.  Two sessions are a failure and the operator's second try.
- **Captures, live.**  The plans are finite and complete; two polls are one that
  is busy and the last; two runs are the failure and the second try.  Two
  given-up commands (`MaxStrays`) are one that the script is told nothing of and
  another beside it, or a write of the finally block that comes after its successor; a third
  does to a part what the two can.
- **Console.**  What one command can do to another shows between two: the late
  answer of the first and the second that would take it.  Two boots are a record
  over a reboot.  Programs of more than two commands are cut off in the run, which
  shows their first steps only; `OneBootTheorem` is for any number of commands.
- **Payload.**  Two directories give a file of another assembly, two operators
  the race, two tokens two assemblies; one damaged file is what a hash has to
  notice; two uploads are a failed one and the one that follows it.  `OneStage`
  looks at initial states only: it is about the verifier's tables.  The symmetry
  is sound, as only invariants are checked and no property names a directory or
  an operator.

### Properties

PMU: `NoEventLost` is about three places an event can be (the block, the
handler's bitmap, the consumer); `HeldIsReleased` says a line held while awake
has a release coming or an empty budget; `NoStrayBusAccess` and `QuietAfterStop` are
about the gates; `SuspendCompletes` and `EventsHandled` are liveness.

HDQ: `StackBufferLive`, `NoFalseTimeout`, `BusSpec` (refinement of `HdqBus`; it
says among other things that a success is the gauge's answer), `CallsReturn`.
Gauge: `NotTorn`, `ChipRight`, `ReadsAndProbesEnd`.

Charging: `RaisesOnlyCooled` (an action property: the latch), `BacksOff` and
`Settles` (liveness), `NothingLeft`, and `NeverAboveValidated`, a plain bound on what the
two writers can put into the register: it says nothing about stale readings,
which are `BacksOff`'s.  `BacksOff` is claimed where a policy runs (`Watched`): in
NixOS, and in the initramfs from when it has found the charger until the hand-over; in an
initramfs whose policy gave up, nothing brings a limit down but the console.
`Settles` fails as soon as the encoders disagree.  ADC: `SampleIsOwn`, `Restored`,
`CallsReturn`.

GuardedRun: `LoggedFirst`, `PlanOrder`, `DisarmComplete` (an action property),
`Resolves` (liveness: a watchdog that runs, opened or armed, is stopped or bites).
GpuCapture: `OwnWords`, `NothingTwice`, `CompleteIsTrue`, which for the two looser
scripts rests on the program's order and on what is compared line by line, and
`StopsAtWrong` (an action property), which is not claimed of the Fender status
program: it only reads, and reads on.

LiveExperiment: `RestoresAll` looks at every part there is, not at what a script lists: when
no write of the finally block was lost, whatever the try block, its commands or the
daemon changed is back.  It has two exceptions, both stated in it: `late`, what a
given-up command did after its part was put back, and `Kept`, the port that
`bt_wake_experiment` leaves at its last probe's speed.  `VerdictTrue` needs no
assumption about lost writes, only `late`.

Console: `KeepsPromise` (refinement of `RemoteCommand`), `AuditTrue` (an accepted
transcript tells of every command once and truly), `OneBoot`, `AlwaysAnswers`
(liveness).  Payload: `PassIsWhole` (PASS of `--verify` means one
assembly), `BootsWhole`, `Identity`, and two plainer ones about the verifier's
tables, `OneStage` (over the initial states) and `AssembledVerifies` (for bases without the
Wi-Fi userland: a public build that has it passes no Wi-Fi flag).  `PassIsWhole`
is about files swapped between directories and a kernel that went bad.  The file
`bootargs` has no hash of its own: `--verify` wants it to be a piece of the payload
that holds the token (`assemble_private_wifi_payload.py:314-323`), so a copy cut short
around it still passes; the model does not cut it.

The modules' type invariants (`TypeOK`) and the auxiliary invariants of the proofs
(`DepthBalanced`, `CompleteIsFull`, `SuccessIsAnswered`) are proved rather than
run where a proof module exists.

Deadlock is checked in `pmu`, `pmu_wake`, `hdq_shared` and `charging`, which
never stop.  The others may: a failed probe stays failed once the rebinds are
used up (`hdq_gauge`), calls, sessions, commands and uploads are bounded, and an
experiment ends.

## 4. Fairness

| Specification | Fair | Because |
|---|---|---|
| PMU `FairSpec` | the handler of an asserted line, the thread's steps, the delayed work, the end of `synchronize_irq` | the kernel schedules threads and work; neither the PMIC, nor the consumers, nor the PM core are fair |
| HDQ `FairSpec` | each thread's transaction (weak), taking the mutex (strong), the gauge, delivery of bytes | kernel mutexes hand over to waiters; a byte on the wire arrives or is lost; losing, noise and ticking are not fair.  The wait's timeout is a step of the thread |
| Gauge `FairSpec` | the driver's steps, each byte call's return, the gauge executing | `CallsReturn` of the transport justifies the calls |
| Charging `FairSpec` | the policy's own loop (`Policy`) | it is a process that sleeps and evaluates; once it has given up in the initramfs nothing of it is enabled, so fairness starts nothing there, and in NixOS its restart is systemd's (`ipad-air2-ram.nix:105-116`).  Neither sysfs, the hand-over, the operator nor the battery is fair |
| ADC `FairSpec` | each thread's steps, the deadline, the mutex (strong) | jiffies pass; the converter need never answer |
| Console `FairSpec` | the host's program | it waits with deadlines; the tablet and the network are not fair, and the operator need not choose |
| GuardedRun `FairSpec` | only the watchdog's clock | everything else, host, supervisor, worker, machine, may stop for ever |

`GpuCapture`, `LiveExperiment` and `Payload` are checked for safety only.

## 5. The proofs

TLAPS checks each theorem to the last leaf, with no unproved assumption besides
the named `ASSUME`s on the constants and, where stated, `QuietLine`.  A theorem
stands for every value of the constants, a run for one.

**PmuEventIrqProofs** (for any number of events, retries and bursts).  `IInv`
joins the type invariant and the five safety properties with what makes them
inductive: `GateFollowsPm` (the gate is closed whenever the bus may be down),
`ReaderNotHeld` (a thread past the gate runs with the line released), `StopOrder`
(which parts of the driver are dead at each stage of unbind) and
`OwedToListeners` (owed events have a consumer).  The safety properties are not inductive alone: `NoStrayBusAccess`
needs the gate, `DepthBalanced` needs that a reader never meets a held line.
One lemma per actor; theorems `TypeCorrect`, `BusSafety`, `DepthSafety`,
`HeldSafety`, `StopSafety`, `EventSafety`.

**HdqUartProofs** (any word length of at least 2, any number of threads, any
fault bounds).  `RxInv` (who holds the lock, whose buffer is armed, what the
completion count means, what an outcome implies) is inductive whatever the line does, and gives
`TypeCorrect`, `StackSafety`, `CompletionSafety`.  `AnswerInv` adds the content:
the receiver never has more bytes than crossed the line, and if it has as many
then they are these (`Counted`), what the frame holds (`FrameOK`), and that a
full buffer that passes the check holds the gauge's answer.  The key argument
is a counting one: the receiver only takes level bytes of the echo in order, so
with every byte lost or replaced the count falls short and the transaction times
out.  It needs `QuietLine`: noise before the echo does not look like a level, and
a line that adds bytes after the response does not lose any.  Under it:
`AnswerSafety`, `TimeoutSafety`, and `Implements`, that `Spec => BusSpec`, step by
step.  Without it the claim is false: see section 7.

**HdqGaugeProofs** (any byte width, threads, retries, attempts, rebinds and
gauge).  `NotTorn` and `ChipRight` follow from the invariant `Kept`.  A word read
is three calls of the bus, so `Asked` ties each request to the place of its
thread, and `Followed` bounds what each call has fetched by where the counter
stood at the read's start and where it stands now: under the order the counter's
direction gives to words (`Leads`) and to high bytes (`Past`).  Two equal high
bytes around the low one then leave no room for a carry.  For the identification,
`Roles` says that only the prober uses the bus until the type is known,
`ControlIs` what the control word can be, and `Answered` that the word in the
making is the gauge's own once nothing is pending.  Theorems `TypeCorrect`,
`NotTornTheorem`, `ChipTheorem`.

**ChargingProofs** (any temperatures, menus whose tiers are validated, currents,
bounds).  The invariant is `TypeOK` with `CodesLow` (every code that is in the
register or on its way is validated), `LeftInv` (when a tier of the console can be
in the register unkept), `LatchInv` (what the policy's latch implies of the battery since)
and `PollsLeft`.  Theorems `TypeCorrect`, `LimitValidated`, `TierRestored`,
`LatchHolds` (an action property); and of `ChargeCurrent`, for every integer, that
the encoders agree, unsaturated limits survive being written back, and the limit
set is the closest there is.

**ChargingProofs, last part** (ChargerAdc; any threads, channels, calls and failing accesses).  The
argument follows the owner of `adc_lock` (`OneOwner`): as long as no write of the
control register failed, no conversion runs outside of `Started`, so what a call
saves and writes back is the resting value (`ControlKept`), and the event register
speaks of the owner's conversion only (`EventIsOwn`); `MaskKept` is the same for the
mask.  Theorems `AdcTypes`, `SampleTheorem`, `RestoredTheorem`.

**GuardedRunProofs** (any number of accesses, any timeout, any number of
sessions).  Host, supervisor and worker go in lock step: `Upward`, `Permission` and
`Link` list, by what each of them waits for, what the pipe, the permission and the
socket can hold, so that there is at most one checkpoint and one result under
way.  `Counted` makes the supervisor's count of results the worker's, `Logged` and
`Planned` carry the accesses of this boot over sessions and resets.  Theorems
`TypeCorrect`, `LoggedTheorem`, `PlanTheorem` and `DisarmTheorem` (an action property).

**GuardedRunProofs, last part** (any selection of the scripts of `LiveExperiment`,
whose names begin with Live where the two modules would share one; any number of
given-up commands).  `ScriptsShaped` looks through the lists once: what a script writes or probes
with is in the block's list, and the daemon is stopped before the port is put
back.  `Covered` is the heart: every changed part is still ahead on the block's list, or
`late`, or `Kept`, or a write of the block was lost; it is inductive because a
command of the try block is over, or given up, before the block begins
(`Placed`), and a running daemon changes the port only while the port is ahead of the block
(`Ordered`).  `Compared` and `Found` carry what has compared equal to the verdict
(`Ended`).  Theorems `LiveTypes`, `VerdictTheorem`, `RestoresTheorem`.

**GpuCaptureProofs** (any selection of the scripts, with or without a watchdog, any
number of polls and of runs in one boot).  `ScriptsSound` looks through the plans once: what is
written has a mark that is left before it, and without a watchdog what the program judges the script
judges too.  `Link` lists what can be on the session for each place of
the program, by what the script waits for: no line (`Asks`, `Allowed`), a line or two
of a script that lags (`Trail`), what the supervisor says after the program (`Passing`,
`Closing`).  `Spoken` gives the other direction, and `OwnWords` from it.  `Marked`
is about the boot, so it outlives sessions: a write that was made has left its
mark, and a program that is past the mark's check has found none.  `Progress`, that what lies
behind the program is done and right, and `Verdicts` make success true.  All this
is `IInv`, for the scripts whose program asks; `StreamInv` is the invariant of the
Fender status program, whose lines run ahead of the script, and follows the order in which
it reads.
`Halted` says who stands in the way after a wrong result: the program that
exits, or the script that has not yet read the line or has failed.  Theorems `TypeCorrect`,
`OwnWordsHold`, `NothingTwiceHolds`, `CompleteIsTrueHolds`, and `StopsAtWrongHolds` (an action
property).

**ConsoleProofs** (any selection of the programs, any number of commands and
boots).  `Following` follows the one open command: what of it is before the shell
(`Queued`), on its way back (`Spoken`: only this command speaks, and its status is
the end of what is there), still to come from a session given up (`Late`), and what the
caller learned (`Learned`).  `Audited` ties the transcript to it (`OnePiece`,
`Recorded`; `AllEnded`, that a torn line is always seen), and `Booted` ties answers
to boots: while a session lasts the tablet has not rebooted (`OwnBoot`), so an
action has answers of one boot or none (`OneKept`), the more so as the steps of an
action are all sections or none (`Uniform`, shown of every program).  Theorems
`TypeCorrect`, `AuditTheorem`, `OneBootTheorem`, and the refinement `PromiseKept`,
that `Spec` implements `RemoteCommand`: `Call` issues, `Answered` answers, `GivesUp` and
`Misread` lose, `Works` and `WorksLate` make a command happen, everything else
stutters.

**PayloadProofs** (any set of public builds, requests, directories and operators, any
bounds).  `OneStageHolds` needs no invariant: `OnIsTable` unfolds the recursive `On` flag
by flag, and every stage after `msi` has a mark, a string it needs and the stages unrelated
to it bar (`TestMark`, `DmaMark`); so it holds of any set of facts, not only of the
near misses the run tries.  The others rest on `IInv`: there is an account of the
run, the request behind each token drawn and the tokens whose payload was torn, such that
whatever was damaged a manifest is one written for its token (`Stored`); before
any damage a directory holds the first files of one assembly or a torn payload
(`Untouched`); an assembly under way has a token of its own and its directory holds
exactly what it has written (`Jobs`: why two assemblers in one directory cannot mix); and
what a script loads, or the tablet runs, is a file somebody assembled (`Genuine`, `Loading`,
`Running`).  The account is not part of the state, so each step says how it goes on
(`Longer`).  `Accounted`, and from it `BootsWholeHolds`, `IdentityHolds`,
`PassIsWholeHolds`, `AssembledVerifiesHolds`.  Only the last uses an
assumption on a constant: `PublicAssumption` says that a public build carries no firmware under the
names of the overlay (`assemble_private_wifi_payload.py:4`, "no firmware"); without it the
verification of an assembled directory may find a file nobody staged.

**Only model-checked.**  All liveness (`SuspendCompletes`, `EventsHandled`, `CallsReturn`
twice, `ReadsAndProbesEnd`, `BacksOff`, `Settles`, `Resolves`, `AlwaysAnswers`), which
is outside this prover's reach.  Every safety property the runs check is also a
theorem.

## 6. Findings

1. **A line held for a failed read does not wake the system** (`pmu_wake`,
   `WakeEventWakes`).  After a failed block read the line is disabled until the
   retry; suspend cancels the retry and leaves the line disabled, so a wake event
   cannot wake the system.  The driver's comments promise the line stays armed.
2. **A failed restore of the control byte leaves the event unmasked**
   (`adc_restore`, `MaskRestored`).  The comment of the
   function (patch 0099, line 46) says the registers are restored on every error path.

Met on the way, without a run: the comment at `boot/charging-policy.sh:16-17`
that the driver never retries its identification predates patch 0091, which retries
timeouts.  `boot/bt_wake_experiment.py:5` says that "The script touches nothing else"
than two registers; its probes also set the speed and the flow control of `/dev/ttySAC1`,
which stay (`Kept`).  Each of the scripts of `LiveExperiment` puts its registers back in a
finally block, but none waits for a command it has given up, which can undo that
(`late`).

## 7. What is left out

- **PMU**: probe's failures (devm unwinds them), the second PMIC's registers,
  timing.
- **HDQ**: a stray byte before the echo that looks like a level: the receiver
  matches the echo as a subsequence, takes the byte for the first bit and the
  response shifts.  `kernel/kunit/README.md` lists this as a skipped test; the model's noise is
  the break, which is no level (`QuietLine`).  Also the break's UART parameters, the turnaround delay, CRC (HDQ has none).
  A line that both loses a byte and adds a stray one in one transaction can forge
  an answer; `SuccessIsAnswered` says so in its statement.
- **Gauge**: the bq27xxx core, opening the serdev and remove.  A counter that
  wanders across a carry tears a word and no pass notices: the code promises nothing there.
- **Charging**: an operator who interrupts the tool leaves the tier in the
  register, and only a policy, where one runs, brings it back (`BacksOff`); the
  hand-over and a restart forget the latch.  Both are in the model, and
  `NothingLeft` and `RaisesOnlyCooled` are stated around them.  The policy dying of
  itself once it evaluates is not modelled: nothing in its loop exits.
- **ADC**: register 0x0501, which these channels do not move, and the scaling of
  samples.  The model takes a write of the control register to end the running
  conversion, which the sources do not say of the hardware.  After a *failed*
  control write the next call can take a stale sample between its discard and its
  start: `SampleIsOwn` excludes that case.
- **GpuCapture, LiveExperiment**: register values (right or wrong), the terminal's
  echo, size limits, how long a measurement takes.  Nothing is assumed about how
  long a given-up command takes or when it is killed.  A `btattach` that runs before a
  script that does not look for one (`bt_wake_experiment`, `bt_chip_gpio_watch`) is
  left out: the model starts with no daemon attached.
- **Console**: what the commands print and how the records classify it, the
  manifest's fields and the comparison of artifact hashes in the audit.
- **Payload**: the cpio and device-tree parsers (a build is the facts they find),
  MAC and NVRAM syntax, file modes.  `load_linux.py` does not look at what
  `write()` took and says "loaded successfully" (line 89); the model goes on after
  a short write as the code does, and `BootsWhole` is about `load_m1n1.py`, which looks.
  Writing a file is one step, torn only when the writer is killed, so a
  loader that reads `m1n1-linux.bin` while the assembler is still writing it
  (`assemble_private_wifi_payload.py:179-182`, `load_m1n1.py:15-16`) is not
  in the model: it would upload the part that is there.  Damage is to whole files: a
  file of another directory, or a kernel that went bad.
- The offline tools for GPU and LDR images are pure parsers and generators.
- **GuardedRun**: hashes and table contents (wrong or right is all the protocol
  sees); READ and ACCESS are one permission.  A second supervisor is refused
  while the first holds the watchdog device.

## 8. Plan

Done, in order of weight: PMU event interrupts with proofs; the HDQ transport,
its abstract specification and the proved refinement; gauge words; charging with
proofs; the ADC; the guarded experiments; the other captures; the register
experiments; the console's session with its abstract specification, transcript
and audit; the payload from build to boot; a proof of every safety property.

Next, in order:

1. **Ans1Storage**: tags, submission, completion, the boot handshake and the
   error paths of patch 0015, with the block layer as environment.  Questions:
   the buffer pointer that survives a command (`:1354`), the identification
   buffer freed on two paths (`:1103`, `:1230`), the missing timeout handler
   (`:989`), the tag a failed submission keeps (`:853`), aborted auxiliary reads counted as
   successes (`:965`), the pool of one.  An abstract specification (a request
   completes at most once and its buffer is touched only before) to refine.
2. **SpiPio**: the S5L transfer loop with FIFO depth and large transfers.

## 9. Running it

```
tlc -workers 2 -config PmuEventIrq.cfg PmuEventIrq.tla
tlapm HdqUartProofs.tla
```

`PROJECT.json` names module, configuration and properties of each run, the source
lines each definition stands for, a mutant for each property, and the theorems.
