# A verification of usb-driver

The repository is a collection of small Linux kernel modules, the user programs
that talk to them and a few Arduino sketches. They grew one out of the other
around two ideas: *pausing a user process from the kernel when a sensor sees an
object*, and *letting a USB device decide what a user may open*. This directory
models them in TLA+, checks the models with TLC on small instances and proves
the most important facts with TLAPS for instances of any size.

`PROJECT.json` maps every definition to the source lines it stands for, lists
the runs, the mutants (a changed definition with which a property must fail),
the hazards and the theorems. In the modules, a comment that begins with
"Mutant" marks a definition that only serves that purpose.

## 1. The system and its parts

### Pausing processes

| Part | Source | State | Operations | Talks to |
|---|---|---|---|---|
| UltrasonicTrigger4 | `UltrasonicTrigger4/serial_reader.c` | reader thread, `task`, `pid` (sysfs), `paused` | insmod, rmmod, reader loop, `pause_thread`, `resume_thread` | tty, scheduler, signals |
| Sensor board | `UltrasonicTest/UltrasonicTest.ino` | none | measure, print one line, wait 500 ms | the tty |
| Servo client | `UltrasonicTrigger4/helloWorld.c` | an open serial port | write a character every 600 ms | the servo board |
| Servo board | `UltrasonicTrigger4/serialReader/serialRead1.ino` or `servoRotation/servoRotate.ino` | `pos`, `dir` or the sign of `inc`, the servo | one increment per character | its UART |
| UltrasonicTrigger2, 3 | `UltrasonicTrigger2/serial_reader.c`, `UltrasonicTrigger3/...` | reader thread, workers that sleep 5 s; `paused` in the third | the same, without a resume thread | the same |
| UltrasonicTrigger, user-pid-pause | `pause_mod.c`, `netlink_user.c` | static `pid` and `task`, netlink socket | message handler, worker, exit; the sender's poll loop | netlink |
| ppause | `ppause/pause_mod.c` | `task`, `pid` (sysfs) | one worker per load, exit | signals |

What makes them right: a process that is stopped is let go again; two kernel
threads do not work against each other; a pause lasts as long as it should; and
`rmmod` does not pull the code from under a thread. What makes them hard: no
lock and no completion is used anywhere. Threads are started and forgotten, the
flag that describes them is tested by one thread and set by another, a task
pointer is used after the read-side critical section that protected it, and
only sleeps keep steps apart.

### USB devices and directories

| Part | Source | State | Operations | Talks to |
|---|---|---|---|---|
| perm-driver | `perm-driver/perm-driver.c` | `original_mode`, `mode_saved`, the directory's `i_mode` | lock at load, restore at unload | the VFS |
| usb-perm-driver | `usb-perm-driver/driver.c` | the same | lock at load and at disconnect, restore at probe and at exit | the VFS, the USB core |
| usb-trigger | `usb-trigger/driver.c`, `netlink_user.c` | `usbConnected`, netlink socket | probe, disconnect, request handler; the program that asks and launches the editor | the USB core, netlink |
| netlink-socket, -2, -3 | `kernel/netlink_mod.c`, `user/netlink_prog.c` of each | netlink socket | request handler (the third looks for a device, the second launches the editor itself); the program | netlink, the USB core, usermode helpers |
| usb-check, usb-eject and relatives | `usbCheck/usb-check.c`, `usbEject/usb-eject.c`; usbReadWrite, usbDetect, usbDetectTrial | a registered notifier | compare a device with the allowed ones, log or unbind | the USB core |
| File editor | `USBReadWrite/Control.gd` | `current_path`, the text, the title, the list of buttons; the files of the stick | start, open, save, save as, reload, delete, new | the stick, and other editors on it |

What makes them right: the directory has no permissions while no device is
bound and its owner's mode while one is; the editor is launched for a program
that asked while a stick was there, and for no other; a device is judged when
it is added, and unloading ends; the editor shows and acts on the file it names,
and a save that nothing disturbs leaves its text whole. What makes them hard: probe and disconnect run
in the USB core's threads, concurrently for different devices and with a
program's request; functions that read, change and write global variables take
no lock; errors of path lookup and registration are ignored or not undone; the notifier runs with a lock held that a callee wants; and the stick may be
pulled between the opening of a file, which truncates it, and the writing, or
after a save that the kernel has not written back yet.

### The socket server

`socket-communication/socket_mod.c` listens in the kernel for a TCP connection,
takes one message, runs the file editor and ends; `user.c` is its client. What
makes it right: the listening socket outlives the thread that accepts on it,
the editor runs for a message only, and an `rmmod` that blocks waits for a user
and not for the thread's own mistake.

### Programs that talk to modules

| Part | Source | State | Operations | Talks to |
|---|---|---|---|---|
| Character device | `kernel-user/my_module.c`, `user_app.c`; the older copy in `Kernel User Communication/` | `message`, `message_size`, three registrations | load with undo, unload, open, write, read, release | any programs |
| Sysfs value | `kernelUserBuffer/interact.c`, `user.c` | `my_value` | load, unload, show, store | one program at a time |
| Uevent daemon | `kernelUserCall/call.c`, `uevent_daemon.c`, `user.c` | a kernel object, the daemon's socket | announce, receive, run the program | uevents, then sysfs |

What makes them right: a program reads what it has written; a load that fails
half way leaves nothing registered; no announcement is lost unnoticed, and the
value arrives. What makes them hard: one buffer for all programs without a lock,
file operations without an owner, a double unregister, and a daemon that does
not receive while the program it started runs.

### Not modelled

* **usbRead**, **usbRead2**, **usb-talk-2**, **keyboard-mouse-test**,
  **helloWorld**: callbacks that only log (what usb-talk-2 would read is
  commented out). They keep no state and nothing of theirs can go wrong in an
  order. usbRead2 leaves its driver registered when it is unloaded.
* **usb-write**: one allocation per interface, made by probe and freed by
  disconnect, which the driver core calls in turn. There is no other user of it.
* **usbReadWrite** is modelled *partly*: its notifier is that of usb-check with
  another list (`UsbNotify`, `Ejects = FALSE`); that it prints the list of a
  device's open files as if it were a string is not.
* **Test targets** of the pausers (`ppause/hello.c`, `helloWorld.c` of
  UltrasonicTrigger2 and 3): a process of the models. **GodotArduino** is an
  empty project. **Build output** (`*.mod.c`, `*.cmd`) is generated.

## 2. The modules

```
ModuleLife ── SerialReader ─┬─ SerialPause ── UltrasonicSystem ─┬─ SerialPauseProofs
    │                       │                                   └─ (INSTANCE) ServoSketch
    │                       └─ TimedPause ──────────────┬─ TimedPauseProofs
    ├── PauseThread ────────┬─ TimedPause               │
    │                       └─ NetlinkPause ── PauseOnce┘
    └── SocketServer ── SocketServerProofs
ServoSketch ── ServoRotate ── ServoProofs          both sketches refine Sweep
DirPerms ── UsbPerm ── PermDriver ── UsbPermProofs
UsbTrigger ── NetlinkLaunch ─┬─ UsbTriggerProofs   all four modules refine Consult
UsbNotify ───────────────────┘
FileEditor ── FileEditorProofs
CharDevice ─┐
UeventCall ─┴─ KernelUser ── KernelUserProofs
```

Where one part of the repository grew out of another and has the same state, one
specification covers both: the initial states choose what is installed
(`PauseOnce`, `PermDriver`, `NetlinkLaunch`, `ServoRotate`), as a machine runs
one of them, and each property says which of them it is about when it is not all.
Two proof modules are about two specifications each: TimedPauseProofs also about
PauseOnce, whose workers run the same function over the same variables, so that
the lemmas about a worker serve both; and UsbTriggerProofs also about UsbNotify,
which has variables of its own. No theorem is about both at once.

Modules named `MC...` give the constants of a module their small values; the
`.cfg` files bear the names of the runs.

**ModuleLife** holds the life of a loadable module (`module`) and the uses of
freed memory that have happened (`faults`). A call that goes wrong in the C code
(`kthread_stop()` on a thread that has returned, a signal to a freed task) is a
step with several outcomes, and the fault is remembered, so that a property can
say what holds as long as there has been none.

**SerialReader** is the reader thread of the UltrasonicTrigger modules with the
tty and the sensor board. `reader` is the place in `serial_reader_thread`: the
open, the loop test, the blocking read, the decision, the `msleep()`, the close.
A report is "Detected" or "NotDetected"; the tty is a bounded queue of reports
that drops what does not fit. What a report makes the reader do is added by the
modules that extend this one.

**SerialPause** (UltrasonicTrigger4) adds the decision and the two thread
functions. A worker is a kernel thread; its steps are the lookup (`FindTask`),
the signal (`SendSignal`) and the flag (`SetFlag`), with the early returns
(`NoSuchTask`), the freed task (`SignalFreedTask`) and the freed module
(`RunFreedText`). `pid` may be rewritten and processes may exit between any two
steps.

**PauseThread** is the five-second worker that ppause, user-pid-pause and
UltrasonicTrigger 1 to 3 share. A worker whose signals and flag are done is at
"end", where a `printk()` and the return are left: from the clearing of the flag
on, the reader of UltrasonicTrigger3 may start the next one. **TimedPause** starts it from the serial reader,
for UltrasonicTrigger2 (no flag: `paused = NoFlag`) and UltrasonicTrigger3;
the initial states choose which. **NetlinkPause** starts it from the netlink
handler, which runs in the thread of the sender, in two steps (write the static
`pid`, start the thread) between which another sender's handler may run.
**PauseOnce** starts it when the module is loaded; its next-state relation
is that of ppause or, if the netlink module is installed, that of NetlinkPause.

**ServoSketch** is the loop of `serialRead1.ino`, its four branches four
actions; **ServoRotate** adds `servoRotate.ino`, which flips the sign of its
increment at either end and writes every position. **Sweep** is what both
promise: the position goes from end to end and turns only there. **UltrasonicSystem** composes SerialPause, the writer
`helloWorld.c` and the servo board: a stopped process writes nothing.

**DirPerms** has the two functions that perm-driver and usb-perm-driver share,
step by step (`lookup`, `save`, `clear`; `check`, `find`, `restore`), for any
number of threads that may be in them. A mode is a set of bits. **UsbPerm** calls them from init, exit, probe and
disconnect, with the USB core around them: one lock per device, none between
devices, nor between a callback and init or exit. **PermDriver** adds the older
driver, which calls them at load and unload only.

**UsbTrigger** is the driver, its netlink handler (read the flag, allocate, send)
and the programs that ask. **NetlinkLaunch** adds the three modules before it:
the first two answer every request, the third only when it finds a device, and
in the second the kernel runs the editor. **Consult** is what all four promise: a
request is granted while the stick is there, and the editor runs for a granted
request only. `Present` says what "there" means to each (bound, plugged in, or
not asked), `Phase` maps the place of a program and its handler to the request's. **UsbNotify** is the notifier with the hub's thread
that calls it. **SocketServer** is the server thread with its clients.

**FileEditor** has one action per handler of `Control.gd`. A save is two steps,
the opening and the storing of the text, since the stick may be pulled and
another editor may open, save or delete the file in between; `handle` says
whether what was opened still exists. `disk` is what programs see of the files,
which is the kernel's page cache; `unwritten` holds the files whose last change
is not on the stick yet. `WriteBack` brings it there at any time, since nothing
in `Control.gd` flushes or syncs, and `Pull` leaves of such a file the old text,
the new one, any part or mixture, or nothing. `StoreText` may store a part only
(a full stick), as the result of `store_string()` is not looked at. A text is its
length, with `Mixed` for one that shows through another. The history variables
record what was saved last (`saved`, which is `Torn` when that save was not left
alone), a "save as" that failed (`misnamed`), whether somebody else has touched
the file of a window or the stick since the window last read or wrote it whole
(`view`), and whether the set of files has changed since the buttons were made
(`stale`). Opening a file, or pressing reload, makes a window whole again.

**CharDevice** takes the device's write apart into `sprintf()` (during which the
message is of both texts) and the assignment of the size, and the read into the
copy and the reset; a message is the set of programs whose texts it is made of.
`stage` is the place in init or exit, so that each registration may fail.
A copy to the program that fails leaves the size as it is (`CopyFails`).
**UeventCall** is the path of an announcement: `call.c` and the module loader
announce (the loader before init in kernels before 5.13, after an init that
succeeds in those since: `MayAnnounceModule` allows for either), a bounded socket
queue holds, the daemon receives and waits for the
program, which `system()` may not be able to run (`ProgramFails`), the program
writes through sysfs into `interact.c`, which may be loaded
and unloaded meanwhile. **KernelUser** puts the two in one specification.

What the models abstract: text, names and log lines; the bytes of a report or
message; which of several equal errors a call returns. `i_mode &= ~...` is one
step (the load and the store are not split). What the kernel does is modelled
from how the code uses it and marked external in the map.

## 3. Time

`msleep()` lasts *at least* as long as asked. Clocks count ticks: a sleeping
thread wakes when its count has reached the sleep, at once or later. All else
takes any number of ticks, with one exception: a kernel thread that does not
sleep takes at most `Latency` ticks (the guard of `Tick`). The unit is free; in
UltrasonicTrigger4 the reader's sleep is one second, and `Latency < SleepTicks`
(`Prompt`) says that a worker created before the sleep gets through its dozen
lines within it. The code relies on that and on nothing else, so the theorems
name it as an assumption. It is needed for more than safety: with two workers
and `Latency = SleepTicks` TLC finds a behaviour in which a late `resume_thread`
interleaves with the next `pause_thread`; `paused` is 1, the process runs, and the servo
moves in front of the object for ever. `RunFreedText` is the other consequence:
it can happen in SerialPause only when a worker is not prompt, which is what
`UnloadIsSafe` says; TimedPause and NetlinkPause, whose workers outlast their
module, do take it.

## 4. The runs

| Run | Question | Bounds and why they are enough |
|---|---|---|
| SerialPause | Can any interleaving of sensor, reader, workers, rmmod, `pid` writes and exits make two workers overlap (`OneWorker`), leave one in freed code (`UnloadSafe`) or leave a process stopped without `pid` and `paused` saying so (`NeverStuck`)? | two workers (an overlap is of two), two processes (`pid` moves from one to the other), two queued reports of both kinds, `Latency` 1 < `SleepTicks` 2. About 560 000 states. The proofs remove the bounds. |
| UltrasonicSystem | Does an object near the sensor bring the servo to rest for good (`ServoRests`), does its absence keep it moving (`ServoMoves`), whatever happened before, and does rmmod return (`UnloadEnds`)? | prompt workers (`Latency` 0, `SleepTicks` 1), hence one of them (the first run shows that there is never a second), one process, a queue of one report, a sweep of two increments: the properties ask only whether the servo moves. |
| ServoSketch | Do both sketches sweep 0 to 180 and back (`BoardSweeps`), with the servo at most one increment behind (`BoardFollows`), and go on for ever (`Live`)? | real size, 36 increments, started at an end or in the middle as each sketch is; 3 characters in the UART. |
| TimedPause | Is nobody left stopped once the workers are through, in UltrasonicTrigger2 and 3 (`AllResumed`)? Does the flag of the third let one worker pause at a time (`OnePauses`), and keep pauses whole (`FlagKeepsPauses`)? | two workers, two processes; a worker sleeps longer than the reader, so that without the flag workers do overlap. Workers and processes are symmetric: 440 000 states. The proofs remove the bounds. |
| NetlinkPause | ppause and the netlink pausers. Two senders overwrite each other's pid: does every stop still end (`StopEnds`), does rmmod return (`UnloadEnds`)? Is ppause's pause full (`FullPause`), and does rmmod in the middle of it leave nobody stopped (`ReleasedOnUnload`)? | two senders, two workers, two processes, `Delay` and `Gap` 2, so that a sender asks again while a worker sleeps. The proofs remove the bounds of ReleasedOnUnload and FullPause. |
| UsbPerm | perm-driver and usb-perm-driver, with two devices whose callbacks interleave, an owner who changes the mode and a path that may stop resolving. Locked while nothing is bound or while perm-driver is loaded (`LockedWhenUnbound`, `LockedWhileLoaded`), open while something is bound (`OpenWhenBound`), the owner's mode saved (`SavesOriginal`), and what is lost stays lost (`StaysLost`). | two devices of one interface, three threads in the two functions, two modes, so that the owner's changes show. 177 000 states. The proofs remove the bounds. |
| UsbTrigger | Four modules that launch the editor. No editor without the stick asked for (`LaunchJustified`), no flag without a stick (`FlagHasStick`), who is answered (`Answered`), and the refinement of Consult (`Consults`). | two sticks (the flag is shared), two programs (whose requests interleave). The proofs remove the bounds of all but Answered. |
| UsbCheck | Does a device slip past the notifier (`EveryDeviceJudged`), does unregistering end (`UnregisterEnds`), is the hub held up (`HubKeepsUp`)? | two devices, one allowed. The proof removes the bound of the first. |
| UsbEject | Does usb-eject unbind a device that is not allowed? It does not: see section 6. | the same |
| SocketServer | The listener outlives the thread (`ListenerOutlivesServer`); the editor runs for one message (`LaunchedForOne`); a blocked rmmod waits for a user (`OnlyUsersBlock`). | three clients with a backlog of two, so that one is refused. The proofs remove the bounds of the first two. |
| FileEditor | Which texts can the stick lose (`WholeFiles`), is what a window shows what is on the stick (`ViewIsFile`, `ListIsStick`), do save and delete act on the file that is shown (`ActsOnShown`)? | two editors; one name at two mount points, so that a path may be right or stale; texts of length 0 and 1, which is enough for one to be truncated, cut short or shown through. 1.4 million states. The proofs remove the bounds. |
| KernelUser | Does a program read its own message (`OwnMessage`), does a failed load leave something behind (`NothingLeft`), is an announcement lost unnoticed (`NoneLost`), does the value arrive (`ValueArrives`)? | two programs (calls overlap in pairs); a socket for two of five announcements, which one load and unload overrun. 32 000 states. The proofs remove the bounds of all but ValueArrives. |

`CHECK_DEADLOCK FALSE` stands where the system may stop: an unloaded module with
no process left, a server thread that has ended, or a bound on announcements that
is used up. The others cannot.

## 5. Fairness

Weak fairness is assumed of what a running machine keeps doing: kernel threads
that can run (the reader, each worker, the server thread), the clock, the sensor
board and the servo board, which loop for ever, a program that is not stopped,
the handler it runs, and a `kthread_stop()` whose thread is over. The
uevent daemon and the program it runs go on as well. Strong
fairness is assumed of `StartPause` and `StartResume` (a kthread_run that is
tried for ever does not fail for ever), of the hub serving each port, and of the
writer that waits for the notifier chain. *Nothing* is assumed of users, of what
moves in front of the sensor, of plugs, of rmmod or of processes that may exit:
the liveness properties say "if from some time on the object stays near", and
so on. `UnloadEnds` of UltrasonicTrigger4 needs the sensor: a reader blocked in
the tty wakes when a report arrives or the device goes.

## 6. What the checks show

All safety and liveness properties of the passing runs hold. Beyond that:

* **usb-eject never ejects** (run UsbEject). The core calls the notifier with
  the lock of the device held; `device_release_driver()` (usb-eject.c:24) wants
  that lock. The hub's thread waits for itself, and with it every later plug and
  unplug. "Eject the unauthorized device" (usb-eject.c:52) is not what happens.

Some of the code's behaviours limit what the properties can say; the guards of
the properties name them:

* *usb-perm-driver*, two interfaces at once, of one device or of two: the first
  disconnect locks the directory under the other, and the second saves the
  cleared mode as the original, so that no later probe brings the mode back
  (`shared` in OpenWhenBound and SavesOriginal).
* *usb-perm-driver*, rmmod with a device bound: exit restores the mode and only
  then deregisters (driver.c:176-178), and the disconnect locks the directory
  again; the next load takes the cleared mode for the original (`lost`). A
  failed `usb_register()` leaves the directory locked the same way.
* Both directory drivers ignore a path that does not resolve (`missed`).
  A mode the owner sets while the directory is locked is overwritten by the next
  restore; `Chmod` therefore happens only to an unlocked directory with no
  thread in the two functions.
* *UltrasonicTrigger4*: a process whose pid is overwritten while it is held
  stays stopped (`abandoned`), and rmmod with a process held leaves it so.
* *UltrasonicTrigger2*: a worker is started for every report, so the SIGCONT of
  one ends the pause of another; FlagKeepsPauses is stated for the third module.
* *UltrasonicTrigger and user-pid-pause*: with two senders a worker may pause
  the sender whose pid was written last instead of the one it was started for.
  What remains true is that every stop ends.
* *UltrasonicTrigger2, 3 and NetlinkPause's earlier workers* are not waited for
  by rmmod (`RunFreedText`); `faults` excludes what follows.
* *usb-trigger*: with two sticks, removing one clears the flag for both
  (FlagHasStick is an implication in one direction only). A failed
  `usb_register()` leaves the netlink socket registered with a handler in freed
  memory, and the next program that asks dies of it (`CallFreedHandler`). A program whose reply could not be allocated waits for
  ever (`dropped`).
* *netlink-socket-3* answers nobody when no device is there (netlink_mod.c:47),
  and its program waits for ever in `recvmsg()`: the exception in Answered. With
  *netlink-socket-2* the editor is run by the kernel, for every request.
* *The socket server* serves one client; later ones connect and send in vain.
* *The file editor* truncates a file before it stores the text (Control.gd:83-86),
  so that a stick pulled in between loses both texts. It neither flushes nor
  syncs, so that a stick pulled after a save that is complete for the program may
  have lost both as well, until the kernel has written them back; and on a full
  stick a save may store a part of a text and say nothing. WholeFiles is about the
  other saves (`Torn`). What a window shows while others
  touch its file or the stick (`view` is "disturbed") may be anything, until the
  file is opened again; ViewIsFile and ListIsStick are about a window nobody has
  disturbed since. A "save as" that fails
  has already changed `current_path` (Control.gd:105): from then on save and
  delete act on a file the window does not show (`misnamed`, the exception in
  ViewIsFile and ActsOnShown). Reload lists the one directory written into
  the source (Control.gd:94), whatever directory the program had found.
* *A directory left locked stays locked*: neither driver can get the owner's mode
  back once the cleared one has been saved in its place (StaysLost).
* *The character device*: two programs that write at once leave a message of
  both texts, and a reader may reset the size another has just set; OwnMessage
  speaks of a program that is alone. rmmod does not wait for a program that has
  the device open (`CallsFreedCode`), `class_unregister()` and then
  `class_destroy()` free the class twice (the stage "wedged"), and the read
  call returns 0 in every case, so that a program has to look at its buffer.
* *The uevent daemon* runs the program for every announcement with "call" in its
  path, those of the module loader included, at loading and at unloading alike. It ends
  when its socket overflows while it waits for the program. It does not look at
  what `system()` returns, so that an announcement whose program could not be run
  is not tried again (`failed`, an exception in ValueArrives). On a mainline kernel
  an object outside a kset is not announced at all: `kobject_uevent()` fails, and
  with it init (`InitFails`). What arrives then is what the loader announces,
  which since 5.13 is nothing for an init that has failed; ValueArrives speaks of
  the announcements that are made.

## 7. Proofs

| Theorem | Says | By |
|---|---|---|
| SerialPauseProofs!TypeCorrect | types, and a worker past its lookup holds a task | `TypeOK /\ HoldsTask` is inductive |
| SerialPauseProofs!OneWorkerAtATime, UnloadIsSafe, NeverStuckForever | the safety of UltrasonicTrigger4, for any workers, processes, tty and sleep | under `Prompt`; see below |
| TimedPauseProofs!NobodyLeft | nobody is left stopped by UltrasonicTrigger2 or 3, for any delays | a stopped process has a worker that holds it; no assumption on time |
| TimedPauseProofs!FlagAdmitsOne, PausesAreWhole | the flag of UltrasonicTrigger3 lets one worker pause at a time and keeps pauses whole | under `Prompt`; see below |
| SerialPauseProofs!SystemImplementsParts | UltrasonicSystem implements SerialPause, fairness included, and the steps of the servo board | a step of the rest is a stutter of each part; the fairness of the module is a conjunct |
| SerialPauseProofs!SystemIsSafe | in the whole system workers are apart, unloading is safe and helloWorld is never left stopped unknown to the module | the theorems of the module, under `Prompt` |
| TimedPauseProofs!PausersLeaveNobody, PausersTyped | ppause and the netlink pausers leave nobody stopped when their workers are through, for any senders and workers | the lemmas about a worker of TimedPause |
| TimedPauseProofs!UnloadReleases, OncePausesFully | rmmod of ppause leaves nobody stopped, and its pause is whole, for any delay and latency | `Lone`; see below |
| ServoProofs!TypeCorrect, ServoIsNear | position in range and servo at most one increment off, for both sketches and any length of the sweep | positions are multiples of the increment, so that neither end is stepped over |
| ServoProofs!SketchesSweep | both sketches implement Sweep | step refinement, one case per branch |
| UsbPermProofs!TypeCorrect, LockedUnlessBound, BothLockUnlessBound | the directory is locked while nothing is bound, for any number of devices and interfaces | see below |
| UsbPermProofs!PermDriverLocks | perm-driver's directory is locked while it is loaded and has its owner's mode when it is not | one thread; the saved mode is the owner's between the two calls |
| UsbPermProofs!LostForEver | a mode that is lost is never had again, under either driver | where the mode is lost no step has anything but the cleared one to save or to restore |
| UsbPermProofs!OwnerIsServed, OriginalIsSaved | the owner's mode is in the directory during every visit, and it is what a disconnect saves, for any number of interfaces that come one after another | `Visit`; see below |
| UsbTriggerProofs!TypeCorrect, FlagImpliesStick, LaunchIsJustified | the safety of usb-trigger, for any number of sticks and programs | see below |
| UsbTriggerProofs!LaunchesSafely, LaunchesConsult | the same facts for all four modules, and the refinement of Consult | the invariant of usb-trigger holds of the others with nothing bound; step refinement |
| UsbTriggerProofs!NoDeviceEscapes, NotifierTypes | no device added while the notifier is registered, or being unregistered, goes unjudged, for any devices and list | `NewOnly`: the exception is the device the hub's thread has just added |
| FileEditorProofs!FilesAreWhole | a file holds the text of its last save unless that save was interrupted, met another, did not fit, or had not been written back when the stick was pulled, for any editors, names, mounts and texts | see below |
| FileEditorProofs!ViewsAreFiles, ListsAreSticks | a text opened or saved whole is that of its file, and a reloaded list that of the stick, until somebody else touches the one or the other, whatever had happened before | see below |
| FileEditorProofs!ActionsAreShown | save and delete act on the file that is shown, unless a "save as" has failed since | see below |
| SocketServerProofs!SocketIsKept, OneClientServed | the safety of the socket server, for any clients and backlog | `ReadOnce`: nobody has been read before the thread receives, its own client only after |
| KernelUserProofs!OwnMessageReturns, AllUndone | what a program alone reads, and what a load leaves, for any number of programs | `Apart`: a program that is alone is the only one inside; `Staged`: what is registered at each stage |
| KernelUserProofs!NothingLost | the daemon calls `system()` for every announcement of "call" unless one did not fit, for any size of socket | runs and what is queued add up to what was announced; see below |

*UltrasonicTrigger4.* Neither OneWorker nor UnloadSafe is inductive: nothing in
the state says that a worker is over when the reader wakes. `Sheltered` does:
a worker that runs is no younger than the sleep of the reader that started it,
`slept <= age[w]`. A worker's age never exceeds `Latency`, the reader wakes at
`SleepTicks`, and `Prompt` puts the one below the other (lemma AwakeMeansQuiet).
Hence the reader decides, ends and lets rmmod go on only when no worker is left.
For NeverStuck, `Accounted` says where a stopped process stands while a worker is
in the middle of its steps (it is the one `pid` names; `paused` is set or a
worker is about to set it, and none is about to clear it), and `Traceable` that
a worker's task is the one `pid` names unless `pid` was overwritten. As long as
no signal has gone to a freed task the conjunction is inductive.

*usb-perm-driver.* `Schedule` ties the place of a thread in the two functions to
the state of its interface or of the module; `SavedMode` says that a thread gets
to the restore only when a mode was saved; `Answerable` is the point: a directory
that is not locked has somebody to answer for it, an interface that is probing or
bound, or one that is leaving and has not yet cleared the mode. The clear of one
interface may precede the restore of another in any order; a restore is always
made by an interface that is probing, which is then bound, and whose disconnect
clears.

What a probe restores and a disconnect saves is the owner's mode only as long as
interfaces come one after another (`shared`, which is remembered, is false; then
`OneAtATime` holds). `Visit` follows the mode through such a visit: while the
interface is probing it is with the module and the directory is locked, from the
end of the probe it is in the directory, where the owner may change it, until the
disconnect has saved it, and then it is with the module again; between two
visits, and from the load to the first of them, `Waiting` holds. Nothing can be
said of an unload, which writes the mode back before the disconnect: the next
load then finds the owner's mode or loses it for good (`lost`). The proof has
one lemma for each of the actors: a thread inside the two functions, the owner,
the loader, and the USB core, whose calls begin and end the visits.

*usb-trigger.* `YesIsSeen` (an answer "USB connected" was prepared while a stick
was bound), with FlagHasStick, which is inductive once bound sets are empty
before registration.

*UltrasonicTrigger2 and 3.* `Kept` pairs stops and continues: a stopped process
is held by a worker past its stop and before its continue, whatever `pid` says
by then, since the worker keeps the task it found. That alone gives AllResumed,
however many workers overlap. The flag needs time: a worker that has not set it
yet was started in the sleep the reader is still in (`Sheltered`, which under
`Prompt` makes a reader that is awake see the flag of every worker that has a
signal left to send; one that has cleared the flag may still be returning), and `Timed` says that a stopped process has been stopped for as long as its only
worker has slept.

*ppause.* A worker of it does what a worker of TimedPause does (lemma SameWorker), so
`Kept` holds for the same reason. ReleasedOnUnload needs that no worker is left
when the module is gone: `Lone` says that the only worker there can be is the
one `task` points to, which is the one rmmod waits for. It also makes a pause
whole without any assumption on time: nobody else can end it. In the netlink
module, where `task` is the last of several workers, neither holds.

*The uevent daemon.* What is queued is counted by the places of the queue that hold
an announcement of "call", a finite set. Appending adds at most a place; taking
the head removes at most one and moves the others, a bijection (lemma
FromCallTail). The rest is arithmetic over one step of the loader or the daemon.

*The file editor.* `OneWriter` ties a file that is being written to the editors
that write it: a second opening or a pull makes the save `Torn`, so that a
complete save over an empty file is the only other way to end one, and a file
whose save is not `Torn` has at most one writer.
`WindowOK` ties a window's path, its title and its open file together, `UndisturbedOK`
what is known as long as nobody else has touched its file: a clean text is that
of the file, and a file being saved is empty. `ListOK` carries the list through
a save to a path that is in it already.

*The launchers.* A step of the handler that answers maps to a grant or a refusal,
and everything before it to a stutter. That the answer is given while the stick
is there is not visible when it is sent: what counts is when the flag was read,
so `Phase` takes the request as granted from there on.

Assumptions: those of the modules (named `...Assumption`, evaluated in every
run), and `Prompt` where it is written.

Every safety invariant and action property the passing runs check is proved. Only
checked, not proved, is what needs fairness, which is outside the prover's
reach: ServoRests, ServoMoves, Live, UnloadEnds, StopEnds, Answered,
UnregisterEnds, HubKeepsUp, OnlyUsersBlock and ValueArrives. SystemImplementsParts
brings the liveness of SerialPause into UltrasonicSystem, but not that of the
servo board, whose fairness is stated for another action. Type
invariants are proved in the modules that have proofs, as part of the inductive
invariant, and are therefore not checked again by their runs.

## 8. Left out on purpose

Users' own SIGSTOP and SIGCONT; sysfs bind and unbind; a tty in noncanonical
mode that returns part of a line; two programs that bind the same netlink
address; a `kernel_accept()` that fails (socket_mod.c:29, whose result is not
looked at); the reply buffer pause_mod.c:74 allocates and never frees;
`buffer[ret]` with a full read (serial_reader.c:101), since reports are not
bytes; directories of the stick (a file of FileEditor is a name); the user
pointer that device_write gives to `sprintf()`, which is taken to be readable; hubs
that call the notifier at the same time (the chain lets them: UsbNotify has one
hub's thread). Some sources do not build or run as they stand, and are modelled as
what they mean to be: `serialRead1.ino` has a stray `S` in lines 43 and 53,
`netlink-socket-3/kernel/netlink_mod.c` calls a function to look for a device that
the kernel does not have, and `user_app.c` lacks the definition of the device's
path.

## 9. Plan

Done, in this order: SerialReader and SerialPause with proofs; ServoSketch, Sweep
and UltrasonicSystem; PauseThread and its three users; DirPerms and its two
users; UsbTrigger; UsbNotify; SocketServer; then ServoRotate, NetlinkLaunch with
Consult, FileEditor, CharDevice and UeventCall, and the proofs of FileEditor,
TimedPause, SocketServer, CharDevice and of the refinement of Consult.

After those: OpenWhenBound and SavesOriginal, PauseOnce, UsbNotify and NoneLost, and
the composition UltrasonicSystem.

Left, should the project be taken up again: an abstract specification of a pause
that all the pausers implement, as Consult is of the launchers; the servo's
safety in UltrasonicSystem; a model of `usbReadWrite`'s walk over the open files
once it does something with them; the drivers that only log, once they keep state.
