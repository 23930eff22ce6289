# PerfWindow in TLA+

PerfWindow shows a machine's sensors. A Windows service, `sensord` (C#,
`src/sensord`), reads the hardware through LibreHardwareMonitor and writes one
JSON line per snapshot into a named pipe with a single instance; a dashboard and
a command line (Rust, `src/dashboard`) read it. The service is started on demand
and must end when its client leaves.

The program is small in algorithms and rich in waiting: synchronous calls into a
hardware library that may never return, two threads on one synchronous pipe
handle, a session that can end at any point of a start lasting seconds,
watchdogs over clocks that keep running while the machine sleeps. Around that
core lie a window with three modes, settings shared by several processes, a
command line, and five presentations of the same readings. The modules here model
all of these; TLC checks them on small instances and TLAPS proves the theorems
listed below for every value of the constants.

Run TLC as `tlc -config X.cfg M` and the proofs as `tlapm M_proofs.tla`.

## Inventory

| Part | State it keeps | Operations | Hard because | Correct when |
|---|---|---|---|---|
| Sensor session (`Service/SensorPipeWorker.cs`, `PipeServer.cs`, `Program.cs`) | session and host cancellation, the monitor, categories enabled, interval, watchdog, `FatalInit` | create, accept, hello, init, probe, passes, staged enable, teardown, watchdog, exit | two tasks and a timer; calls that never return; init that can only be abandoned | it always ends, leaks no monitor, writes nothing after it was told to stop, and tells a failed start from a lost client |
| Pipe client (`ipc/pipe.rs`, `ipc/mod.rs`, `ipc/process.rs`) | `SensorState`, three handles of one file object, the control channel | connect, reader and writer loops, `set_interval`, `shutdown`, `Drop` | a write waits behind a pending read of the same handle | a shutdown gets through, the feed dies only with its pipe, `latest_partial` is right |
| Hot plug (`TopologyDebounce.cs`, `TopologySignature.cs`, `ServeOne`) | baseline, candidate, tick counter, current monitor, disk information | a check every five passes, replacement of the monitor | every call of the replacement may throw | rebuilds are earned, take two sightings, and converge |
| Connect machine (`ipc/connect.rs`, `app.rs`) | phase, channel, `connect_rx`, `sensord`, `status` | three phases, events, frames that drain them, RETRY and RESPAWN | the service ends while a client reconnects; other clients; UAC | it settles, hands over one session, and names the right cause |
| Feed (`app.rs` `ingest_at`) | `latest`, `status`, `running_since`, `ingested_at`, `woke_at` | a frame takes the newest snapshot, two watchdogs | clocks run through sleep; silence is not death | frozen readings are never shown as running and a sleep is not silence |
| Update check (`update/check.rs`, `cache.rs`, `release.rs`, `source.rs`) | shared state, a cache file with a TTL | start-up check, manual check | both at once, rate limits, restarts | no stale update is offered, the cache survives, requests are saved |
| Update download (`update/download.rs`, `install.rs`, `ui/update_modal.rs`, `app.rs`) | modal phase, generation, outcome slot, temporary files | start, cancel, retry, finish, launch | workers that were abandoned finish later | only the current attempt launches an installer |
| Snapshot building (`SnapshotBuilder.cs`, `Snapshot.cs`) | none | one section per device class | sensors that glitch, devices that come and go, builders that throw | per-core arrays line up, every GPU has one card, a failed section takes no other with it |
| Windows readers (`WifiReader.cs`, `AtkReader.cs`, `BiosReader.cs`, `DiskInfoReader.cs`, `PagefileReader.cs`) | what failed once, what was found | WMI, registry, native calls | a failure remembered for the service's life | the screens agree on what is left |
| History (`history.rs`) | ring buffers, one per GPU by name and occurrence | record, read | wrap-around, a device that drops out | a sparkline is its own device's last samples in order |
| Drawing (`panels/`, `ui/fit.rs`, `ui/mod.rs`, `cli/report.rs`, `cli/live/`) | the plan cached for a card set and window, the zoom | cards, strip, footer, report, live view | five presentations written separately, a cached plan | they show the same values and colours; what is shown fits, what fits is shown |
| Window mode (`app.rs`, `strip_window.rs`, `ui/mini_strip.rs`, `main.rs`) | mode, level, rectangle to put back, the strip's style bits | enter, place, refresh and leave the strip, fullscreen, always on top | Win32 at once, viewport commands at the frame's end, frames of two passes, monitors that go | the full window comes back whole where it was, the strip settles, a kill loses no mode |
| Settings (`config.rs`, `ui/settings.rs`, `theme/system.rs`, `cli/path.rs`) | one file, a copy per window | load, save, every control | two windows, an editor, crashes inside a save, PATH workers in any order | a save survives crashes, the PATH follows its switch, the feed its interval, the theme Windows, notes open once |
| Command line (`cli/mod.rs`, `cli/live.rs`, `cli/args.rs`) | the sample held, the status line, the terminal | parse, gate, connect, report, watch, dashboard | a reader thread overwrites the state between two looks | what is printed is complete, new and settled; every end restores the terminal and closes the pipe |
| Start-up (`main.rs`) | - | window geometry, fallback to another renderer | - | in Window mode |
| Changelog viewer, loading screen, installer, site, CI | - | rendering and packaging | - | - |

The parts meet in five places: the pipe (session and client), the shared
`SensorState` (reader thread and frames), the channel of connect events (connect
thread and frames), the life of the service process (session, connect
machine, other clients), and the configuration file (windows, command line, editor,
installer).

## Modules

| Module | Models | Built on |
|---|---|---|
| `ServiceProcess` | the service seen from outside: process and pipe; an abstract specification | - |
| `SensorSession` | one session in full: worker, init tasks, control reader, watchdog, host, the client's reader and writer threads and the pipe between them | implements `ServiceProcess` |
| `Connect` | connect machine, channel, frames, RETRY and RESPAWN, other clients | extends `ServiceProcess` |
| `HotPlug` | staged categories, debounce, replacement of the monitor | - |
| `Feed` | the frames' ingestion with both watchdogs and sleeps | - |
| `UpdateDownload` | the update modal, one worker per attempt, the outcome slot, the files | - |
| `UpdateCheck` | the checks for a newer release, the shared state, the cache file | - |
| `WindowMode` | full window, fullscreen and strip: the passes of the UI, winit's deferred commands, the OS window, monitors, launches and kills | - |
| `Settings` | several windows over one configuration file: every control, the save in steps, PATH workers, the feed's interval, the Windows theme, the what's-new notes | - |
| `Cli` | a run of the command line from its arguments to its exit code | - |
| `SnapshotBuilder` | operators: hardware tree to snapshot, section by section | - |
| `Panels` | operators: snapshot to what each card, the strip, the footer, the report and the live view say | extends `SnapshotBuilder` |
| `Layouts` | operators: the window's grid with its plan, zoom and cache, and the live view's layout | extends `Panels` |
| `Readings` | drives those three: a tick of the service builds, the dashboard records and draws | extends `Layouts` |
| `MC...` | model values for TLC | the module named |
| `..._proofs` | theorems and proofs; `Update_proofs` has those of both `UpdateCheck` and `UpdateDownload`, `Clients_proofs` those of both `Connect` and `Cli`, for which the specifications of the second of each are named `DownloadSpec` and `CliSpec` | the module named |

### SensorSession

`worker` is where `ExecuteAsync` stands (`create`, `accept`, `hello`, `init`,
`probe`, then the serve loop's `first`, `top`, `refresh`, `emit`, `sent`, `enable`, `announce`,
`pause`, `fatalHealth` for the farewell of a failed start, and the finally's `teardown`, `closing`, `joining`, then `stopped` and `exited`); `monitor` and `disk` are the two
init tasks, which run beside it and may be abandoned; `control` is the task of
`ReadControlLoop`. `cancelled` is `sessionCts`, `hostStop` the host's token,
`watchdog` whether `ArmTeardownWatchdog` ran. `down` and `up` are the two
directions of the pipe. The downstream buffer holds `PipeCap` lines, and a
writer that finds it full waits. `reader` is *parked* in a pending read
or *between* two reads; `HandleFree` is the rule Windows gives a synchronous
handle: a write waits while a read is pending on the same file object. A cancel
(`CancelPendingRead`) reaches only a parked reader: `missed` remembers
that it found none.

What throws in the init or in a pass may be an `IOException`, which the handlers take for
a client that has left: the init then ends clean instead of by way of `fatalHealth`
(`ReadsAsDisconnect`), and the pass ends the session instead of pausing (`PassBreaks`).
`threw` is history, which of the two has happened.

A line carries only what the properties tell apart: a progress line its
`loading` category, a snapshot the number of categories its monitor had enabled.
A monitor call (construction, refresh, enable, disposal) is a step that may be
taken late, or never: no fairness is assumed for it, and the two properties
that need an answer from the hardware (`LoadingCompletes`, `SettingReachesService`)
have it as their hypothesis, `HardwareAnswers`.

### ServiceProcess

Six states: `stopped`, `starting`, `listening`, `held` by a client, `closing`
(the client has left) and `unpiped` (the process lives, its pipe does not).
`SensorSession` maps onto it through `Seen`; `ImplementsServiceProcess` is its
specification with its fairness: a start comes up or ends, a listening service
gets a client or gives up, and one whose client has left ends.

### Connect

`machine` is where the thread of `connect.rs` stands; `wait` and `sleep` last one
tick, a poll interval. `holder` says whose handles keep the pipe, `link` the
`alive` flag of the newest feed. A frame drains the channel (`Poll`) or, with no
machine, ingests (`Ingest`); the two are one call in the code, and splitting
them only adds interleavings with threads. Phase 1 waits for a busy pipe
`BusyTries` times, phase 3 polls `StartTries` times.
`sc start` is refused while the process is still there. `met`, `elevated` and
`swallowed` are history: what the machine met while it ran.

### HotPlug

One pass of `ServeOne` is a walk of `loop` from `refresh` to `emit` and back,
with every call that may throw a step of its own. `hardware` carries
whose list it is, so that a list of a closed monitor can be told; `sightings`
remembers what the last two checks saw.

### Feed

An `Instant` is its age in ticks of one frame interval, capped beyond every
threshold; `Never` is `None`, older than all. `Ingest` and `Adopt` are a
frame's `logic`; `Tick` needs a frame in between because the dashboard asks for a
repaint within every interval; `Sleep` ages everything with no frame in
between. `awake` and `quiet` are history. The thresholds keep their order only.

### UpdateDownload

A frame is `Poll` (`poll_download_outcome`) followed by one drawing of the modal
with at most one click (`DrawFrame`, `OpenModal`, `CloseModal`, ...); `frame` says
which of the two is next, or that the poll is about to launch; workers step in between. The strip draws no
modal, so its frame is `Poll` alone. An attempt is its generation; `cancelled`
holds a flag per attempt because the code allocates one for each, and
`disk[a]` the file named after attempt `a`, which outlives the process
(`Relaunch`). A transfer is `copying` (about to look at the flag) or
`reading` (in the read), chunk after chunk, for ever if the server wants it so.
A poll that finds the finished installer of the attempt on screen verifies the file
(`VerifyInstaller`) and then launches it by path (`LaunchInstaller`), which waits for the
elevation prompt: another program may replace the file in between (`swapped`, history), and
what is then at the path starts, although `install.rs:28` says that the check closes this
window; it narrows it. Three simplifications: "Later" in the banner is left out (it only hides
the button that opens the modal), removing a file succeeds (the handles Rust
opens share deletion), and a release without an installer cannot reach the modal
(`evaluate` refuses it).

### UpdateCheck

Check 0 is the one of the process start, the others are manual and ignore the
cache; each is a thread with its own `pc`. `state` is the shared `UpdateState`;
`cache` and `tmp` are the two files, and `handle` the file an open descriptor
writes to, which follows the file when it is renamed. A time is its age in ticks,
capped past the TTL; -1 is a time in the future. No time passes during a check
(hours against seconds). `answered`, `stepped` and `overlapped` are history: the
age of the last answer that could be saved, whether the clock was set back since,
and whether two checks have ever run at once. Releases are numbers; a tag the
parser refuses is a failed fetch, and never reaches the cache.

### WindowMode

One pass of `PerfApp::ui` is one action, `Pass`, with at most one key and one
click. `app` holds the fields of `PerfApp` that the modes use; `os` is what Windows
and winit hold: decorations, level, style bits, minimum size, rectangle. A pass
calls Win32 on `os` directly (`Attach`, `Refresh`, `Release`) and queues viewport
commands in `cmds`. `ApplyCommand` applies the first of them, rewriting the style at
each attribute change as winit does; until the queue is empty no pass runs and nothing
but the end of the process happens to the window, which may fall between two commands
(`Steady` is the window between two frames). A pass outside the strip that changes the zoom asks
for a second one
(`rerun`), before which nothing queued is applied: this is how a strip can be
placed while the commands that make it small are still waiting. Rectangles are
kinds on a monitor: the user's (`home`), the strip's `band`, a band whose height
winit has `clamped` to the minimum, a band Windows moved (`stray`), the whole
`screen`. `Disturb` is winit or another topmost window taking the style or the level
away; `FallBack` is the retry on wgpu; `entered` is history, the rectangle at the
time of entering. A pass saves at most twice (`Savers`), and either save may fail: it is
logged, the file stays as it was, and `unsaved` remembers it. The file names the monitor the
strip was placed on: when that one goes, `Refresh` moves the strip to another and leaves the
file alone (`pushed`, history), so the next launch is back on the first if it has returned.

### Settings

Each window is a process with its copy of the configuration, read at `Launch`
(`LaunchUnread` is the read that fails, which gives the defaults). The last step of the
launch is `RecordRun`, which decides on the what's-new notes and stamps the version; other
windows may load or save between the two. A control changes the copy and applies it live.
Both go on to a save: `SaveOpens`, `SaveWrites` and `SaveRenames`, or `SaveFails` at any of
the three, which is only logged. Other windows, the editor and an `Exit` come between
any two steps. After a read that fails, `RecordRun` writes the defaults over the file.
The handle of a save (`to`) follows its file when another save renames it.
Workers of the PATH switch wait in `workers` and take the lock in any order; each
applies what is wanted when it runs. `told` and `owed`, `pathBy`, `saver`, `unsaved`,
`overlapped` (two windows have had the temporary file open at once) and `crossed` (a window
has loaded while another showed notes it had yet to stamp) are history. Settings without an
effect outside the window are one set (`Plain`, those off their default).

### Cli

`stage` is where the main thread stands. `shared` is the `SensorState` that the
reader thread overwrites, one line of the service at a time; `Look` is one look at
it, so samples can be missed or seen twice. `late` says that `LOAD_TIMEOUT` has
passed, `stamped` whether samples carry `ts_ms` (without it, `PerSecond` samples
share a stamp). `put` is history: the last two samples printed or drawn. The
connect machine is the one of `Connect`; here it reports phases and ends in one of
its two ways.

### SnapshotBuilder, Panels, Layouts, Readings

The first three are pure: `Build` is `SnapshotBuilder.Build`, a section at a time;
`Panels` says for each card which stats it has and how they are coloured, and the
same for the strip, the footer, the report (`Text`) and the live view; `Layouts`
plans the grid and the terminal. Every value that is null, NaN or infinite is
`None`; numbers are whole points, cells, or thousandths of a zoom; wording is left out,
except that a stat is known by its name, and a word that is itself a reading (a disk's
type, the board's name and BIOS) is a row of its own (`Word`). A name lookup names the set of sensor
names its substring matches.

`Readings` is the state around them: what the readers remember (`atk`, `wlan`,
`diskInfo`, `bios`), the history, the cached plan (`fit`), the zoom. `Sample` is a
whole tick: `UpdateVisitor`'s pass over the hardware, with the upset of that tick,
the readers, `Build`, `History::record`, the frame. Upsets are sensors that glitch,
devices that fail and keep old values, devices gone, builders that throw, readers that
fail. Every sample arrives: delivery is the subject of `Feed` and `Cli`. `own` is
history, the last loads of each physical GPU.

`MCReadings` has a hybrid laptop (two kinds of cores, an integrated and a discrete
GPU, DIMMs, a battery, Wi-Fi, an ATK fan), a desktop without temperatures per core
on the graphics of its processor, which have memory of their own, and one with two graphics cards of the same name.

## Runs

| Run | Bounds | Shows |
|---|---|---|
| `session` | 2 categories, 2 lines of pipe, 1 interval request, 1 throwing pass | every interleaving of a session with its client, each hardware call free to hang: the safety properties, the refinement of `ServiceProcess`, shutdown, loading and settings. Two categories give a first, a middle and a last enable; two lines let a progress line and a snapshot queue, and the pipe fill |
| `hotplug` | a CPU, a GPU and a disk in 2 categories, a check every 2 passes, 3 changes, 1 throw | three changes let a device come, go and come back between checks; one throw hits each call of a replacement |
| `connect` | 4 busy waits, 3 polls, start within 2 ticks, teardown within 2, handles closed within 1, 1 failed open | the numbers keep the code's order: handles and teardown fit in the busy wait (8 s against 3.5 s and the stop), a start in the poll deadline |
| `connect_respawn` (violation) | as above, no failed open | a reconnect between the disposal of the pipe and the end of the process times out |
| `feed` | thresholds 5, 1 and 3, 2 sleeps longer than the silence limit | the watchdogs see hangs, ends and reconnects, and are not fooled by such sleeps |
| `update_download` | 2 attempts, 1 relaunch | launching, failing and abandoning, that a cancelled worker ends and an outcome is applied. Two attempts give an orphan beside the one on screen; a relaunch gives attempts that find files under their names. Files are replaced at any time, also between an installer's last check and its launch |
| `update_download_lost` (violation) | 2 attempts | the orphan's report overwrites the outcome of the attempt on screen |
| `update_check` | 1 manual check per process, TTL 1, 1 new release, 2 restarts, 1 step of the clock | three processes in a row: fresh, stale and foreign caches; two checks overlap or follow one another; a process ends anywhere, also in a write |
| `window` | 2 monitors, 2 plug changes, 1 disturbance or pass whose saves fail, 2 launches | all keys and clicks in any order. Two plug changes let the strip's monitor go and come back, one disturbance or failure hits each moment, a second launch starts from what a kill left on disk |
| `settings` | 2 windows, 1 plain switch, a click on the track at 100 %, a hand-edited opacity of 10, 2 changes, events (a feed that attaches is one) or failing file operations, 2 launches | two changes give one per window, two of one window (two PATH workers), or a change beside a feed, an edit, an upgrade, a read or save that fails, or a flip of the theme; two launches load and stamp in any order; 10 is below the legible minimum |
| `cli` | 8 tokens, up to 2 arguments, 2 categories, 6 samples, 2 to a second | all pairs of arguments, terminal and pipe, switch on and off. Six samples outlast the load and let both looks of a report miss and repeat |
| `readings` | 3 machines, 13 upsets, 5 screens, 4 samples, history of 2, 2 upsets or resizes | a device that goes in one sample returns in another with the history wrapped around; the screens are the design size, one a little lower (a change of zoom below one per cent), a column, a wide window, and one too low for any grid |

Each property of a passing run has a mutant of the model that breaks it; the
mutants stand before the definition they change, marked `Mutant:`.

### Fairness

`SensorSession!Fairness` is weak fairness of each thread that only needs
the operating system: worker steps between hardware calls, control reader,
timers, the client's threads. The writer contends with the reader for the file
object, which serves its waiters in turn: strong fairness. The hardware
steps (`HardwareStep`) have none; `HardwareAnswers` is the hypothesis of the two
properties that need it. The user and the client process owe nothing.
`Connect!FairSpec` lets the thread, time, frames and a starting or ending
service go on; the prompt, the buttons and the other clients owe nothing, and a
session of another client may last for ever. That a dropped session's handles
close within `Linger` ticks and its service ends within `Grace` is
what `session` shows of the end itself (`ImplementsServiceProcess`), with the code's
numbers for hardware that hangs (the watchdog's 3.5 s).
`Feed!FairSpec` lets frames and time go on: `logic` asks for a repaint within
the refresh interval, minimized or not. `HotPlug!FairSpec` lets the loop run.
`UpdateDownload!FairThreads` lets workers run (every connect and read of theirs
has a time limit) and frames be drawn, a launch included: it returns once its elevation prompt has been
answered or has timed out. Apart from that the user owes nothing, and the server need
not come to an end: `CancelledWorkersEnd` holds although it trickles. No liveness is stated of `UpdateCheck`.
`WindowMode!FairSpec` lets a frame that the strip has asked for come, and come
without input sooner or later, and the commands of a frame be applied: the strip asks for a repaint every second, and the user
does not press something in every frame. `Settings!FairSpec` lets a launch and a save
go on (`CallGoesOn`, one synchronous call each) and the theme be polled: frames keep coming,
as long as the window is not minimised (`os_light_flipped` is called from `ui`). `ThemeFollowsWindows`
is about such a window. `Cli!CliFairSpec` lets
the main thread look and the ninety seconds pass; service, user and terminal owe nothing.
`Readings` has safety properties only.

## What the runs found

- **A reconnect may find a service that is neither there nor gone**
  (`connect_respawn`): the pipe is disposed before the process ends, so the
  machine takes the service as not running, asks for elevation, and the service
  manager refuses the start.
- **An orphan can erase the outcome on screen** (`update_download_lost`): the slot
  has one place, and the modal then waits for ever on its progress screen. It
  takes two reports between two frames, which is likely only while the window is
  minimised and draws none.

Smaller disagreements between code and comments met while modelling, for which no
run is kept:

- the progress line before the first staged enable names "cpu"
  (`SensorPipeWorker.cs:407` against `ProgressMessage.cs:15`);
- a busy pipe is final while the connect machine polls (`connect.rs:131` against line 53);
- a sleep within the silence limit counts as silence, since the wake is noticed only
  between frames more than a minute apart (`app.rs:793` against line 150);
- two checks at once tear the cache (`cache.rs:91` against line 88), and two windows
  that save at once the configuration (`config.rs:215` against line 208): one temporary
  name for all. `TornByOverlap` and `SettingsSurvive` show that it takes the overlap;
- a configuration that cannot be read is taken for one with the defaults (`config.rs:197`), which
  the launch then saves over it;
- a fetch that fails leaves a file that an earlier process had under the same name
  (`download.rs:137` against line 84);
- a rate-limited check without a cache ends in Idle (`check.rs:125` against `state.rs:14`);
- a stale ATK instance is never dropped, because `InvokeDsts` swallows the exception that
  the comment at `AtkReader.cs:103` waits for (`AtkReader.cs:131`). The Wi-Fi reader too
  remembers one failed lookup for the service's life (`WifiReader.cs:56`);
- an `IOException` of the init, say of a library file that cannot be loaded, is taken for a
  client that left (`SensorPipeWorker.cs:197`): no health line and exit code 0, against line 205
  ("a throw during init must surface as a degraded health snapshot + non-zero exit");
- the footer's ASUS fans (`ui/mod.rs:331`) are missing from the report where no board temperature,
  board fan or voltage opens its Sensors section (`cli/report.rs:666` against line 1), and the strip shows the
  own memory of an integrated first GPU (`mini_strip.rs:156`), of which report and card tell the shared
  one (`cli/report.rs:428`). `ScreensAgree` names both as its conditions; the total memory, for which the
  report has no row, counts as told by its used and free together;
- an absent CPU load is a donut at zero (`panels/cpu.rs:29`) where the report has no row;
- the rectangle put back when the strip is left may lie on a monitor that has gone
  (`app.rs:620`);
- two graphics cards of one name swap histories when the first drops out (`history.rs:163`);
- the command line's deadline covers the load only: a service that hangs later with its
  pipe open keeps it waiting (`cli/mod.rs:196`).

## Theorems

All are of the form `Spec => []P` (or `Spec => [][A]_vars`), for any constants that satisfy the modules'
assumptions.

| Theorem | Argument |
|---|---|
| `SensorSession_proofs!TypeCorrect` | `TypeOK` strengthened by the pipe's capacity and the order of `enabled` and the categories |
| `SensorSession_proofs!PartialExactCorrect` | `PartialExact` is about what the reader did with lines sent earlier, so it is not inductive. `StreamInv` says of each snapshot still in the pipe that it is full if and only if the final progress line is ahead of it (or applied), and of the worker that the lines written so far announce exactly what is enabled. A line appended at one end and taken at the other keeps it |
| `SensorSession_proofs!ImplementsProcess` | each action is a step of `ServiceProcess` under `Seen`, or leaves `Seen` alone; `PipeInv` excludes an open pipe before `create` and after the exit |
| `SensorSession_proofs!AtMostOneLateLineCorrect`, `NoLeakedMonitorCorrect` | `PlaceInv` says where the worker can be while the monitor is the init tasks', the session's or nobody's, and that after a late line it is on its way to the next look at the token, or past it |
| `SensorSession_proofs!FatalIsStartupOnlyCorrect` | `StartInv`: a worker still starting, or one whose start failed, has put no line with readings into the pipe |
| `SensorSession_proofs!FeedDeathIsRealCorrect` | inductive with `PipeInv` |
| `HotPlug_proofs` (`TypeCorrect`, `TwoSightingsCorrect`, `SnapshotOfCurrentCorrect`) | one invariant: the candidate is the last sighting, there is no debounce before every category is enabled, and the carried list is the current monitor's until a replacement |
| `HotPlug_proofs!RebuildsAreEarnedCorrect` | `EarnedInv` counts a rebuild as paid for when it becomes due, not when it is made: `RebuildIsDue` while what is plugged in, listed or sighted differs from the baseline |
| `Clients_proofs!TypeCorrect` | each phase's waits stay within its tries |
| `Clients_proofs!OneSessionCorrect`, `LoadingHasMachineCorrect` | `ScreenInv`: the thread's last event is a failure or Ready, and it is either still in the channel or what the screen shows |
| `Clients_proofs!BusyMeansClientCorrect` | the ticks a machine has waited are ticks that the old handles and then the teardown have taken, and those are bounded by `Linger` and `Grace`, together less than `BusyTries` |
| `Update_proofs` (`DownloadTypeCorrect`, `OrphansAreCancelledCorrect`, `ShownAttemptIsLiveCorrect`) | `DownloadInv`: both properties together, with the fact that whoever has reported is done. An attempt leaves the screen only by way of a cancel or of its own report, so its worker never transfers uncancelled off screen |
| `Update_proofs` (`NoSurpriseLaunchCorrect`, `FailureIsOwnCorrect`) | action properties (`Spec => [][A]_vars`): only a poll launches or fails, it acts on the generation shown, and `DownloadInv` says that this attempt has reported and was not cancelled; between check and launch the frame stands still, so the progress screen stays that of the attempt and only another program can touch the file (`LaunchIsOwn`) |
| `Update_proofs!TypeCorrect`, `NeverOffersOldCorrect` | a step changes `version` only where it resets `state` |
| `Update_proofs!CheckingHasCheckCorrect` | the check that publishes Checking is under way, and every end of a check publishes something else |
| `Update_proofs!TornByOverlapCorrect` | `Lone`: unless checks have overlapped one is under way at most, what it has open is the temporary file, and what has the temporary name at the rename is whole |
| `Update_proofs!FetchIsDueCorrect` (an action property) | `Remembered`: the answer of the last `TTL` is whole in the cache, or a check that saves it is on its way; with `Lone`, since another check could tear it |
| `Feed_proofs!TypeCorrect`, `RunningIsWatchedCorrect` | what a frame can take was heard, so a full snapshot comes with the time of a line |
| `Feed_proofs!FrozenIsNotRunningCorrect` | `SilenceInv`: before the hand-over nothing of a whole load reaches a session; afterwards its last frame is at most a tick ago unless the machine has just slept; and the silence the watchdog measures is never shorter than the real one |
| `Feed_proofs!NoFalseAlarmCorrect` (an action property) | the silence a frame measures is no longer than the time awake (`AwakeIsMeasured`), under the hypothesis that every sleep is longer than `FeedSilence`: a shorter one does count as silence, as said above |
| `WindowMode_proofs!TypeCorrect`, `ModeIsOnDiskCorrect` | a pass is a composition of handlers, so the invariant is about their argument, the `World`, and each handler is shown to keep it: `AppInv` has the configuration on disk again at the end of each, unless its save has failed, and `OnItsMonitor` that a strip whose monitor has not gone stands on the one the configuration names |
| `WindowMode_proofs!FullWindowIsWholeCorrect` | most passes end with commands waiting, so it is about the future of the window: `QueueInv` says of each attribute what the last command for it, or the attribute itself if none waits, will leave (`Ends`). Appending what a handler sends sets the end of the attributes it names; applying the head keeps every end, for fullscreen and the rectangle together (`RectInv`), since leaving fullscreen brings the earlier rectangle back and may come before or after a move |
| `WindowMode_proofs!RestoresWhereItWasCorrect` | what is captured is the rectangle of a full window that nothing waits to move: a pass starts with an empty queue, and the second one of a frame finds only what its first one sent (`rerun => Clear(World)`); from then on `entered` and `app.restore` change together |
| `Settings_proofs!TypeCorrect` | each control writes a value its `clamp` or its list allows; strengthened by the budget of the world's events, which bounds the installed version, and by `ClosedInv`: a window that is not open keeps nothing |
| `Settings_proofs!IntervalFollowsCorrect` | inductive with the types: who changes the interval sends it or has no feed, and a feed starts with the one shown |
| `Settings_proofs!PathFollowsSwitchCorrect` | `PathInv`: the window that settled the PATH last is open, because a worker ends with its process |
| `Settings_proofs!SettingsSurviveCorrect` | `SaveInv`: until two saves overlap one window saves, and the temporary file is what that window has made of it so far, so the rename puts a whole file in place; a step that fails has touched the temporary file at most |
| `Settings_proofs!NotesOncePerUpgradeCorrect` | `UpgradeInv`: an opening still to come, from a file of an older build or a viewer not yet painted, is owed as well; a window past `RecordRun` carries the installed version, so what it saves owes nothing. One that has only loaded is owed what it is about to show, and is the only one (`OneTeller`) unless another has loaded meanwhile (`crossed`) |
| `Clients_proofs!SamplesAreSettledCorrect` | `StreamInv` (the latest sample is the last one sent), `HeldInv` (what the loop holds is whole and not older than the first whole one) and `PutInv` (what was put was held, and is older than what the next stage waits for) |
| `Clients_proofs!EndsCleanCorrect` | `EndInv` says at each stage what is still to be given back |
| `Readings_proofs!HistoryIsOwnCorrect` | `Tracks`: for each card of the machine, shown or not, the buffer under its name holds its last loads. A push into a full buffer overwrites the oldest sample and moves the start on, for every capacity (`PushKeeps`); and whatever fails or vanishes, the cards of a snapshot are some of the machine's, each once, under their own names (`SnapshotShown`), so a sample pushes each load into its own buffer and leaves the others alone (`RecordKeeps`) |
| `Readings_proofs!PlanIsCurrentCorrect` | a part of `WindowFits`. `PlanInv`: the cached plan is the one its key asks for, and its key is that of the frame. What the planner is given depends on the card set's signature only (`SignatureTells`), so equal keys have equal plans |

`NoFalseAlarmCorrect` is the one theorem with a hypothesis of its own; the run's sleeps
satisfy it. `Settings` is proved for any set of windows, of opacities typed or clicked, and of themes and
rates to pick, `Cli` for any number of categories and samples, `Readings` for any hardware trees. The
assumptions say that what is typed or clicked is within its range (a byte, a percentage, the
cards there are), that no window is called `NoWindow`, and that a hardware tree is a list in
which each graphics card has an identifier of its own.

Several of these state invariants that the runs no longer repeat (`TwoSightings`,
`SnapshotOfCurrent`, `LoadingHasMachine`, `RunningIsWatched`, `ShownAttemptIsLive`,
`FailureIsOwn`, `NeverOffersOld`, `FatalIsStartupOnly`, `FeedDeathIsReal` and the type
invariants): proved for every value of the constants, they need no small instance.

Only model-checked:

- every liveness property, with the fair part of `ImplementsServiceProcess`: fairness
  is out of the prover's reach;
- the type of `Cli`'s options: `parse` is a fold over the arguments, and what a fold
  computes for every list needs an induction over data. `Clients_proofs` leaves the options open
  where nothing depends on them;
- `ScreensAgree`, `SensorsKeepTheirPlace`, `TerminalFits` and, but for `PlanIsCurrent`,
  `WindowFits` of `Readings`, which are about what folds and `SelectSeq` compute over lists
  of any length: the library has no theorem about a fold's value, and one that is proved here
  would need the induction. (The cards of a snapshot are filtered by `Chosen` instead, a
  subsequence in closed form, so that `HistoryIsOwn` could be proved.)

## Not modelled

- The JSON, its fields and its parsing; a line that does not parse is skipped and
  changes nothing. The JSON report of the command line is the snapshot itself.
- The dev-mode child process over stdio (`sensord` without `--service`).
- The native calls of WMI, registry and libraries: their results are
  nondeterministic outcomes where they matter. What the readers remember is modelled.
- Painting: pixels, fonts, colours of a theme, animation, charts, sparklines as drawn, the
  loading screen and the changelog viewer's markdown. What is shown, where and with
  which severity is modelled.
- How the strip fits its items into its width (`mini_strip.rs`), the comparison
  of version strings (`update/release.rs`), the editing of the PATH list
  (`cli/path.rs`), the TOML text: one step or one value each.
- Installer, site and CI.

## Plan

1. Done: the sensor session and its abstract process, hot plug, connect, feed, update
   check and download, window modes, settings, command line, and the readings from the
   hardware to the screens.
2. Algorithms still taken as one step: versions, the PATH list, the strip's fitting.
3. Proofs: done for every safety property the runs check but the four of `Readings` that
   rest on folds. A closed form for sums and greedy rows would bring the rest of `WindowFits` into reach.

The set of runs is kept small (a dozen runs, forty properties): a component that is added brings one run, two small components may share one, and the
weaker of two properties about the same hazard gives way.
