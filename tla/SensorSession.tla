--------------------------- MODULE SensorSession ---------------------------
(***************************************************************************)
(* One session of the sensor service: the sensord worker that owns the     *)
(* single instance of the named pipe (SensorPipeWorker.cs), its control    *)
(* reader and its teardown watchdog, and the client at the other end       *)
(* (ipc/pipe.rs, ipc/mod.rs, ipc/process.rs), whose reader and writer      *)
(* threads share one synchronous pipe handle.                              *)
(*                                                                         *)
(* A line is what the properties tell apart: a progress line carries the   *)
(* category it names as loading, a snapshot the number of staged           *)
(* categories its monitor had enabled.  Category 0 stands for CPU and RAM, *)
(* which the constructor enables; 1..Stages are the staged ones in order,  *)
(* and Stages + 1 is a progress line's null.                               *)
(***************************************************************************)
EXTENDS Naturals, Sequences

CONSTANTS
  Stages,          \* number of staged categories (six in HardwareMonitor)
  PipeCap,         \* lines the 64 KB downstream buffer holds
  Intervals,       \* refresh intervals a client may ask for
  ValidIntervals,  \* those in 250..60000 ms, which the service accepts
  DefaultInterval, \* the service's initial 1000 ms
  MaxSets,         \* bound: interval requests of one client
  MaxFaults        \* bound: snapshot passes that throw

ASSUME StagesAssumption == Stages \in Nat \ {0}
ASSUME PipeCapAssumption == PipeCap \in Nat \ {0}
ASSUME IntervalsAssumption == ValidIntervals \subseteq Intervals
ASSUME BoundsAssumption == MaxSets \in Nat /\ MaxFaults \in Nat

VARIABLES
  worker,      \* where ExecuteAsync stands
  monitor,     \* the HardwareMonitor this session built
  disk,        \* the WMI disk scan that runs beside the construction
  enabled,     \* staged categories enabled so far
  interval,    \* _intervalMs
  cancelled,   \* sessionCts
  hostStop,    \* the host's stoppingToken
  control,     \* the control-reader task
  watchdog,    \* _teardownWatchdogArmed
  fatal,       \* FatalInit
  exitCode,    \* process exit code, None while it runs
  serverOpen,  \* the server's pipe handle
  down,        \* lines in the pipe towards the client
  up,          \* control messages in the pipe towards the service
  client,      \* the client process and its PipeSensord
  reader,      \* the client's reader thread
  writer,      \* the client's control-writer thread
  queue,       \* the mpsc channel that feeds the writer
  sender,      \* PipeSensord.control is Some
  alive,       \* SensorState.alive
  progress,    \* SensorState.progress: the loading category, or Nothing
  latest,      \* SensorState.latest: categories in it, or Nothing
  partial,     \* SensorState.latest_partial
  sets,        \* interval requests made (bounds the model)
  missed,      \* history: the shutdown found no pending read to cancel
  asked,       \* history: the last valid interval the client asked for
  faults,      \* passes that threw (bounds the model)
  threw,       \* history: the init threw, or a pass an IOException
  late         \* history: serve-loop lines written after the cancellation

workerVars == <<worker, monitor, disk, enabled>>
endVars    == <<cancelled, hostStop, watchdog, fatal, exitCode>>
feedVars   == <<alive, progress, latest, partial>>
setVars    == <<sets, asked, missed>>
faultVars  == <<faults, threw>>
threadVars == <<reader, writer, queue, sender>>
vars == <<worker, monitor, disk, enabled, interval, cancelled, hostStop,
          control, watchdog, fatal, exitCode, serverOpen, down, up, client,
          reader, writer, queue, sender, alive, progress, latest, partial,
          sets, asked, missed, faults, threw, late>>

-----------------------------------------------------------------------------
Cpu        == 0
Null       == Stages + 1            \* progress: no category is loading
HealthOnly == Stages + 1            \* snapshot: the fatal-init one, no readings
Nothing    == Stages + 2            \* no progress line or no snapshot so far
Running    == "running"

Line == [kind : {"progress", "snap"}, cat : 0..Stages + 1]

Message == Intervals \cup {"shutdown"}

\* The client's end of the pipe stays open while any of its three handles
\* does: the reader's, the writer's, and the canceller a live PipeSensord keeps.
ClientOpen ==
  \/ client = "attached"
  \/ client = "detached" /\ (reader # "ended" \/ writer # "ended")

CanWrite == ClientOpen /\ Len(down) < PipeCap

Init ==
  /\ worker = "create" /\ monitor = "none" /\ disk = "idle" /\ enabled = 0
  /\ interval = DefaultInterval
  /\ cancelled = FALSE /\ hostStop = FALSE /\ watchdog = FALSE
  /\ fatal = FALSE /\ exitCode = Running
  /\ control = "none" /\ serverOpen = FALSE /\ down = <<>> /\ up = <<>>
  /\ client = "absent" /\ reader = "none" /\ writer = "none"
  /\ queue = <<>> /\ sender = FALSE
  /\ alive = FALSE /\ progress = Nothing /\ latest = Nothing
  /\ partial = FALSE
  /\ sets = 0 /\ asked = DefaultInterval /\ missed = FALSE
  /\ faults = 0 /\ threw = "no" /\ late = 0

-----------------------------------------------------------------------------
(* The worker, up to the serve loop: SensorPipeWorker.ExecuteAsync.        *)

\* The worker moves to `to'; nothing else of the session does.
Goto(to) ==
  /\ worker' = to
  /\ UNCHANGED <<monitor, disk, enabled, interval, endVars, control, serverOpen,
                 down, up, client, threadVars, feedVars, setVars, faultVars, late>>

\* AutoFlush: a line is in the pipe's buffer once WriteLineAsync completes.
Emit(line, to) ==
  /\ CanWrite
  /\ down' = Append(down, line)
  /\ late' = IF cancelled /\ worker \in {"emit", "announce"} THEN late + 1 ELSE late
  /\ worker' = to

CreatePipe ==
  /\ worker = "create"
  /\ worker' = "accept" /\ serverOpen' = TRUE
  /\ UNCHANGED <<monitor, disk, enabled, interval, endVars, control, down, up,
                 client, threadVars, feedVars, setVars, faultVars, late>>

FatalTo(to) ==
  /\ worker' = to /\ fatal' = TRUE
  /\ UNCHANGED <<disk, enabled, interval, cancelled, hostStop, watchdog,
                 exitCode, control, serverOpen, down, up, client, threadVars,
                 feedVars, setVars, faults, late>>

CreateFails ==
  worker = "create" /\ FatalTo("teardown") /\ UNCHANGED <<monitor, threw>>

\* No client within 30 s, or the host stops first: a clean end.
AcceptEnds ==
  /\ worker = "accept"
  /\ client = "absent" \/ hostStop
  /\ Goto("teardown")

AcceptFails ==
  worker = "accept" /\ FatalTo("teardown") /\ UNCHANGED <<monitor, threw>>

\* The control reader starts before any LibreHardwareMonitor work.
AcceptClient ==
  /\ worker = "accept" /\ client # "absent"
  /\ worker' = "hello" /\ control' = "reading"
  /\ UNCHANGED <<monitor, disk, enabled, interval, endVars, serverOpen, down, up,
                 client, threadVars, feedVars, setVars, faultVars, late>>

\* WriteProgress("cpu", ...), then both init tasks start.
Hello ==
  /\ worker = "hello"
  /\ Emit([kind |-> "progress", cat |-> Cpu], "init")
  /\ monitor' = "opening" /\ disk' = "running"
  /\ UNCHANGED <<enabled, interval, endVars, control, serverOpen, up, client,
                 threadVars, feedVars, setVars, faultVars>>

\* A write to a client that has left throws IOException: the session ends.
WriteBroken ==
  /\ worker \in {"hello", "emit", "announce"}
  /\ ~ClientOpen
  /\ Goto("teardown")

\* Computer.Open returns or throws; an abandoned one is disposed on completion.
MonitorTask ==
  /\ worker # "exited"
  /\ \/ monitor = "opening" /\ monitor' \in {"built", "faulted"}
     \/ monitor = "orphan" /\ monitor' \in {"disposed", "none"}
  /\ UNCHANGED <<worker, disk, enabled, interval, endVars, control, serverOpen,
                 down, up, client, threadVars, feedVars, setVars, faultVars, late>>

\* DiskInfoReader.Read swallows a WMI failure, so the scan can only stall.
DiskTask ==
  /\ worker # "exited" /\ disk = "running"
  /\ disk' = "done"
  /\ UNCHANGED <<worker, monitor, enabled, interval, endVars, control,
                 serverOpen, down, up, client, threadVars, feedVars, setVars,
                 faultVars, late>>

\* Task.WhenAll: it waits for both tasks, also when one has already failed.
InitCompleted == monitor \in {"built", "faulted"} /\ disk = "done"

\* Mutant: only a construction still under way is taken care of.
AbandonedOpenOnly == IF monitor = "opening" THEN "orphan" ELSE monitor

\* AbandonMonitorInit: the continuation disposes a late success at once when
\* the construction has already finished.
Abandoned == CASE monitor = "opening" -> "orphan"
               [] monitor = "built"   -> "disposed"
               [] OTHER               -> "none"

\* WaitAsync(sessionCt) abandons the init.
InitAbandoned ==
  /\ worker = "init" /\ cancelled
  /\ worker' = "teardown" /\ monitor' = Abandoned
  /\ UNCHANGED <<disk, enabled, interval, endVars, control, serverOpen, down, up,
                 client, threadVars, feedVars, setVars, faultVars, late>>

\* Any IOException of the init is taken for a client that has left, also that of
\* a file Computer.Open does not find or cannot load: a clean end.
ReadsAsDisconnect ==
  /\ worker' = "teardown"
  /\ UNCHANGED <<disk, enabled, interval, endVars, control, serverOpen, down, up,
                 client, threadVars, feedVars, setVars, faults, late>>

InitThrows == threw' = "init" /\ (FatalTo("fatalHealth") \/ ReadsAsDisconnect)

InitFaults ==
  /\ worker = "init" /\ InitCompleted /\ monitor = "faulted"
  /\ monitor' = Abandoned /\ InitThrows

\* Ownership moves to monitorRef.
InitSucceeds ==
  /\ worker = "init" /\ InitCompleted /\ monitor = "built"
  /\ worker' = "probe" /\ monitor' = "live"
  /\ UNCHANGED <<disk, enabled, interval, endVars, control, serverOpen, down, up,
                 client, threadVars, feedVars, setVars, faultVars, late>>

\* The one refresh before the first snapshot, and the PawnIO probe; a throw may
\* also come from ServeOne's first lines, ahead of its loop.
ProbeReturns == worker = "probe" /\ Goto("first")

ProbeThrows == worker = "probe" /\ InitThrows /\ UNCHANGED monitor

\* TryWriteFatalHealth: best effort.
FatalHealth ==
  /\ worker = "fatalHealth"
  /\ \/ /\ Emit([kind |-> "snap", cat |-> HealthOnly], "teardown")
        /\ UNCHANGED <<monitor, disk, enabled, interval, endVars, control,
                       serverOpen, up, client, threadVars, feedVars, setVars, faultVars>>
     \/ Goto("teardown")

-----------------------------------------------------------------------------
(* The serve loop: SensorPipeWorker.ServeOne.                              *)

\* The head of the loop; the first pass carries the init refresh's list.
BeginPass ==
  \/ worker = "top"   /\ Goto(IF cancelled THEN "teardown" ELSE "refresh")
  \/ worker = "first" /\ Goto(IF cancelled THEN "teardown" ELSE "emit")

\* Refresh returns.  Every fifth pass may also replace the monitor by a freshly
\* built, complete one; HotPlug models that, and here it leaves a live monitor
\* with nothing pending.
RefreshReturns ==
  worker = "refresh" /\ Goto(IF cancelled THEN "teardown" ELSE "emit")

\* Refresh, the rebuild, Build or Serialize throws.
InPass ==
  /\ worker \in {"refresh", "emit"}
  /\ UNCHANGED <<monitor, disk, enabled, interval, endVars, control, serverOpen,
                 down, up, client, threadVars, feedVars, setVars, late>>

\* Mutant: every throw of a pass ends the session.
PassThrowsOut ==
  /\ InPass /\ faults < MaxFaults
  /\ worker' = "teardown" /\ faults' = faults + 1 /\ UNCHANGED threw

\* Log and pause a second.
PassThrows ==
  /\ InPass /\ faults < MaxFaults
  /\ worker' = "pause" /\ faults' = faults + 1 /\ UNCHANGED threw

\* An IOException is not told from that of the write: it ends the session.
PassBreaks ==
  /\ InPass
  /\ worker' = "teardown" /\ threw' = "pass" /\ UNCHANGED faults

EmitSnapshot ==
  /\ worker = "emit"
  /\ Emit([kind |-> "snap", cat |-> enabled], "sent")
  /\ UNCHANGED <<monitor, disk, enabled, interval, endVars, control, serverOpen,
                 up, client, threadVars, feedVars, setVars, faultVars>>

\* Mutant: no re-check of the token.
AfterSnapshotUnchecked == IF enabled < Stages THEN "enable" ELSE "pause"

\* Do not start a multi-second enable for a client that asked to shut down.
AfterSnapshot ==
  CASE cancelled                      -> "teardown"
    [] ~cancelled /\ enabled < Stages -> "enable"
    [] OTHER                          -> "pause"

SnapshotSent == worker = "sent" /\ Goto(AfterSnapshot)

\* Mutant: a category that throws stays pending.
EnableRetries ==
  /\ worker = "enable"
  /\ enabled' \in {enabled, enabled + 1} /\ worker' = "announce"
  /\ UNCHANGED <<monitor, disk, interval, endVars, control, serverOpen, down, up,
                 client, threadVars, feedVars, setVars, faultVars, late>>

\* EnableNextCategory: a category that throws is skipped, and counts as done.
EnableNextCategory ==
  /\ worker = "enable"
  /\ enabled' = enabled + 1 /\ worker' = "announce"
  /\ UNCHANGED <<monitor, disk, interval, endVars, control, serverOpen, down, up,
                 client, threadVars, feedVars, setVars, faultVars, late>>

\* WriteProgress(monitor): names the category whose enable runs next.
Announce ==
  /\ worker = "announce"
  /\ Emit([kind |-> "progress", cat |-> enabled + 1], "top")
  /\ UNCHANGED <<monitor, disk, enabled, interval, endVars, control, serverOpen,
                 up, client, threadVars, feedVars, setVars, faultVars>>

\* Task.Delay, cut short by the session's cancellation.
PauseEnds == worker = "pause" /\ Goto(IF cancelled THEN "teardown" ELSE "top")

-----------------------------------------------------------------------------
(* The end of the session: ExecuteAsync's finally, the watchdog, the host. *)

\* Mutant: the watchdog is left to RequestSessionEnd, which not every end passes.
TeardownUnwatched == worker = "teardown" /\ Goto("closing")

Teardown ==
  /\ worker = "teardown"
  /\ worker' = "closing" /\ watchdog' = TRUE
  /\ UNCHANGED <<monitor, disk, enabled, interval, cancelled, hostStop, fatal,
                 exitCode, control, serverOpen, down, up, client, threadVars,
                 feedVars, setVars, faultVars, late>>

\* Monitor.Dispose (Computer.Close), then the pipe.
CloseSession ==
  /\ worker = "closing"
  /\ worker' = "joining" /\ serverOpen' = FALSE
  /\ monitor' = IF monitor = "live" THEN "disposed" ELSE monitor
  /\ UNCHANGED <<disk, enabled, interval, endVars, control, down, up, client,
                 threadVars, feedVars, setVars, faultVars, late>>

\* The control reader is awaited for 2 s at most; then StopApplication.
JoinControl == worker = "joining" /\ Goto("stopped")

ExitProcess ==
  /\ worker' = "exited" /\ exitCode' = IF fatal THEN "1" ELSE "0"
  /\ serverOpen' = FALSE /\ control' = "ended"
  /\ UNCHANGED <<monitor, disk, enabled, interval, cancelled, hostStop, watchdog,
                 fatal, down, up, client, threadVars, feedVars, setVars, faultVars,
                 late>>

\* host.Run returns once the worker is done; Main's exit code.
HostExits == worker = "stopped" /\ ExitProcess

\* TeardownGrace runs out: Environment.Exit, whatever the worker is doing.
WatchdogFires == worker # "exited" /\ watchdog /\ ExitProcess

\* The SCM stops the service: stoppingToken, linked into the session's.
HostStops ==
  /\ worker # "exited" /\ ~hostStop
  /\ hostStop' = TRUE /\ cancelled' = TRUE
  /\ UNCHANGED <<worker, monitor, disk, enabled, interval, control, watchdog,
                 fatal, exitCode, serverOpen, down, up, client, threadVars,
                 feedVars, setVars, faultVars, late>>

\* The host's own shutdown timeout ends a worker that does not return.
HostStopTimesOut == worker # "exited" /\ hostStop /\ ExitProcess

-----------------------------------------------------------------------------
(* The control reader: SensorPipeWorker.ReadControlLoop.                   *)

\* RequestSessionEnd
EndSession ==
  /\ cancelled' = TRUE /\ watchdog' = TRUE /\ control' = "ended"
  /\ UNCHANGED <<worker, monitor, disk, enabled, hostStop, fatal, exitCode,
                 serverOpen, down, client, threadVars, feedVars, setVars, faultVars,
                 late>>

\* Mutant: the interval is parsed and dropped.
AdoptNothing(ms) == interval

\* An interval outside 250..60000 ms is ignored.
Adopt(ms) == IF ms \in ValidIntervals THEN ms ELSE interval

\* One line: a shutdown ends the session; an interval in range is adopted, and
\* the loop's head then sees a cancellation it could not see while blocked.
ReadControl ==
  /\ control = "reading" /\ up # <<>> /\ serverOpen
  /\ up' = Tail(up)
  /\ IF Head(up) = "shutdown"
     THEN EndSession /\ UNCHANGED interval
     ELSE /\ interval' = Adopt(Head(up))
          /\ IF cancelled
             THEN EndSession
             ELSE UNCHANGED <<workerVars, endVars, control, serverOpen, down,
                              client, threadVars, feedVars, setVars, faultVars, late>>

\* Client EOF.
ControlEof ==
  /\ control = "reading" /\ up = <<>> /\ serverOpen /\ ~ClientOpen
  /\ EndSession /\ UNCHANGED <<interval, up>>

\* The teardown disposed the pipe under the blocking ReadLine: seen either as
\* IOException, which asks for the session's end again, or ObjectDisposed.
ControlDisposed ==
  /\ control = "reading" /\ ~serverOpen
  /\ \/ EndSession /\ UNCHANGED <<interval, up>>
     \/ /\ control' = "ended"
        /\ UNCHANGED <<workerVars, interval, endVars, serverOpen, down, up,
                       client, threadVars, feedVars, setVars, faultVars, late>>

-----------------------------------------------------------------------------
(* The client: ipc/pipe.rs.                                                *)

serverSide ==
  <<workerVars, interval, endVars, control, serverOpen, faultVars, late>>

\* open_pipe_at and start_reader: one instance, so one client.
ClientConnects ==
  /\ client = "absent" /\ serverOpen
  /\ client' = "attached" /\ reader' = "between" /\ writer' = "idle"
  /\ sender' = TRUE /\ alive' = TRUE
  /\ UNCHANGED <<serverSide, down, up, queue, progress, latest, partial, setVars>>

ThreadsRun == client \in {"attached", "detached"}

\* The reader enters a blocking ReadFile, which holds the file object.
ReaderParks ==
  /\ ThreadsRun /\ reader = "between"
  /\ reader' = "parked"
  /\ UNCHANGED <<serverSide, down, up, client, writer, queue, sender, feedVars,
                 setVars>>

\* Mutant: any progress line marks a snapshot partial, the final one too.
AnyProgress == progress # Nothing

\* The last progress line named a category as loading.
StillLoading == progress \notin {Null, Nothing}

\* SensorState::apply
Apply(line) ==
  /\ UNCHANGED alive
  /\ \/ /\ line.kind = "snap"
        /\ latest' = line.cat
        /\ partial' = StillLoading
        /\ UNCHANGED progress
     \/ /\ line.kind = "progress"
        /\ progress' = line.cat
        /\ UNCHANGED <<latest, partial>>

ReaderTakesLine ==
  /\ ThreadsRun /\ reader = "parked" /\ down # <<>>
  /\ down' = Tail(down) /\ reader' = "between"
  /\ Apply(Head(down))
  /\ UNCHANGED <<serverSide, up, client, writer, queue, sender, setVars>>

\* EOF or a broken pipe: what the server wrote before closing is read first.
FeedEnded == down = <<>> /\ ~serverOpen

ReaderEof ==
  /\ ThreadsRun /\ reader = "parked" /\ FeedEnded
  /\ reader' = "ended" /\ alive' = FALSE
  /\ UNCHANGED <<serverSide, down, up, client, writer, queue, sender, progress,
                 latest, partial, setVars>>

\* PipeSensord::set_interval, from the settings or once on Ready.
SetInterval(ms) ==
  /\ client = "attached" /\ sender /\ sets < MaxSets
  /\ sets' = sets + 1
  /\ asked' = IF ms \in ValidIntervals THEN ms ELSE asked
  /\ IF writer = "ended"
     THEN sender' = FALSE /\ UNCHANGED queue
     ELSE queue' = Append(queue, ms) /\ UNCHANGED sender
  /\ UNCHANGED <<serverSide, down, up, client, reader, writer, feedVars, missed>>

\* The writer's WriteFile waits for the file object: a pending read holds it.
HandleFree == reader # "parked"

\* spawn_control_writer: one message, and none after a shutdown.
WriterSends ==
  /\ ThreadsRun /\ writer = "idle" /\ queue # <<>> /\ HandleFree
  /\ queue' = Tail(queue)
  /\ IF serverOpen
     THEN /\ up' = Append(up, Head(queue))
          /\ writer' = IF Head(queue) = "shutdown" THEN "ended" ELSE "idle"
          /\ UNCHANGED alive
     ELSE writer' = "ended" /\ alive' = FALSE /\ UNCHANGED up
  /\ UNCHANGED <<serverSide, down, client, reader, sender, progress, latest,
                 partial, setVars>>

\* Mutant: shutdown leaves the pending read alone.
CancelNothing == UNCHANGED <<reader, alive>>

\* CancelIoEx: a pending read fails, and its failure ends the reader.
CancelPendingRead ==
  IF reader = "parked" /\ down = <<>>
  THEN reader' = "ended" /\ alive' = FALSE
  ELSE UNCHANGED <<reader, alive>>

\* PipeSensord::shutdown: queue the shutdown, close the channel, and cancel a
\* read that is pending.  A reader between two reads is not reached.
Shutdown ==
  /\ client = "attached"
  /\ client' = "detached" /\ sender' = FALSE
  /\ queue' = IF sender /\ writer # "ended" THEN Append(queue, "shutdown") ELSE queue
  /\ CancelPendingRead
  /\ missed' = ~(reader = "parked" /\ down = <<>>)
  /\ UNCHANGED <<serverSide, down, up, writer, progress, latest, partial, sets, asked>>

\* The client process ends, with or without a shutdown: its handles close.
ClientExits ==
  /\ ThreadsRun
  /\ client' = "gone" /\ reader' = "ended" /\ writer' = "ended"
  /\ queue' = <<>> /\ sender' = FALSE /\ alive' = FALSE
  /\ UNCHANGED <<serverSide, down, up, progress, latest, partial, setVars>>

Terminated == worker = "exited" /\ ~ThreadsRun /\ UNCHANGED vars

-----------------------------------------------------------------------------
\* Steps of the worker that no hardware call can hold up.
WorkerStep ==
  \/ CreatePipe \/ CreateFails \/ AcceptEnds \/ AcceptFails \/ AcceptClient
  \/ Hello \/ WriteBroken \/ InitAbandoned \/ InitFaults \/ InitSucceeds
  \/ FatalHealth \/ BeginPass \/ EmitSnapshot \/ SnapshotSent \/ Announce
  \/ PauseEnds \/ Teardown \/ JoinControl \/ HostExits

\* Calls into LibreHardwareMonitor and WMI, which may stall for good.
HardwareStep ==
  \/ MonitorTask \/ DiskTask \/ ProbeReturns \/ ProbeThrows \/ RefreshReturns
  \/ PassThrows \/ PassBreaks \/ EnableNextCategory \/ CloseSession

ControlStep == ReadControl \/ ControlEof \/ ControlDisposed
ReaderStep == ReaderParks \/ ReaderTakesLine \/ ReaderEof

Next ==
  \/ WorkerStep \/ HardwareStep \/ ControlStep
  \/ WatchdogFires \/ HostStops \/ HostStopTimesOut
  \/ ClientConnects \/ ReaderStep \/ WriterSends
  \/ \E ms \in Intervals : SetInterval(ms)
  \/ Shutdown \/ ClientExits \/ Terminated

\* The code's own threads and timers run; the hardware is not trusted to
\* answer.  The writer contends with the reader for the file object, which
\* grants every waiter in turn: strong fairness.
Fairness ==
  /\ WF_vars(WorkerStep) /\ WF_vars(ControlStep)
  /\ WF_vars(WatchdogFires) /\ WF_vars(HostStopTimesOut)
  /\ WF_vars(ReaderStep) /\ SF_vars(WriterSends)

Spec == Init /\ [][Next]_vars
FairSpec == Spec /\ Fairness

\* What the load and the settings need besides: every hardware call returns.
HardwareAnswers == WF_vars(HardwareStep)

-----------------------------------------------------------------------------
(* Properties.                                                             *)

WorkerState ==
  {"create", "accept", "hello", "init", "probe", "fatalHealth", "first", "top",
   "refresh", "emit", "sent", "enable", "announce", "pause", "teardown",
   "closing", "joining", "stopped", "exited"}

DataOK ==
  /\ worker \in WorkerState
  /\ monitor \in {"none", "opening", "built", "faulted", "live", "orphan",
                  "disposed"}
  /\ disk \in {"idle", "running", "done"}
  /\ enabled \in 0..Stages
  /\ interval \in ValidIntervals \cup {DefaultInterval}
  /\ exitCode \in {Running, "0", "1"}
  /\ control \in {"none", "reading", "ended"}
  /\ down \in Seq(Line) /\ up \in Seq(Message)
  /\ client \in {"absent", "attached", "detached", "gone"}
  /\ reader \in {"none", "between", "parked", "ended"}
  /\ writer \in {"none", "idle", "ended"}
  /\ queue \in Seq(Message)
  /\ progress \in 0..Stages + 2 /\ latest \in 0..Stages + 2
  /\ sets \in 0..MaxSets /\ asked \in ValidIntervals \cup {DefaultInterval}
  /\ faults \in 0..MaxFaults /\ threw \in {"no", "init", "pass"} /\ late \in Nat

FlagsOK ==
  /\ cancelled \in BOOLEAN /\ hostStop \in BOOLEAN /\ watchdog \in BOOLEAN
  /\ fatal \in BOOLEAN /\ serverOpen \in BOOLEAN /\ sender \in BOOLEAN
  /\ alive \in BOOLEAN /\ partial \in BOOLEAN /\ missed \in BOOLEAN

\* The variables have their types.
TypeOK == DataOK /\ FlagsOK

\* The snapshot the client shows is marked partial exactly when some category
\* was still to be enabled as it was taken (or it is the fatal-init one): the
\* mark is made by the reader, from a line that left the worker earlier.
PartialExact == latest # Nothing => (partial <=> latest # Stages)

\* Once the session is cancelled the serve loop writes at most one more line: every
\* long call is followed by a look at the token before the next write.
AtMostOneLateLine == late <= 1

\* When the worker returns, its monitor is disposed or was abandoned to the
\* continuation of a construction still under way; none is left open.
NoLeakedMonitor ==
  worker \in {"joining", "stopped"} => monitor \in {"none", "orphan", "disposed"}

\* A client that did not ask to leave sees its feed die only when the service
\* has closed the pipe; neither thread gives a live session up.
FeedDeathIsReal == client = "attached" /\ ~alive => ~serverOpen

\* FatalInit, hence exit code 1, is for a failed start: a session that has sent
\* a reading ends with 0 whatever happens to it later.
IsReading(line) == line.kind = "snap" /\ line.cat # HealthOnly
FatalIsStartupOnly ==
  fatal => /\ latest \in {Nothing, HealthOnly}
           /\ \A i \in DOMAIN down : ~IsReading(down[i])

\* A shutdown that finds the reader's read pending, as it does against a service
\* that has fallen silent, ends the service even if the hardware never answers.
ShutdownReachesSilentService == (client = "detached" /\ ~missed) ~> (worker = "exited")

\* With hardware that answers, a client that stays gets the full set of sensors,
\* through passes and enables that throw, unless the session was ended, the init
\* threw or a pass threw an IOException.
LoadingCompletes ==
  HardwareAnswers =>
    (control = "reading" ~>
       (latest = Stages /\ ~partial) \/ cancelled \/ threw # "no"
         \/ client # "attached")

\* With hardware that answers, the last valid interval a client asked for is the
\* one the service uses, though the request waits behind the pending read.
SettingReachesService ==
  HardwareAnswers =>
    \A ms \in ValidIntervals :
      asked = ms ~> interval = ms \/ asked # ms \/ ~serverOpen
                    \/ cancelled \/ fatal \/ client # "attached"

\* What a client that only sees the process and its pipe makes of the state.
Seen ==
  IF worker = "exited" THEN "stopped"
  ELSE IF worker = "create" THEN "starting"
  ELSE IF ~serverOpen THEN "unpiped"
  ELSE IF client = "absent" THEN "listening"
  ELSE IF ClientOpen THEN "held"
  ELSE "closing"

\* The session implements what ServiceProcess promises, with hardware calls that
\* may never return: it comes up, accepts one client, and once that client's
\* handles are closed or the pipe is gone it ends.
Process == INSTANCE ServiceProcess WITH svc <- Seen
ImplementsServiceProcess == Process!SvcFairSpec

-----------------------------------------------------------------------------
(* The inductive invariant behind PartialExact: what the client makes of a  *)
(* snapshot is decided by the progress lines ahead of it in the pipe.       *)

\* With p applied and the first n lines of d still ahead: a progress line has
\* gone by; the final one has.
Announced(p, d, n) == p # Nothing \/ \E j \in 1..n : d[j].kind = "progress"
Complete(p, d, n)  == p = Null \/ \E j \in 1..n : d[j].kind = "progress" /\ d[j].cat = Null

StreamOK(p, d) ==
  \A i \in 1..Len(d) :
    /\ d[i].kind = "snap" => /\ Announced(p, d, i - 1)
                             /\ d[i].cat = Stages <=> Complete(p, d, i - 1)
    /\ d[i].kind = "progress" => ~Complete(p, d, i - 1)

Written == Len(down)

WorkerInv ==
  /\ worker \in {"create", "accept", "hello"} =>
       enabled = 0 /\ progress = Nothing /\ down = <<>>
  /\ worker \in {"init", "probe", "fatalHealth"} =>
       /\ enabled = 0
       /\ Announced(progress, down, Written) /\ ~Complete(progress, down, Written)
  /\ worker = "announce" =>
       Announced(progress, down, Written) /\ ~Complete(progress, down, Written)
  /\ worker \in {"first", "top", "refresh", "emit", "sent", "enable", "pause"} =>
       /\ Announced(progress, down, Written)
       /\ Complete(progress, down, Written) <=> enabled = Stages

StreamInv == StreamOK(progress, down) /\ WorkerInv /\ PartialExact
=============================================================================
