------------------------------ MODULE Connect ------------------------------
(***************************************************************************)
(* How the dashboard gets a sensor session and gets one again: the connect *)
(* machine on its worker thread (ipc/connect.rs), the frames that follow   *)
(* it and the RETRY and RESPAWN buttons (app.rs), the service process      *)
(* (ServiceProcess) and other clients of the same pipe.                    *)
(*                                                                         *)
(* Time passes in ticks of the machine's poll interval.                    *)
(***************************************************************************)
EXTENDS ServiceProcess, Naturals, Sequences

CONSTANTS
  BusyTries,   \* waits for a busy pipe: BUSY_RETRY_MS / POLL_INTERVAL_MS
  StartTries,  \* polls within START_DEADLINE_S
  StartLag,    \* ticks a service needs at most to create its pipe
  Grace,       \* ticks a service whose client has left needs at most to end
  Linger,      \* ticks the threads of a dropped session need to close its handles
  MaxFaults    \* bound: opens that fail in some other way

ASSUME TriesAssumption == {BusyTries, StartTries} \subseteq Nat
ASSUME ServiceAssumption ==
  /\ {StartLag, Grace, Linger} \subseteq Nat
  /\ Linger + Grace < BusyTries /\ StartLag < StartTries
ASSUME FaultsAssumption == MaxFaults \in Nat

VARIABLES
  holder,    \* whose handles hold the pipe: this session's, an old one's, another's
  age,       \* ticks the service has been starting, ending or held by old handles
  machine,   \* where the connect thread stands
  tries,     \* waits of the current phase
  channel,   \* ConnectEvents sent and not yet drained
  rx,        \* PerfApp.connect_rx is Some
  link,      \* the newest PipeSensord's feed: SensorState.alive
  adopted,   \* PerfApp.sensord holds it
  status,    \* PerfApp.status
  met,       \* history: another client had the pipe during this phase
  elevated,  \* history: this machine has asked for elevation
  swallowed, \* history: its start request met a service on its way out
  faults     \* opens that failed (bounds the model)

vars == <<svc, holder, age, machine, tries, channel, rx, link, adopted, status,
          met, elevated, swallowed, faults>>

requests == <<elevated, swallowed>>
service  == <<svc, holder, age>>
app      == <<rx, adopted, status>>

Failed     == {"busy", "refused", "uac", "timeout"}
Connecting == {"opening", "elevating", "starting", "loading"} \cup Failed

-----------------------------------------------------------------------------
(* The service process and the other clients.                              *)

\* The service moves, now held by h; a timed state starts its count.
Serve(step, h) ==
  /\ step /\ holder' = h
  /\ met' = (met \/ h = "other")
  /\ age' = IF svc = "closing" /\ svc' = "unpiped" THEN age ELSE 0
  /\ link' = IF svc = "held" /\ holder = "me" /\ svc' # "held" /\ link = "alive"
             THEN "dead" ELSE link
  /\ UNCHANGED <<machine, tries, channel, app, requests, faults>>

ServiceMoves == Serve(Listen \/ DropPipe \/ Exit, "nobody")

\* perfwindow-cli or another window starts the service, connects, and leaves.
OtherClient ==
  \/ Serve(Launch, "nobody")
  \/ Serve(Attach, "other")
  \/ holder = "other" /\ Serve(Detach, "nobody")

\* The threads of a session this app has dropped have closed their handles.
OldHandlesClose == holder = "old" /\ Serve(Detach, "nobody")

-----------------------------------------------------------------------------
(* The connect machine: connect.rs.                                        *)

\* set_phase and emit_ready send ConnectEvents; the phase they share with the
\* caller is read by nobody.
Send(event) == channel' = Append(channel, event)

\* The thread's last event.
SendLast(event) == machine' = "return" /\ Send(event) /\ UNCHANGED tries

At(pcs) ==
  /\ machine \in pcs
  /\ UNCHANGED <<service, link, app, met, requests, faults>>

Goto(pc) == machine' = pc /\ UNCHANGED <<tries, channel>>

\* The pipe has an instance free.
OpenSucceeds ==
  /\ machine \in {"open", "poll"} /\ Attach
  /\ holder' = "me" /\ age' = 0 /\ link' = "alive"
  /\ machine' = "emit" /\ Send("loading")
  /\ UNCHANGED <<tries, app, met, requests, faults>>

\* emit_ready's second send.
EmitReady == At({"emit"}) /\ SendLast("ready")

\* The thread returns, and its end of the channel goes with it.
Return == At({"return"}) /\ Goto("ended")

Busy == svc \in {"held", "closing"}

\* Mutant: a busy pipe is final at once.
NoWait == SendLast("busy")

\* open_waiting_out_busy: another wait, or the last error stands.
WaitOutBusy ==
  \/ tries < BusyTries /\ machine' = "wait" /\ tries' = tries + 1 /\ UNCHANGED channel
  \/ tries >= BusyTries /\ SendLast("busy")

\* An open that finds no free instance.
OpenBusy ==
  /\ At({"open", "poll"}) /\ Busy
  /\ IF machine = "open" THEN WaitOutBusy ELSE SendLast("busy")

Elevate ==
  /\ machine' = "prompt" /\ elevated' = TRUE /\ Send("elevating")
  /\ UNCHANGED <<service, link, app, tries, met, swallowed>>

\* NotFound, in phase 1: the service is probably not running.
NotFoundElevates ==
  /\ machine = "open" /\ svc \in {"stopped", "starting", "unpiped"}
  /\ Elevate /\ UNCHANGED faults

\* NotFound, in phase 3: on until the deadline.
PollAgain ==
  \/ tries < StartTries /\ Goto("sleep")
  \/ tries >= StartTries /\ SendLast("timeout")

NotFoundPolls == At({"poll"}) /\ svc \in {"stopped", "starting", "unpiped"} /\ PollAgain

\* A refused open ends the machine; another I/O error does too while it polls,
\* and in phase 1 counts as a service that is not running.
OpenFails ==
  /\ machine \in {"open", "poll"} /\ faults < MaxFaults /\ faults' = faults + 1
  /\ \/ machine = "open" /\ Elevate
     \/ SendLast("refused") /\ UNCHANGED <<service, link, app, met, requests>>

Decline == SendLast("uac")

PromptDeclined == At({"prompt"}) /\ Decline

\* sc start, whose own result nobody looks at: it starts a stopped service, and
\* the service manager refuses it while the process is there.
PromptAccepted ==
  /\ machine = "prompt"
  /\ machine' = "sleep" /\ tries' = 0 /\ Send("starting")
  /\ IF svc = "stopped"
     THEN Launch /\ age' = 0
     ELSE UNCHANGED <<svc, age>>
  /\ swallowed' = (svc \in {"closing", "unpiped"})
  /\ met' = (holder = "other")
  /\ UNCHANGED <<holder, link, app, elevated, faults>>

\* A tick: whoever sleeps wakes up, and the service has not exceeded its time.
Tick ==
  /\ machine \notin {"open", "poll", "emit", "return"}
  /\ svc = "starting" => age < StartLag
  /\ svc \in {"closing", "unpiped"} => age < Grace
  /\ holder = "old" => age < Linger
  /\ age' = IF svc \in {"starting", "closing", "unpiped"} \/ holder = "old"
            THEN age + 1 ELSE 0
  /\ machine' = CASE machine = "wait"  -> "open"
                  [] machine = "sleep" -> "poll"
                  [] OTHER             -> machine
  /\ tries' = IF machine = "sleep" THEN tries + 1 ELSE tries
  /\ UNCHANGED <<svc, holder, channel, link, app, met, requests, faults>>

-----------------------------------------------------------------------------
(* The frames: app.rs.                                                     *)

\* Mutant: only Ready lets the receiver go.
PollKeepsReceiver ==
  /\ rx /\ (channel # <<>> \/ machine = "ended")
  /\ LET last == channel[Len(channel)]
     IN /\ adopted' = (channel # <<>> /\ last = "ready")
        /\ status' = CASE channel = <<>> -> status
                       [] adopted'       -> "running"
                       [] OTHER          -> last
  /\ rx' = ~adopted'
  /\ channel' = <<>>
  /\ UNCHANGED <<service, machine, tries, link, met, requests, faults>>

\* poll_connect_events drains the channel.  Ready hands the feed over; a channel
\* whose thread has ended is let go, with the last phase left on screen.
Poll ==
  /\ rx /\ (channel # <<>> \/ machine = "ended")
  /\ LET last == channel[Len(channel)]
     IN /\ adopted' = (channel # <<>> /\ last = "ready")
        /\ status' = CASE channel = <<>> -> status
                       [] adopted'       -> "running"
                       [] OTHER          -> last
  /\ rx' = ~(adopted' \/ machine = "ended")
  /\ channel' = <<>>
  /\ UNCHANGED <<service, machine, tries, link, met, requests, faults>>

\* Mutant: the watch for a dead feed stays off once a machine has run.
FeedTrusted == status

\* A feed that has died, or none at all, unless a phase is on screen.
StatusOfFeed ==
  CASE ~adopted /\ status \notin Connecting -> "down"
    [] adopted /\ link = "dead"             -> "down"
    [] OTHER                                -> status

\* ingest_at, but for the watchdogs: a connect machine owns the status.
Ingest ==
  /\ ~rx
  /\ status' = StatusOfFeed
  /\ UNCHANGED <<service, machine, tries, channel, rx, link, adopted, met, requests, faults>>

\* The silence watchdogs demote a feed that is still alive, and a snapshot from
\* it revives it; Feed has their conditions.
SilenceWatch ==
  /\ ~rx /\ adopted /\ link = "alive"
  /\ status' = IF status = "running" THEN "down" ELSE "running"
  /\ UNCHANGED <<service, machine, tries, channel, rx, link, adopted, met, requests, faults>>

\* Mutant: the old feed is kept until Ready replaces it.
RestartKeepsFeed ==
  /\ status \in Failed \cup {"down"} /\ ~rx
  /\ status' = "opening" /\ rx' = TRUE
  /\ machine' = "open" /\ tries' = 0 /\ channel' = <<"opening">>
  /\ met' = (holder = "other") /\ elevated' = FALSE /\ swallowed' = FALSE
  /\ UNCHANGED <<service, link, adopted, faults>>

\* RETRY on a failure card, or RESPAWN on the error overlay: restart_connect.
\* The old feed is dropped first; its handles close when its threads end.
RestartConnect ==
  /\ status \in Failed \cup {"down"} /\ ~rx
  /\ adopted' = FALSE /\ link' = "none" /\ status' = "opening"
  /\ rx' = TRUE /\ machine' = "open" /\ tries' = 0 /\ channel' = <<"opening">>
  /\ holder' = IF holder = "me" THEN "old" ELSE holder
  /\ met' = (holder = "other") /\ elevated' = FALSE /\ swallowed' = FALSE
  /\ UNCHANGED <<svc, age, faults>>

-----------------------------------------------------------------------------
\* PerfApp::new spawns the machine; an earlier client's service may still be there.
Init ==
  /\ svc \in SvcState \ {"held"} /\ holder = "nobody" /\ age = 0
  /\ machine = "open" /\ tries = 0 /\ channel = <<"opening">>
  /\ rx = TRUE /\ link = "none" /\ adopted = FALSE /\ status = "opening"
  /\ met = FALSE /\ elevated = FALSE /\ swallowed = FALSE /\ faults = 0

\* What the thread does by itself; a prompt waits for the user.
MachineStep ==
  \/ OpenSucceeds \/ EmitReady \/ Return
  \/ OpenBusy \/ NotFoundElevates \/ NotFoundPolls

Next ==
  \/ ServiceMoves \/ OtherClient \/ OldHandlesClose
  \/ MachineStep \/ OpenFails \/ PromptDeclined \/ PromptAccepted \/ Tick
  \/ Poll \/ Ingest \/ SilenceWatch \/ RestartConnect

Spec == Init /\ [][Next]_vars

\* Threads, timers and frames run; nobody has to answer the prompt, press a
\* button or leave the pipe.
FairSpec ==
  /\ Spec
  /\ WF_vars(MachineStep) /\ WF_vars(Tick) /\ WF_vars(Poll) /\ WF_vars(Ingest)
  /\ WF_vars(svc \in {"starting", "closing", "unpiped"} /\ ServiceMoves)
  /\ WF_vars(OldHandlesClose)

-----------------------------------------------------------------------------
(* Properties.                                                             *)

TypeOK ==
  /\ svc \in SvcState /\ holder \in {"nobody", "me", "old", "other"}
  /\ machine \in {"open", "wait", "prompt", "sleep", "poll", "emit", "return", "ended"}
  /\ age \in Nat /\ tries \in Nat
  /\ machine \in {"open", "wait"} => tries <= BusyTries
  /\ machine = "sleep" => tries < StartTries
  /\ machine = "poll"  => tries <= StartTries
  /\ channel \in Seq(Connecting \cup {"ready"})
  /\ rx \in BOOLEAN /\ adopted \in BOOLEAN
  /\ link \in {"none", "alive", "dead"}
  /\ status \in Connecting \cup {"running", "down"}
  /\ met \in BOOLEAN /\ elevated \in BOOLEAN /\ swallowed \in BOOLEAN
  /\ faults \in 0..MaxFaults

\* A progress phase is on screen only while a machine can still move it on: the
\* screen has no button, so one left behind would keep the user there.
LoadingHasMachine ==
  status \in Connecting \ Failed =>
    rx /\ (machine # "ended" \/ channel # <<>>)

\* One session at a time: while the app holds a session's feed no machine runs
\* that could hand it another, whose end would shut the service down.
OneSession == adopted => ~rx /\ machine \in {"return", "ended"} /\ channel = <<>>

\* A reconnect right after a session's end "must not read as another client being
\* connected": phase 1 gives a busy pipe up only if another client was on it.
BusyMeansClient == status = "busy" /\ ~elevated => met

\* Every connect machine ends in a session or in a failure the user sees, however
\* the service and other clients behave, or waits at the prompt.
ConnectSettles == rx ~> ~rx \/ machine = "prompt"

\* A session that dies under the app is shown as stopped, or replaced.
DeadFeedIsShown == adopted /\ link = "dead" ~> status # "running"

\* Why BusyMeansClient holds: the ticks of phase 1 are those the old session's
\* handles and then its service's teardown have taken.
Elapsed == IF machine = "wait" THEN tries - 1 ELSE tries
Waited ==
  ~met /\ machine \in {"open", "wait"} =>
    /\ machine = "wait" => tries > 0
    /\ svc = "held"    => holder = "old" /\ Elapsed <= age /\ age <= Linger
    /\ svc = "closing" => Elapsed <= Linger + age /\ age <= Grace
HolderOK ==
  /\ svc # "held" <=> holder = "nobody"
  /\ holder = "me" => machine \notin {"open", "wait", "prompt", "sleep", "poll"}
  /\ svc \in {"closing", "unpiped"} => age <= Grace
  /\ holder \in {"me", "old"} => age <= Linger
  /\ holder = "me" => age = 0
BusySent ==
  (status = "busy" \/ \E i \in DOMAIN channel : channel[i] = "busy") =>
    elevated \/ met
Elevated == machine \in {"prompt", "sleep", "poll"} => elevated
BusyInv == Waited /\ HolderOK /\ BusySent /\ Elevated

\* Why the screen moves on: the thread's last event is a failure or Ready, and it
\* is either still in the channel or what the screen shows.
LastEvent == channel[Len(channel)]
Final == Failed \cup {"ready"}
ScreenInv ==
  /\ status \in Connecting \ Failed => rx
  /\ machine \in {"return", "ended"} =>
       IF channel # <<>> THEN LastEvent \in Final ELSE status \notin Connecting \ Failed
  /\ channel # <<>> /\ LastEvent = "ready" => machine \in {"return", "ended"}
  /\ OneSession

\* "Reconnecting right after a session ends also waits for the service to finish":
\* it is not told that the service did not start in time.
ReconnectWaitsForService == status = "timeout" => ~swallowed
=============================================================================
