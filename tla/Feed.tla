-------------------------------- MODULE Feed --------------------------------
(***************************************************************************)
(* What the dashboard makes of its sensor feed (PerfApp::ingest_at): the   *)
(* reader thread leaves the newest snapshot and the time of the last line  *)
(* in SensorState, every frame takes them, and two watchdogs demote a      *)
(* session whose service has gone silent without closing the pipe.         *)
(*                                                                         *)
(* An Instant is modelled by its age in ticks of the longest frame         *)
(* interval; ages stop at Cap, past every threshold, and Never is None,    *)
(* which is older than any instant.  A sleep of the machine ages every     *)
(* instant with no frame and no line in between.                           *)
(***************************************************************************)
EXTENDS Naturals

CONSTANTS
  Startup,      \* STARTUP_WATCHDOG
  LineSilence,  \* LINE_SILENCE
  FeedSilence,  \* FEED_SILENCE
  Sleeps,       \* how long the machine may sleep
  MaxSleeps     \* bound: sleeps

ASSUME WatchdogAssumption ==
  /\ {LineSilence, FeedSilence, Startup} \subseteq Nat
  /\ 0 < LineSilence /\ LineSilence < FeedSilence /\ FeedSilence < Startup
ASSUME SleepAssumption == Sleeps \subseteq Nat \ {0} /\ MaxSleeps \in Nat

VARIABLES
  feed,      \* no session, an open pipe (SensorState.alive), or an ended one
  stage,     \* what the service's snapshots hold: some sensors, or all
  pending,   \* SensorState.latest, not taken yet, with latest_partial
  lineAge,   \* SensorState.last_line_at
  status,    \* PerfApp.status
  latest,    \* PerfApp.latest with latest_partial
  since,     \* PerfApp.running_since
  passAge,   \* PerfApp.ingested_at
  wokeAge,   \* PerfApp.woke_at
  framed,    \* a frame has run since the last tick
  awake,     \* history: ticks awake since the last line
  quiet,     \* history: ticks awake since the last line or the last wake
  sleeps     \* sleeps so far (bounds the model)

state == <<feed, stage, pending, lineAge>>
app   == <<status, latest, since, passAge, wokeAge>>
vars  == <<state, app, framed, awake, quiet, sleeps>>

Cap   == Startup + 1
Never == Cap + 1
Older(age, ticks) ==
  IF age = Never THEN Never ELSE IF age + ticks > Cap THEN Cap ELSE age + ticks
Latest(age, other) == IF age < other THEN age ELSE other

\* PerfApp::new, with its first connect machine running.
Init ==
  /\ feed = "absent" /\ stage = "partial" /\ pending = "none" /\ lineAge = Never
  /\ status = "connecting" /\ latest = "none" /\ since = Never
  /\ passAge = Never /\ wokeAge = Never /\ framed = FALSE
  /\ awake = 0 /\ quiet = 0 /\ sleeps = 0

-----------------------------------------------------------------------------
(* The reader thread.                                                      *)

\* The connect machine opens the pipe and starts the reader.
Opened ==
  /\ status = "connecting" /\ feed = "absent"
  /\ feed' = "open" /\ awake' = 0 /\ quiet' = 0
  /\ UNCHANGED <<stage, pending, lineAge, app, framed, sleeps>>

Heard ==
  /\ feed = "open"
  /\ lineAge' = 0 /\ awake' = 0 /\ quiet' = 0
  /\ UNCHANGED <<feed, app, framed, sleeps>>

\* A progress line; the final one says that every category is enabled, which
\* takes the service many frames, so never before the session is handed over.
ProgressLine ==
  /\ Heard /\ stage = "partial"
  /\ stage' \in IF status = "connecting" THEN {"partial"} ELSE {"partial", "full"}
  /\ UNCHANGED pending

SnapshotLine == Heard /\ pending' = stage /\ UNCHANGED stage

FeedEnds ==
  /\ feed = "open" /\ feed' = "ended"
  /\ UNCHANGED <<stage, pending, lineAge, app, framed, awake, quiet, sleeps>>

-----------------------------------------------------------------------------
(* A frame: poll_connect_events, then ingest_at.                           *)

Taken == IF pending = "none" THEN latest ELSE pending

\* The load is watched from its start to the first full snapshot.
TakenSince(started) ==
  IF feed = "ended" \/ pending = "full" THEN Never
  ELSE IF pending = "partial" /\ started = Never THEN 0 ELSE started

\* A snapshot from a live feed proves that the service works.
TakenStatus(shown) ==
  IF feed = "ended" THEN "down" ELSE IF pending # "none" THEN "running" ELSE shown

\* Mutant: a sleep is not told from silence.
WokeNever == wokeAge

\* A gap between two frames longer than FEED_SILENCE was a sleep.
Woke == IF passAge # Never /\ passAge > FeedSilence THEN 0 ELSE wokeAge

\* startup_stalled
StartupStalled(started, heard) ==
  started # Never /\ started > Startup /\ heard > LineSilence

\* Mutant: only a load is watched.
StalledLoad(taken, started, heard) ==
  taken # "full" /\ StartupStalled(started, heard)

\* Mutant: a load is watched as a loaded feed is, from its last line only.
StalledLine(taken, started, heard) ==
  heard # Never /\ heard > FeedSilence

Stalled(taken, started, heard) ==
  IF taken # "full"
  THEN StartupStalled(started, heard)
  ELSE heard # Never /\ heard > FeedSilence

IngestFrom(shown, started) ==
  /\ LET demoted == /\ TakenStatus(shown) = "running"
                    /\ Stalled(Taken, TakenSince(started), Latest(lineAge, Woke))
     IN /\ status' = IF demoted THEN "down" ELSE TakenStatus(shown)
        /\ since'  = IF demoted THEN Never ELSE TakenSince(started)
  /\ latest' = Taken /\ pending' = "none"
  /\ passAge' = 0 /\ wokeAge' = Woke /\ framed' = TRUE
  /\ UNCHANGED <<feed, stage, lineAge, awake, quiet, sleeps>>

Ingest == status # "connecting" /\ IngestFrom(status, since)

\* While a connect machine runs the frame leaves the feed alone.
IdleFrame ==
  /\ status = "connecting" /\ ~framed
  /\ framed' = TRUE
  /\ UNCHANGED <<state, app, awake, quiet, sleeps>>

\* Ready: the frame takes the new session over and ingests from it at once.
Adopt ==
  /\ status = "connecting" /\ feed # "absent"
  /\ IngestFrom("running", 0)

\* restart_connect and prepare_reconnect, by RESPAWN on the error overlay.
Respawn ==
  /\ status = "down"
  /\ status' = "connecting" /\ latest' = "none" /\ since' = Never
  /\ feed' = "absent" /\ stage' = "partial" /\ pending' = "none" /\ lineAge' = Never
  /\ UNCHANGED <<passAge, wokeAge, framed, awake, quiet, sleeps>>

-----------------------------------------------------------------------------
Ages(ticks) ==
  /\ lineAge' = Older(lineAge, ticks) /\ since' = Older(since, ticks)
  /\ passAge' = Older(passAge, ticks) /\ wokeAge' = Older(wokeAge, ticks)
  /\ UNCHANGED <<feed, stage, pending, status, latest>>

\* Frames come at least once a tick: the watchdog repaint, minimized or not.
Tick ==
  /\ framed /\ framed' = FALSE
  /\ Ages(1)
  /\ awake' = Older(awake, 1) /\ quiet' = Older(quiet, 1)
  /\ UNCHANGED sleeps

Sleep ==
  /\ sleeps < MaxSleeps /\ sleeps' = sleeps + 1
  /\ \E ticks \in Sleeps : Ages(ticks)
  /\ quiet' = 0 /\ framed' = FALSE
  /\ UNCHANGED awake

Next ==
  \/ Opened \/ ProgressLine \/ SnapshotLine \/ FeedEnds
  \/ Ingest \/ IdleFrame \/ Adopt \/ Respawn
  \/ Tick \/ Sleep

Spec == Init /\ [][Next]_vars

\* Frames and time go on; no line ever has to come.
FairSpec == Spec /\ WF_vars(Ingest) /\ WF_vars(IdleFrame) /\ WF_vars(Tick)

-----------------------------------------------------------------------------
(* Properties.                                                             *)

Age == 0..Never

\* Types, and that only a running session has the start of its load.
TypeOK ==
  /\ feed \in {"absent", "open", "ended"} /\ stage \in {"partial", "full"}
  /\ pending \in {"none", "partial", "full"} /\ latest \in {"none", "partial", "full"}
  /\ status \in {"running", "down", "connecting"}
  /\ {lineAge, since, passAge, wokeAge} \subseteq Age
  /\ {awake, quiet} \subseteq 0..Cap
  /\ framed \in BOOLEAN /\ sleeps \in 0..MaxSleeps
  /\ status # "running" => since = Never
  /\ status # "connecting" => feed # "absent"

\* A session shown as running is under one of the two watchdogs: while it loads
\* its start is known, and once it has loaded so is its last line.
RunningIsWatched ==
  status = "running" =>
    IF latest = "full" THEN lineAge # Never ELSE since # Never

\* "Frozen readings never sit under the running dot": after a frame, a session
\* shown as running has carried a line within the silence allowed since the last
\* wake, or is still within the time its load is given.
FrozenIsNotRunning ==
  framed /\ status = "running" =>
    IF latest = "full" THEN quiet <= FeedSilence
    ELSE quiet <= LineSilence \/ since <= Startup

\* A live feed is demoted for silence the machine was awake for: a frame that
\* takes the session down has waited that long for a line, sleeps not counted.
NoFalseAlarm ==
  [][status = "running" /\ status' = "down" /\ feed = "open" =>
       awake > IF latest' = "full" THEN FeedSilence ELSE LineSilence]_vars

\* A service that stops for good is not shown as running for good, whether or not
\* its pipe closes.
SilenceIsShown == []<>(lineAge = 0 \/ status # "running")
=============================================================================
