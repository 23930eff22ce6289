---------------------------- MODULE Feed_proofs ----------------------------
(* Proofs about Feed, for every value of its thresholds.                    *)
EXTENDS Feed, TLAPS

LEMMA Thresholds ==
  /\ LineSilence \in Nat /\ FeedSilence \in Nat /\ Startup \in Nat
  /\ Cap \in Nat /\ Never \in Nat /\ Cap < Never /\ Startup < Cap
PROOF
<1>1. LineSilence \in Nat /\ FeedSilence \in Nat /\ Startup \in Nat
  BY WatchdogAssumption
<1> QED
  BY <1>1 DEF Cap, Never

\* Ageing stays within the bound, and None stays None.
LEMMA OlderType ==
  ASSUME NEW age \in Age, NEW ticks \in Nat
  PROVE  /\ Older(age, ticks) \in Age
         /\ Older(age, ticks) = Never <=> age = Never
         /\ age \in 0..Cap => Older(age, ticks) \in 0..Cap
PROOF
<1>1. age \in Nat /\ age <= Never /\ Never = Cap + 1 /\ Cap \in Nat
  BY Thresholds DEF Age, Never
<1>2. CASE age = Never
  BY <1>1, <1>2 DEF Older, Age
<1>3. CASE age # Never
  <2>1. Older(age, ticks) = IF age + ticks > Cap THEN Cap ELSE age + ticks
    BY <1>3 DEF Older
  <2> QED
    BY <1>1, <1>3, <2>1 DEF Age
<1> QED
  BY <1>2, <1>3

LEMMA SleepTicks == Sleeps \subseteq Nat /\ MaxSleeps \in Nat
  BY SleepAssumption

LEMMA AgesType ==
  ASSUME TypeOK, NEW ticks \in Nat, Ages(ticks)
  PROVE  /\ {lineAge', since', passAge', wokeAge'} \subseteq Age
         /\ lineAge' = Never <=> lineAge = Never
         /\ since' = Never <=> since = Never
         /\ status' # "running" => since' = Never
PROOF
<1>1. lineAge \in Age /\ since \in Age /\ passAge \in Age /\ wokeAge \in Age
  BY DEF TypeOK
<1>2. lineAge' \in Age /\ since' \in Age /\ passAge' \in Age /\ wokeAge' \in Age
  BY <1>1, OlderType DEF Ages
<1>3. (lineAge' = Never <=> lineAge = Never) /\ (since' = Never <=> since = Never)
  BY <1>1, OlderType DEF Ages
<1> QED
  BY <1>2, <1>3 DEF Ages, TypeOK

\* The initial state has the types.
LEMMA InitType == Init => TypeOK
PROOF
<1> SUFFICES ASSUME Init PROVE TypeOK
  OBVIOUS
<1>1. Never \in Age /\ 0 \in 0..Cap /\ 0 \in 0..MaxSleeps
  BY Thresholds, SleepTicks DEF Age
<1> QED
  BY <1>1 DEF Init, TypeOK

\* A frame keeps the types, whichever session it ingests from.
LEMMA IngestType ==
  ASSUME TypeOK, NEW shown \in {"running", "down"}, NEW started \in Age,
         shown = "down" => started = Never, feed # "absent",
         IngestFrom(shown, started)
  PROVE  TypeOK'
PROOF
<1>1. 0 \in Age /\ Never \in Age
  BY Thresholds DEF Age
<1>2. TakenSince(started) \in Age
  BY <1>1 DEF TakenSince
<1>3. TakenStatus(shown) \in {"running", "down"}
  BY DEF TakenStatus
<1>4. TakenStatus(shown) = "down" => TakenSince(started) = Never
  BY DEF TakenStatus, TakenSince, TypeOK
<1>5. /\ status' \in {"running", "down"} /\ since' \in Age
      /\ status' = "down" => since' = Never
  BY <1>1, <1>2, <1>3, <1>4 DEF IngestFrom
<1>6. latest' \in {"none", "partial", "full"} /\ pending' = "none"
  BY DEF IngestFrom, Taken, TypeOK
<1>7. passAge' \in Age /\ wokeAge' \in Age /\ framed' = TRUE
  BY <1>1 DEF IngestFrom, Woke, TypeOK
<1> QED
  BY <1>5, <1>6, <1>7 DEF IngestFrom, TypeOK

LEMMA StepType == TypeOK /\ [Next]_vars => TypeOK'
PROOF
<1> SUFFICES ASSUME TypeOK, [Next]_vars PROVE TypeOK'
  OBVIOUS
<1> USE Thresholds DEF Age
<1>1. CASE Opened
  BY <1>1 DEF Opened, TypeOK, app
<1>2. CASE ProgressLine
  BY <1>2 DEF ProgressLine, Heard, TypeOK, app
<1>3. CASE SnapshotLine
  BY <1>3 DEF SnapshotLine, Heard, TypeOK, app
<1>4. CASE FeedEnds
  BY <1>4 DEF FeedEnds, TypeOK, app
<1>5. CASE Ingest
  <2>1. /\ status \in {"running", "down"} /\ since \in Age /\ feed # "absent"
        /\ status = "down" => since = Never
        /\ IngestFrom(status, since)
    BY <1>5 DEF Ingest, TypeOK
  <2> QED
    BY <2>1, IngestType
<1>6. CASE IdleFrame
  BY <1>6 DEF IdleFrame, TypeOK, app, state
<1>7. CASE Adopt
  <2>1. 0 \in Age /\ feed # "absent" /\ IngestFrom("running", 0)
    BY <1>7 DEF Adopt
  <2> QED
    BY <2>1, IngestType
<1>8. CASE Respawn
  BY <1>8 DEF Respawn, TypeOK
<1>9. CASE Tick
  <2>1. {lineAge', since', passAge', wokeAge'} \subseteq Age
    BY <1>9, AgesType DEF Tick
  <2>2. status' # "running" => since' = Never
    BY <1>9, AgesType DEF Tick
  <2>3. awake \in 0..Cap /\ quiet \in 0..Cap /\ awake \in Age /\ quiet \in Age
    BY DEF TypeOK
  <2>4. awake' \in 0..Cap /\ quiet' \in 0..Cap
    BY <1>9, <2>3, OlderType DEF Tick
  <2> QED
    BY <1>9, <2>1, <2>2, <2>4 DEF Tick, Ages, TypeOK
<1>10. CASE Sleep
  <2>1. PICK ticks \in Sleeps : Ages(ticks)
    BY <1>10 DEF Sleep
  <2>2. ticks \in Nat
    BY SleepTicks
  <2>3. {lineAge', since', passAge', wokeAge'} \subseteq Age
    BY <2>1, <2>2, AgesType
  <2>4. status' # "running" => since' = Never
    BY <2>1, <2>2, AgesType
  <2>5. sleeps' \in 0..MaxSleeps
    BY <1>10, SleepTicks DEF Sleep, TypeOK
  <2>6. awake' \in 0..Cap /\ quiet' \in 0..Cap
    BY <1>10, Thresholds DEF Sleep, TypeOK
  <2> QED
    BY <1>10, <2>1, <2>3, <2>4, <2>5, <2>6 DEF Sleep, Ages, TypeOK
<1>11. CASE UNCHANGED vars
  BY <1>11 DEF vars, state, app, TypeOK
<1> QED
  BY <1>1, <1>2, <1>3, <1>4, <1>5, <1>6, <1>7, <1>8, <1>9, <1>10, <1>11 DEF Next

\* The state of a session stays in its types, and only a running session keeps
\* the start of its load (PerfApp::ingest_at clears it with every demotion).
THEOREM TypeCorrect == Spec => []TypeOK
PROOF
<1>1. Init => TypeOK
  BY InitType
<1>2. TypeOK /\ [Next]_vars => TypeOK'
  BY StepType
<1> QED
  BY <1>1, <1>2, PTL DEF Spec

-----------------------------------------------------------------------------
\* A snapshot is a line: what a frame can take, or has taken, was heard.
LineKnown == pending # "none" \/ latest = "full" => lineAge # Never

\* RunningIsWatched is inductive with the time of the last line and the types.
WatchInv == TypeOK /\ LineKnown /\ RunningIsWatched

\* A frame leaves the session it ingests from watched.
LEMMA IngestWatched ==
  ASSUME WatchInv, NEW shown \in {"running", "down"}, NEW started \in Age,
         shown = "running" /\ latest # "full" => started # Never,
         IngestFrom(shown, started)
  PROVE  LineKnown' /\ RunningIsWatched'
PROOF
<1>1. lineAge' = lineAge /\ pending' = "none" /\ latest' = Taken
  BY DEF IngestFrom
<1>2. LineKnown'
  BY <1>1 DEF LineKnown, Taken, WatchInv
<1>3. 0 # Never
  BY Thresholds
<1>4. status' = "running" =>
        TakenStatus(shown) = "running" /\ since' = TakenSince(started)
  BY DEF IngestFrom
<1>5. TakenStatus(shown) = "running" /\ Taken # "full" => TakenSince(started) # Never
  BY <1>3 DEF TakenStatus, TakenSince, Taken, WatchInv, TypeOK
<1> QED
  BY <1>1, <1>2, <1>4, <1>5 DEF RunningIsWatched, LineKnown

LEMMA StepWatched == WatchInv /\ [Next]_vars => WatchInv'
PROOF
<1> SUFFICES ASSUME WatchInv, [Next]_vars PROVE LineKnown' /\ RunningIsWatched'
  BY StepType DEF WatchInv
<1>0. TypeOK /\ 0 # Never /\ 0 \in Age
  BY Thresholds DEF WatchInv, Age
<1> USE DEF WatchInv, LineKnown, RunningIsWatched
<1>1. CASE Opened
  BY <1>1 DEF Opened, app
<1>2. CASE ProgressLine
  BY <1>0, <1>2 DEF ProgressLine, Heard, app
<1>3. CASE SnapshotLine
  BY <1>0, <1>3 DEF SnapshotLine, Heard, app
<1>4. CASE FeedEnds
  BY <1>4 DEF FeedEnds, app
<1>5. CASE Ingest
  <2>1. /\ status \in {"running", "down"} /\ since \in Age
        /\ status = "running" /\ latest # "full" => since # Never
        /\ IngestFrom(status, since)
    BY <1>0, <1>5 DEF Ingest, TypeOK
  <2> QED
    BY <2>1, IngestWatched
<1>6. CASE IdleFrame
  BY <1>6 DEF IdleFrame, app, state
<1>7. CASE Adopt
  BY <1>0, <1>7, IngestWatched DEF Adopt
<1>8. CASE Respawn
  BY <1>8 DEF Respawn
<1>9. CASE Tick
  <2>1. (lineAge' = Never <=> lineAge = Never) /\ (since' = Never <=> since = Never)
    BY <1>0, <1>9, AgesType DEF Tick
  <2> QED
    BY <1>9, <2>1 DEF Tick, Ages
<1>10. CASE Sleep
  <2>1. PICK ticks \in Sleeps : Ages(ticks)
    BY <1>10 DEF Sleep
  <2>2. (lineAge' = Never <=> lineAge = Never) /\ (since' = Never <=> since = Never)
    BY <1>0, <2>1, SleepTicks, AgesType
  <2> QED
    BY <2>1, <2>2 DEF Ages
<1>11. CASE UNCHANGED vars
  BY <1>11 DEF vars, state, app
<1> QED
  BY <1>1, <1>2, <1>3, <1>4, <1>5, <1>6, <1>7, <1>8, <1>9, <1>10, <1>11 DEF Next

\* No session is shown as running without a watchdog over it: it loads and its
\* start is known, or it has loaded and the time of its last line is known.
THEOREM RunningIsWatchedCorrect == Spec => []RunningIsWatched
PROOF
<1>1. Init => WatchInv
  BY InitType DEF Init, WatchInv, LineKnown, RunningIsWatched
<1>2. WatchInv /\ [Next]_vars => WatchInv'
  BY StepWatched
<1>3. WatchInv => RunningIsWatched
  BY DEF WatchInv
<1> QED
  BY <1>1, <1>2, <1>3, PTL DEF Spec

-----------------------------------------------------------------------------
(* Silence: what a frame knows of it, and what it was.                      *)

\* Ageing keeps the order of two instants, and adds what it is asked to.
LEMMA OlderOrder ==
  ASSUME NEW a \in Age, NEW b \in Age, NEW ticks \in Nat, a <= b
  PROVE  Older(a, ticks) <= Older(b, ticks)
PROOF
<1>1. a \in Nat /\ b \in Nat /\ a <= Never /\ b <= Never /\ Never = Cap + 1 /\ Cap \in Nat
  BY Thresholds DEF Age, Never
<1>2. CASE b = Never
  <2>1. Older(b, ticks) = Never /\ Older(a, ticks) \in Age
    BY <1>2, OlderType DEF Older
  <2> QED
    BY <1>1, <2>1 DEF Age
<1>3. CASE b # Never
  <2>1. a # Never
    BY <1>1, <1>3
  <2> QED
    BY <1>1, <1>3, <2>1 DEF Older
<1> QED
  BY <1>2, <1>3

LEMMA OlderLength ==
  ASSUME NEW age \in Age, NEW ticks \in Nat, age # Never, ticks > FeedSilence
  PROVE  Older(age, ticks) > FeedSilence /\ Older(age, ticks) # Never
PROOF
<1>1. age \in Nat /\ Cap \in Nat /\ Never = Cap + 1 /\ FeedSilence \in Nat /\ FeedSilence < Cap
  BY Thresholds, WatchdogAssumption DEF Age, Never, Cap
<1>2. Older(age, ticks) = IF age + ticks > Cap THEN Cap ELSE age + ticks
  BY DEF Older
<1> QED
  BY <1>1, <1>2

\* A frame long after the last one is what a sleep leaves: one tick is not.
LEMMA OneTick ==
  Older(0, 1) = 1 /\ 1 < FeedSilence /\ 1 # Never /\ 0 # Never /\ FeedSilence \in Nat
PROOF
<1>1. FeedSilence \in Nat /\ 1 < FeedSilence /\ Startup \in Nat /\ FeedSilence < Startup
  BY WatchdogAssumption
<1>2. Cap \in Nat /\ 1 < Cap /\ 1 < Never
  BY <1>1 DEF Cap, Never
<1> QED
  BY <1>1, <1>2 DEF Older

\* A session that no frame can show as running before its next snapshot.
Waiting == status = "down" /\ pending = "none"

\* A session in its load, with nothing more than the load to take.
Loading ==
  status = "running" /\ latest # "full" /\ pending # "full" /\ since # Never

\* Nothing of a full load reaches a session before it is handed over.
NewSessionIsPartial ==
  status = "connecting" => latest = "none" /\ pending # "full" /\ stage = "partial"

\* A handed-over session has a last frame, at most a tick ago unless the machine
\* has just slept.
PassIsRecent ==
  status # "connecting" =>
    /\ passAge # Never /\ (framed => passAge = 0)
    /\ passAge <= 1 \/ (quiet = 0 /\ ~framed)

\* The silence the watchdog measures is never shorter than the real one: its line
\* is no younger, and neither is its wake, or else it measures from the load.
QuietIsMeasured ==
  /\ quiet <= lineAge
  /\ status # "connecting" =>
       quiet <= wokeAge \/ Waiting \/ (Loading /\ since <= wokeAge)

SilenceInv ==
  TypeOK /\ LineKnown /\ RunningIsWatched
  /\ NewSessionIsPartial /\ PassIsRecent /\ QuietIsMeasured

LEMMA TypeAges ==
  ASSUME TypeOK
  PROVE  /\ lineAge \in Age /\ since \in Age /\ passAge \in Age /\ wokeAge \in Age
         /\ awake \in Age /\ quiet \in Age /\ awake <= Cap /\ quiet <= Cap
         /\ Age \subseteq Nat /\ Cap \in Nat /\ Never \in Nat /\ Cap < Never
PROOF
<1>1. Cap \in Nat /\ Never \in Nat /\ Cap < Never
  BY Thresholds
<1>2. awake \in 0..Cap /\ quiet \in 0..Cap
  BY DEF TypeOK
<1>3. {lineAge, since, passAge, wokeAge} \subseteq Age
  BY DEF TypeOK
<1> QED
  BY <1>1, <1>2, <1>3 DEF Age

\* What a frame knows of the silence when it ingests from a session.
Measured(shown, started) ==
  \/ quiet <= Woke
  \/ shown = "down" /\ pending = "none"
  \/ /\ shown = "running" /\ latest # "full" /\ pending # "full"
     /\ started # Never /\ started <= Woke

LEMMA WokeType == TypeOK => Woke \in Age /\ Woke <= wokeAge
PROOF
<1> SUFFICES ASSUME TypeOK PROVE Woke \in Age /\ Woke <= wokeAge
  OBVIOUS
<1>1. wokeAge \in Age /\ wokeAge \in Nat /\ 0 \in Age
  BY TypeAges, Thresholds DEF Age
<1> QED
  BY <1>1 DEF Woke

LEMMA IngestMeasured ==
  ASSUME SilenceInv, Ingest
  PROVE  Measured(status, since)
PROOF
<1>0. /\ TypeOK /\ PassIsRecent /\ status # "connecting"
      /\ quiet <= wokeAge \/ Waiting \/ (Loading /\ since <= wokeAge)
  BY DEF Ingest, SilenceInv, QuietIsMeasured
<1>1. passAge \in Nat /\ Woke \in Nat
  BY <1>0, TypeAges, WokeType
<1>2. Woke # wokeAge => quiet = 0
  BY <1>0, <1>1, OneTick DEF Woke, PassIsRecent
<1> QED
  BY <1>0, <1>1, <1>2 DEF Measured, Waiting, Loading

LEMMA AdoptMeasured ==
  ASSUME SilenceInv, Adopt
  PROVE  Measured("running", 0)
PROOF
<1>1. latest # "full" /\ pending # "full" /\ TypeOK
  BY DEF Adopt, SilenceInv, NewSessionIsPartial
<1>2. 0 # Never /\ 0 <= Woke
  BY <1>1, OneTick, WokeType DEF Age
<1> QED
  BY <1>1, <1>2 DEF Measured

\* A frame keeps the measured silence, whichever session it ingests from.
LEMMA IngestSilence ==
  ASSUME SilenceInv, NEW shown \in {"running", "down"}, NEW started \in Age,
         IngestFrom(shown, started),
         Measured(shown, started)
  PROVE  NewSessionIsPartial' /\ PassIsRecent' /\ QuietIsMeasured'
PROOF
<1>1. TypeOK /\ quiet <= lineAge
  BY DEF SilenceInv, QuietIsMeasured
<1>2. status' # "connecting"
  BY DEF IngestFrom, TakenStatus
<1>3. PassIsRecent'
  BY OneTick DEF IngestFrom, PassIsRecent
<1>4. /\ wokeAge' = Woke /\ quiet' = quiet /\ lineAge' = lineAge
      /\ pending' = "none" /\ latest' = Taken
  BY DEF IngestFrom
<1>5. CASE quiet <= Woke
  BY <1>1, <1>2, <1>3, <1>4, <1>5 DEF NewSessionIsPartial, QuietIsMeasured
<1>6. CASE shown = "down" /\ pending = "none"
  <2>1. status' = "down"
    BY <1>6 DEF IngestFrom, TakenStatus
  <2> QED
    BY <1>1, <1>2, <1>3, <1>4, <2>1 DEF NewSessionIsPartial, QuietIsMeasured, Waiting
<1>7. CASE /\ shown = "running" /\ latest # "full" /\ pending # "full"
           /\ started # Never /\ started <= Woke
  <2>1. Taken # "full"
    BY <1>7 DEF Taken
  <2>2. CASE status' = "down"
    BY <1>1, <1>2, <1>3, <1>4, <2>2 DEF NewSessionIsPartial, QuietIsMeasured, Waiting
  <2>3. CASE status' # "down"
    <3>1. status' = "running" /\ TakenStatus(shown) = "running" /\ since' = TakenSince(started)
      BY <1>7, <2>3 DEF IngestFrom, TakenStatus
    <3>2. since' = started
      BY <1>7, <3>1 DEF TakenStatus, TakenSince
    <3> QED
      BY <1>1, <1>2, <1>3, <1>4, <1>7, <2>1, <3>1, <3>2
         DEF NewSessionIsPartial, QuietIsMeasured, Loading
  <2> QED
    BY <2>2, <2>3
<1> QED
  BY <1>5, <1>6, <1>7 DEF Measured

LEMMA StepSilence == SilenceInv /\ [Next]_vars => SilenceInv'
PROOF
<1> SUFFICES ASSUME SilenceInv, [Next]_vars
             PROVE  NewSessionIsPartial' /\ PassIsRecent' /\ QuietIsMeasured'
  BY StepType, StepWatched DEF SilenceInv, WatchInv
<1>0. /\ TypeOK /\ NewSessionIsPartial /\ PassIsRecent
      /\ quiet <= lineAge
      /\ status # "connecting" =>
           quiet <= wokeAge \/ Waiting \/ (Loading /\ since <= wokeAge)
  BY DEF SilenceInv, QuietIsMeasured
<1>t. /\ lineAge \in Age /\ since \in Age /\ passAge \in Age /\ wokeAge \in Age
      /\ awake \in Age /\ quiet \in Age /\ awake <= Cap /\ quiet <= Cap
      /\ Age \subseteq Nat /\ Cap \in Nat /\ Never \in Nat /\ Cap < Never /\ 0 \in Age
  BY <1>0, TypeAges, Thresholds DEF Age
<1>1. CASE Opened
  BY <1>0, <1>t, <1>1
     DEF Opened, app, NewSessionIsPartial, PassIsRecent, QuietIsMeasured
<1>2. ASSUME Heard, stage' = stage \/ status # "connecting", stage' # "full" => pending' # "full" \/ status # "connecting"
      PROVE  NewSessionIsPartial' /\ PassIsRecent' /\ QuietIsMeasured'
  <2>1. /\ quiet' = 0 /\ lineAge' = 0 /\ passAge' = passAge /\ wokeAge' = wokeAge
        /\ status' = status /\ latest' = latest /\ framed' = framed
    BY <1>2 DEF Heard, app
  <2>2. NewSessionIsPartial'
    BY <1>0, <1>2, <2>1 DEF NewSessionIsPartial
  <2>3. PassIsRecent'
    BY <1>0, <2>1 DEF PassIsRecent
  <2>4. QuietIsMeasured'
    BY <1>t, <2>1 DEF QuietIsMeasured
  <2> QED
    BY <2>2, <2>3, <2>4
<1>3. CASE ProgressLine
  BY <1>0, <1>2, <1>3 DEF ProgressLine, NewSessionIsPartial
<1>4. CASE SnapshotLine
  BY <1>0, <1>2, <1>4 DEF SnapshotLine, NewSessionIsPartial
<1>5. CASE FeedEnds
  BY <1>0, <1>5
     DEF FeedEnds, app, NewSessionIsPartial, PassIsRecent, QuietIsMeasured, Waiting, Loading
<1>6. CASE Ingest
  <2>1. status \in {"running", "down"} /\ IngestFrom(status, since)
    BY <1>0, <1>6 DEF Ingest, TypeOK
  <2> QED
    BY <1>6, <1>t, <2>1, IngestMeasured, IngestSilence
<1>7. CASE IdleFrame
  BY <1>0, <1>7
     DEF IdleFrame, app, state, NewSessionIsPartial, PassIsRecent, QuietIsMeasured
<1>8. CASE Adopt
  BY <1>t, <1>8, AdoptMeasured, IngestSilence DEF Adopt
<1>9. CASE Respawn
  BY <1>t, <1>9 DEF Respawn, NewSessionIsPartial, PassIsRecent, QuietIsMeasured
<1>10. CASE Tick
  <2>1. /\ Ages(1) /\ framed /\ framed' = FALSE
        /\ quiet' = Older(quiet, 1) /\ 1 \in Nat
    BY <1>10 DEF Tick
  <2>2. /\ lineAge' = Older(lineAge, 1) /\ since' = Older(since, 1)
        /\ passAge' = Older(passAge, 1) /\ wokeAge' = Older(wokeAge, 1)
        /\ status' = status /\ pending' = pending /\ latest' = latest /\ stage' = stage
    BY <2>1 DEF Ages
  <2>3. NewSessionIsPartial'
    BY <1>0, <2>2 DEF NewSessionIsPartial
  <2>4. PassIsRecent'
    BY <1>0, <2>1, <2>2, OneTick DEF PassIsRecent
  <2>5. quiet' <= lineAge'
    BY <1>0, <1>t, <2>1, <2>2, OlderOrder
  <2>6. quiet <= wokeAge => quiet' <= wokeAge'
    BY <1>t, <2>1, <2>2, OlderOrder
  <2>7. since <= wokeAge => since' <= wokeAge'
    BY <1>t, <2>1, <2>2, OlderOrder
  <2>8. since # Never => since' # Never
    BY <1>t, <2>1, <2>2, OlderType
  <2> QED
    BY <1>0, <2>2, <2>3, <2>4, <2>5, <2>6, <2>7, <2>8 DEF QuietIsMeasured, Waiting, Loading
<1>11. CASE Sleep
  <2>1. PICK ticks \in Sleeps : Ages(ticks)
    BY <1>11 DEF Sleep
  <2>2. quiet' = 0 /\ framed' = FALSE /\ ticks \in Nat
    BY <1>11, SleepTicks DEF Sleep
  <2>3. /\ lineAge' = Older(lineAge, ticks) /\ passAge' = Older(passAge, ticks)
        /\ wokeAge' = Older(wokeAge, ticks) /\ stage' = stage
        /\ status' = status /\ pending' = pending /\ latest' = latest
    BY <2>1 DEF Ages
  <2>4. lineAge' \in Nat /\ wokeAge' \in Nat /\ (passAge # Never => passAge' # Never)
    BY <1>t, <2>2, <2>3, OlderType
  <2> QED
    BY <1>0, <2>2, <2>3, <2>4 DEF NewSessionIsPartial, PassIsRecent, QuietIsMeasured
<1>12. CASE UNCHANGED vars
  BY <1>0, <1>12
     DEF vars, state, app, NewSessionIsPartial, PassIsRecent, QuietIsMeasured, Waiting, Loading
<1> QED
  BY <1>1, <1>3, <1>4, <1>5, <1>6, <1>7, <1>8, <1>9, <1>10, <1>11, <1>12 DEF Next

LEMMA InitSilence == Init => SilenceInv
PROOF
<1> SUFFICES ASSUME Init PROVE SilenceInv
  OBVIOUS
<1>1. TypeOK
  BY InitType
<1>2. 0 <= Never
  BY Thresholds
<1> QED
  BY <1>1, <1>2
     DEF Init, SilenceInv, LineKnown, RunningIsWatched, NewSessionIsPartial,
         PassIsRecent, QuietIsMeasured

\* What the watchdog lets pass was heard in time, or its load is young.
LEMMA IngestFrozen ==
  ASSUME SilenceInv, NEW shown \in {"running", "down"}, NEW started \in Age,
         IngestFrom(shown, started),
         Measured(shown, started),
         shown = "running" /\ latest # "full" => started # Never
  PROVE  FrozenIsNotRunning'
PROOF
<1> SUFFICES ASSUME status' = "running"
             PROVE  IF latest' = "full" THEN quiet' <= FeedSilence
                    ELSE quiet' <= LineSilence \/ since' <= Startup
  BY DEF FrozenIsNotRunning
<1>1. /\ TypeOK /\ quiet <= lineAge /\ RunningIsWatched /\ LineKnown
      /\ LineSilence \in Nat /\ FeedSilence \in Nat /\ Startup \in Nat
      /\ 0 < LineSilence /\ LineSilence < FeedSilence /\ FeedSilence < Startup
  BY WatchdogAssumption DEF SilenceInv, QuietIsMeasured
<1>2. /\ quiet \in Nat /\ lineAge \in Nat /\ Woke \in Nat /\ started \in Nat
      /\ quiet <= Cap /\ Cap < Never /\ Cap \in Nat /\ Never \in Nat
  BY <1>1, TypeAges, WokeType, Thresholds
<1>3. /\ TakenStatus(shown) = "running" /\ since' = TakenSince(started)
      /\ latest' = Taken /\ quiet' = quiet
      /\ ~ Stalled(Taken, since', Latest(lineAge, Woke))
  BY DEF IngestFrom
<1>4. feed # "ended" /\ (pending # "none" \/ shown = "running")
  BY <1>3 DEF TakenStatus
<1> DEFINE heard == Latest(lineAge, Woke)
<1>5. heard \in Nat /\ (quiet <= Woke => quiet <= heard) /\ heard <= Woke
  BY <1>1, <1>2 DEF Latest
<1>6. CASE Taken = "full"
  <2>1. lineAge # Never
    BY <1>1, <1>6 DEF Taken, LineKnown
  <2>2. quiet <= Woke
    BY <1>4, <1>6 DEF Taken, Measured
  <2>3. heard = Never \/ heard <= FeedSilence
    BY <1>1, <1>3, <1>5, <1>6 DEF Stalled
  <2>4. heard # Never
    <3>1. lineAge < Never
      BY <1>1, <1>2, <2>1, TypeAges DEF Age
    <3> QED
      BY <1>2, <3>1 DEF Latest
  <2> QED
    BY <1>1, <1>2, <1>3, <1>5, <1>6, <2>2, <2>3, <2>4
<1>7. CASE Taken # "full"
  <2>1. since' # Never /\ since' \in Nat
    BY <1>1, <1>2, <1>3, <1>4, <1>7, OneTick DEF TakenSince, TakenStatus, Taken, TypeOK
  <2>2. since' <= Startup \/ heard <= LineSilence
    BY <1>1, <1>3, <1>5, <1>7, <2>1 DEF Stalled, StartupStalled
  <2>3. CASE quiet <= Woke
    BY <1>1, <1>2, <1>3, <1>5, <1>7, <2>2, <2>3
  <2>4. CASE /\ shown = "running" /\ latest # "full" /\ pending # "full"
             /\ started # Never /\ started <= Woke
    <3>1. since' = started
      BY <1>3, <1>4, <2>4 DEF TakenSince
    <3>2. heard <= LineSilence => since' <= Startup \/ quiet <= LineSilence
      <4>1. CASE heard = Woke
        BY <1>1, <1>2, <2>4, <3>1, <4>1
      <4>2. CASE heard # Woke
        BY <1>1, <1>2, <4>2 DEF Latest
      <4> QED
        BY <4>1, <4>2
    <3> QED
      BY <1>3, <1>7, <2>2, <3>2
  <2> QED
    BY <1>4, <1>7, <2>3, <2>4 DEF Measured, Taken
<1> QED
  BY <1>6, <1>7

LEMMA StepFrozen ==
  SilenceInv /\ FrozenIsNotRunning /\ [Next]_vars => FrozenIsNotRunning'
PROOF
<1> SUFFICES ASSUME SilenceInv, FrozenIsNotRunning, [Next]_vars
             PROVE  FrozenIsNotRunning'
  OBVIOUS
<1>0. TypeOK /\ RunningIsWatched /\ 0 \in Age
  BY Thresholds DEF SilenceInv, Age
<1>t. LineSilence \in Nat /\ FeedSilence \in Nat
  BY Thresholds
<1>1. CASE Opened
  BY <1>1, <1>t DEF Opened, FrozenIsNotRunning
<1>2. CASE ProgressLine \/ SnapshotLine
  <2>1. /\ framed' = framed /\ status' = status /\ latest' = latest /\ since' = since
        /\ quiet' = 0
    BY <1>2 DEF ProgressLine, SnapshotLine, Heard, app
  <2> QED
    BY <1>t, <2>1 DEF FrozenIsNotRunning
<1>3. CASE FeedEnds
  BY <1>3 DEF FeedEnds, app, FrozenIsNotRunning
<1>4. CASE Ingest
  <2>1. status \in {"running", "down"} /\ IngestFrom(status, since) /\ since \in Age
    BY <1>0, <1>4 DEF Ingest, TypeOK
  <2>2. status = "running" /\ latest # "full" => since # Never
    BY <1>0 DEF RunningIsWatched
  <2> QED
    BY <1>4, <2>1, <2>2, IngestMeasured, IngestFrozen
<1>5. CASE IdleFrame
  BY <1>5 DEF IdleFrame, app, FrozenIsNotRunning
<1>6. CASE Adopt
  BY <1>0, <1>6, OneTick, AdoptMeasured, IngestFrozen DEF Adopt
<1>7. CASE Respawn
  BY <1>7 DEF Respawn, FrozenIsNotRunning
<1>8. CASE Tick \/ Sleep
  BY <1>8 DEF Tick, Sleep, FrozenIsNotRunning
<1>9. CASE UNCHANGED vars
  BY <1>9 DEF vars, app, FrozenIsNotRunning
<1> QED
  BY <1>1, <1>2, <1>3, <1>4, <1>5, <1>6, <1>7, <1>8, <1>9 DEF Next

\* Frozen readings never sit under the running dot (PerfApp::ingest_at): after
\* every frame, a session shown as running has had a line within the silence its
\* watchdog allows, wakes counted as lines, or its load is within its time.
THEOREM FrozenIsNotRunningCorrect == Spec => []FrozenIsNotRunning
PROOF
<1>1. Init => SilenceInv /\ FrozenIsNotRunning
  BY InitSilence DEF Init, FrozenIsNotRunning
<1>2. SilenceInv /\ FrozenIsNotRunning /\ [Next]_vars => SilenceInv' /\ FrozenIsNotRunning'
  BY StepSilence, StepFrozen
<1> QED
  BY <1>1, <1>2, PTL DEF Spec

-----------------------------------------------------------------------------
(* False alarms, when every sleep leaves a gap that a frame takes for one.  *)

\* The silence the watchdog measures is no longer than the machine was awake for:
\* its line, its wake or its load is as young.
AwakeIsMeasured ==
  status # "connecting" =>
    \/ Waiting \/ lineAge <= awake \/ Woke <= awake
    \/ Loading /\ since <= awake

LEMMA IngestAwake ==
  ASSUME SilenceInv, NEW shown \in {"running", "down"}, NEW started \in Age,
         IngestFrom(shown, started),
         \/ lineAge <= awake \/ Woke <= awake
         \/ shown = "down" /\ pending = "none"
         \/ /\ shown = "running" /\ latest # "full" /\ pending # "full"
            /\ started # Never /\ started <= awake
  PROVE  AwakeIsMeasured'
PROOF
<1>1. /\ lineAge' = lineAge /\ awake' = awake /\ pending' = "none" /\ latest' = Taken
      /\ passAge' = 0 /\ wokeAge' = Woke
  BY DEF IngestFrom
<1>w. Woke' = Woke
  <2>1. ~ (passAge' > FeedSilence)
    BY <1>1, OneTick
  <2>2. Woke' = wokeAge'
    BY <2>1 DEF Woke
  <2> QED
    BY <1>1, <2>2
<1>2. CASE lineAge <= awake \/ Woke <= awake
  BY <1>1, <1>w, <1>2 DEF AwakeIsMeasured
<1>3. CASE shown = "down" /\ pending = "none"
  BY <1>1, <1>3 DEF IngestFrom, TakenStatus, AwakeIsMeasured, Waiting
<1>4. CASE /\ shown = "running" /\ latest # "full" /\ pending # "full"
           /\ started # Never /\ started <= awake
  <2>1. Taken # "full"
    BY <1>4 DEF Taken
  <2>2. CASE status' = "down"
    BY <1>1, <2>2 DEF AwakeIsMeasured, Waiting
  <2>3. CASE status' # "down"
    <3>1. status' = "running" /\ TakenStatus(shown) = "running" /\ since' = TakenSince(started)
      BY <1>4, <2>3 DEF IngestFrom, TakenStatus
    <3>2. since' = started
      BY <1>4, <3>1 DEF TakenStatus, TakenSince
    <3> QED
      BY <1>1, <1>4, <2>1, <3>1, <3>2 DEF AwakeIsMeasured, Loading
  <2> QED
    BY <2>2, <2>3
<1> QED
  BY <1>2, <1>3, <1>4

LEMMA StepAwake ==
  ASSUME SilenceInv, AwakeIsMeasured, [Next]_vars,
         \A ticks \in Sleeps : ticks > FeedSilence
  PROVE  AwakeIsMeasured'
PROOF
<1>0. TypeOK /\ NewSessionIsPartial /\ PassIsRecent
  BY DEF SilenceInv
<1>t. /\ lineAge \in Age /\ since \in Age /\ passAge \in Age /\ wokeAge \in Age
      /\ awake \in Age /\ quiet \in Age /\ awake <= Cap
      /\ Age \subseteq Nat /\ Cap \in Nat /\ Never \in Nat /\ Cap < Never /\ 0 \in Age
  BY <1>0, TypeAges, Thresholds DEF Age
<1> USE DEF AwakeIsMeasured, Waiting, Loading
<1>1. CASE Opened
  BY <1>1 DEF Opened, app
<1>2. CASE ProgressLine \/ SnapshotLine
  BY <1>2 DEF ProgressLine, SnapshotLine, Heard
<1>3. CASE FeedEnds
  BY <1>3 DEF FeedEnds, app, Woke
<1>4. CASE Ingest
  <2>1. status \in {"running", "down"} /\ IngestFrom(status, since)
    BY <1>0, <1>4 DEF Ingest, TypeOK
  <2> QED
    BY <1>4, <1>t, <2>1, IngestAwake DEF Ingest
<1>5. CASE IdleFrame
  BY <1>5 DEF IdleFrame, app
<1>6. CASE Adopt
  <2>1. IngestFrom("running", 0) /\ latest # "full" /\ pending # "full"
    BY <1>0, <1>6 DEF Adopt, NewSessionIsPartial
  <2>2. 0 # Never /\ 0 <= awake
    BY <1>t, OneTick
  <2> QED
    BY <1>t, <2>1, <2>2, IngestAwake
<1>7. CASE Respawn
  BY <1>7 DEF Respawn
<1>8. CASE Tick
  <2>1. SUFFICES ASSUME status # "connecting" PROVE AwakeIsMeasured'
    BY <1>8 DEF Tick, Ages
  <2>2. /\ lineAge' = Older(lineAge, 1) /\ since' = Older(since, 1)
        /\ passAge' = Older(passAge, 1) /\ wokeAge' = Older(wokeAge, 1)
        /\ awake' = Older(awake, 1) /\ framed /\ 1 \in Nat
        /\ status' = status /\ pending' = pending /\ latest' = latest
    BY <1>8 DEF Tick, Ages
  <2>3. passAge = 0 /\ passAge' = 1
    BY <1>0, <2>1, <2>2, OneTick DEF PassIsRecent
  <2>4. Woke = wokeAge /\ Woke' = wokeAge'
    BY <2>3, OneTick DEF Woke
  <2>5. lineAge <= awake => lineAge' <= awake'
    BY <1>t, <2>2, OlderOrder
  <2>6. Woke <= awake => Woke' <= awake'
    BY <1>t, <2>2, <2>4, OlderOrder
  <2>7. since <= awake => since' <= awake'
    BY <1>t, <2>2, OlderOrder
  <2>8. since # Never => since' # Never
    BY <1>t, <2>2, OlderType
  <2> QED
    BY <2>2, <2>5, <2>6, <2>7, <2>8
<1>9. CASE Sleep
  <2>1. SUFFICES ASSUME status # "connecting" PROVE AwakeIsMeasured'
    BY <1>9 DEF Sleep, Ages
  <2>2. PICK ticks \in Sleeps : Ages(ticks)
    BY <1>9 DEF Sleep
  <2>3. passAge' = Older(passAge, ticks) /\ passAge # Never /\ ticks \in Nat /\ ticks > FeedSilence
    BY <1>0, <2>1, <2>2, SleepTicks DEF Ages, PassIsRecent
  <2>4. passAge' > FeedSilence /\ passAge' # Never
    BY <1>t, <2>3, OlderLength
  <2>5. Woke' = 0 /\ awake' = awake /\ 0 <= awake
    BY <1>9, <1>t, <2>4 DEF Woke, Sleep
  <2> QED
    BY <2>5
<1>10. CASE UNCHANGED vars
  BY <1>10 DEF vars, state, app, Woke
<1> QED
  BY <1>1, <1>2, <1>3, <1>4, <1>5, <1>6, <1>7, <1>8, <1>9, <1>10 DEF Next

\* Only a frame demotes a session whose pipe is open, and only for that silence.
LEMMA StepAlarm ==
  ASSUME SilenceInv, AwakeIsMeasured, Next,
         status = "running", status' = "down", feed = "open"
  PROVE  awake > IF latest' = "full" THEN FeedSilence ELSE LineSilence
PROOF
<1>0. /\ TypeOK /\ LineKnown
      /\ LineSilence \in Nat /\ FeedSilence \in Nat /\ Startup \in Nat
      /\ 0 < LineSilence /\ LineSilence < FeedSilence /\ FeedSilence < Startup
  BY WatchdogAssumption DEF SilenceInv
<1>1. IngestFrom(status, since)
  BY DEF Next, Opened, ProgressLine, SnapshotLine, Heard, FeedEnds, Ingest, IdleFrame,
         Adopt, Respawn, Tick, Sleep, Ages, app
<1> DEFINE heard == Latest(lineAge, Woke)
<1>2. Stalled(Taken, TakenSince(since), heard) /\ latest' = Taken
  BY <1>1 DEF IngestFrom, TakenStatus
<1>3. /\ awake \in Nat /\ since \in Nat /\ lineAge \in Nat /\ Woke \in Nat /\ Never \in Nat
      /\ heard <= lineAge /\ heard <= Woke /\ heard \in Nat
  BY <1>0, TypeAges, WokeType DEF Latest
<1>4. CASE lineAge <= awake \/ Woke <= awake
  <2>1. heard <= awake
    BY <1>3, <1>4
  <2> QED
    BY <1>0, <1>2, <1>3, <2>1 DEF Stalled, StartupStalled
<1>5. CASE Loading /\ since <= awake
  <2>1. Taken # "full" /\ TakenSince(since) = since
    BY <1>5 DEF Loading, Taken, TakenSince
  <2>2. since > Startup
    BY <1>2, <2>1 DEF Stalled, StartupStalled
  <2> QED
    BY <1>0, <1>2, <1>3, <1>5, <2>1, <2>2
<1> QED
  BY <1>4, <1>5 DEF AwakeIsMeasured, Waiting

\* A live feed is demoted only for silence the machine was awake for (the wake
\* guard of PerfApp::ingest_at), as long as every sleep is longer than the gap
\* between frames that the guard tells one from.
THEOREM NoFalseAlarmCorrect ==
  ASSUME \A ticks \in Sleeps : ticks > FeedSilence
  PROVE  Spec => NoFalseAlarm
PROOF
<1>1. Init => SilenceInv /\ AwakeIsMeasured
  BY InitSilence DEF Init, AwakeIsMeasured
<1>2. SilenceInv /\ AwakeIsMeasured /\ [Next]_vars => SilenceInv' /\ AwakeIsMeasured'
  BY StepSilence, StepAwake
<1>3. SilenceInv /\ AwakeIsMeasured /\ [Next]_vars =>
        [status = "running" /\ status' = "down" /\ feed = "open" =>
           awake > IF latest' = "full" THEN FeedSilence ELSE LineSilence]_vars
  BY StepAlarm
<1> QED
  BY <1>1, <1>2, <1>3, PTL DEF Spec, NoFalseAlarm
=============================================================================
