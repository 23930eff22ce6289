--------------------------- MODULE UpdateDownload ---------------------------
(***************************************************************************)
(* Downloading and starting the installer of a newer release: the update   *)
(* modal (ui/update_modal.rs), one worker thread per attempt               *)
(* (update/download.rs) and the frames that take what a worker left        *)
(* (app.rs).                                                               *)
(*                                                                         *)
(* A frame first polls the outcome slot and then, unless the window is the *)
(* mini strip, draws the modal and handles at most one click in it.        *)
(* Workers run between and within frames.  A minimised window draws no     *)
(* frames: nothing bounds the time between two of them.                    *)
(***************************************************************************)
EXTENDS Naturals

CONSTANTS
  MaxAttempts,  \* bound: attempts one process starts
  MaxRelaunches \* bound: processes that follow the first

ASSUME AttemptsAssumption == MaxAttempts \in Nat \ {0}
ASSUME RelaunchesAssumption == MaxRelaunches \in Nat

VARIABLES
  frame,      \* what the UI thread does next: "poll", the "launch" of a verified
              \* installer within it, "modal"; "gone" after a launch
  strip,      \* the window is the mini strip
  available,  \* update_state is Available
  open,       \* update_modal_open
  phase,      \* update_modal_phase
  generation, \* update_download_generation, the attempt the modal shows
  cancelled,  \* the cancel flag of each attempt; the flag before the first is 0's
  slot,       \* update_download_outcome
  worker,     \* where the thread of each attempt stands
  disk,       \* what the file of each attempt holds
  installing, \* the attempt whose installer was started: want_quit
  swapped,    \* history: that installer was replaced or removed since its check
  relaunches  \* processes started so far (bounds the model)

downloadVars == <<frame, strip, available, open, phase, generation, cancelled,
                  slot, worker, disk, installing, swapped, relaunches>>

Attempts == 1 .. MaxAttempts
Phases   == {"Confirm", "Downloading", "Failed", "LaunchFailed"}
Outcomes == {"ready", "failed", "cancelled"}
Writing  == {"copying", "reading"}
Running  == {"fetching"} \cup Writing
Contents == {"none", "partial", "whole", "changed"}

None == [attempt |-> 0, kind |-> "none"]

\* The modal shows its progress bar.
Downloading == open /\ phase = "Downloading"

modal == <<open, phase, generation, cancelled>>
ui    == <<frame, strip, installing, swapped>>

DownloadInit ==
  /\ frame = "poll" /\ strip \in BOOLEAN /\ available = FALSE
  /\ open = FALSE /\ phase = "Confirm" /\ generation = 0
  /\ cancelled = [a \in 0 .. MaxAttempts |-> FALSE]
  /\ slot = None
  /\ worker = [a \in Attempts |-> "none"]
  /\ disk = [a \in Attempts |-> "none"]
  /\ installing = 0 /\ swapped = FALSE /\ relaunches = 0

-----------------------------------------------------------------------------
(* The worker of attempt a.                                                *)

\* The worker's own step; its file holds c afterwards.
Work(a, from, to, c) ==
  /\ frame # "gone" /\ worker[a] = from
  /\ worker' = [worker EXCEPT ![a] = to]
  /\ disk' = [disk EXCEPT ![a] = c]
  /\ UNCHANGED <<ui, modal, available, slot, relaunches>>

\* The checksum or the installer cannot be fetched, or the file not created.
FetchFails(a) == Work(a, "fetching", "failed", disk[a])

\* The response arrives; File::create truncates what an earlier process left.
FetchSucceeds(a) == Work(a, "fetching", "copying", "partial")

\* Mutant: the flag is never looked at.
NeverStops(a) == FALSE

\* Before every chunk the worker looks at its cancel flag.
StopsAtCancel(a) == cancelled[a]

LoadCancel(a) ==
  IF StopsAtCancel(a) THEN Work(a, "copying", "cancelled", "none")
                      ELSE Work(a, "copying", "reading", disk[a])

ReadChunk(a) == Work(a, "reading", "copying", disk[a])

\* All bytes came and the checksum fits.  A name removed meanwhile stays removed.
ReadCompletes(a) ==
  Work(a, "reading", "ready", IF disk[a] = "partial" THEN "whole" ELSE disk[a])

\* What a failed transfer leaves of the file at the destination.
AfterFailure(a) == "none"

\* A read or write error, a short body or another checksum.
ReadFails(a) == Work(a, "reading", "failed", AfterFailure(a))

\* Mutant: only a success is reported.
ReportSuccess(a) ==
  /\ frame # "gone" /\ worker[a] \in Outcomes
  /\ slot' = IF worker[a] = "ready" THEN [attempt |-> a, kind |-> "ready"] ELSE slot
  /\ worker' = [worker EXCEPT ![a] = "done"]
  /\ UNCHANGED <<ui, modal, available, disk, relaunches>>

\* on_finish: the slot takes the outcome, whatever it holds.
Report(a) ==
  /\ frame # "gone" /\ worker[a] \in Outcomes
  /\ slot' = [attempt |-> a, kind |-> worker[a]]
  /\ worker' = [worker EXCEPT ![a] = "done"]
  /\ UNCHANGED <<ui, modal, available, disk, relaunches>>

ReadEnds(a) == ReadCompletes(a) \/ ReadFails(a)
WorkerStep(a) ==
  \/ FetchFails(a) \/ FetchSucceeds(a) \/ LoadCancel(a)
  \/ ReadChunk(a) \/ ReadEnds(a) \/ Report(a)

-----------------------------------------------------------------------------
(* poll_download_outcome, at the start of a frame.                         *)

\* Mutant: half of the condition.
OfThisAttempt == slot.attempt = generation

\* Only the outcome of the attempt on screen counts.
Current == slot.attempt = generation /\ Downloading

\* install::verify reads the file again.
Verified(a) == disk[a] = "whole"

Show(p)   == phase' = p /\ UNCHANGED disk
Remove(a) == disk' = [disk EXCEPT ![a] = "none"]

\* A finished installer that is not started.
RefuseReady(a) ==
  \/ ~Current /\ Remove(a) /\ UNCHANGED phase
  \/ Current /\ ~Verified(a) /\ Remove(a) /\ phase' = "Failed"

TakeFailed == IF Current THEN Show("Failed") ELSE Show(phase)

\* The poll returns.  The strip draws no modal; its own controls may restore the
\* window.
PollReturns ==
  \/ ~strip /\ frame' = "modal" /\ UNCHANGED strip
  \/ /\ strip /\ strip' \in BOOLEAN
     /\ frame' = IF installing' # 0 THEN "gone" ELSE "poll"

Poll ==
  /\ frame = "poll"
  /\ slot' = None
  /\ \/ slot.kind = "ready" /\ RefuseReady(slot.attempt)
     \/ slot.kind = "failed" /\ TakeFailed
     \/ slot.kind \in {"cancelled", "none"} /\ Show(phase)
  /\ UNCHANGED <<open, generation, cancelled, available, worker, installing, swapped,
                 relaunches>>
  /\ PollReturns

\* The poll finds the finished installer of the attempt on screen as it was.
VerifyInstaller ==
  /\ frame = "poll" /\ slot.kind = "ready" /\ Current /\ Verified(slot.attempt)
  /\ slot' = None /\ frame' = "launch"
  /\ UNCHANGED <<strip, installing, swapped, modal, available, worker, disk, relaunches>>

\* install::launch hands the path to Windows, which asks for elevation, opens the
\* file it then finds there and starts it or not.
LaunchInstaller ==
  /\ frame = "launch"
  /\ \/ /\ disk[generation] # "none"
        /\ installing' = generation /\ UNCHANGED phase
     \/ phase' = "LaunchFailed" /\ UNCHANGED installing
  /\ swapped' = FALSE
  /\ PollReturns
  /\ UNCHANGED <<open, generation, cancelled, slot, available, worker, disk, relaunches>>

-----------------------------------------------------------------------------
(* The modal, later in the same frame.                                     *)

\* The frame ends; a launched installer closes the window with it.
EndFrame ==
  /\ frame = "modal"
  /\ frame' = IF installing # 0 THEN "gone" ELSE "poll"
  /\ UNCHANGED <<available, installing, swapped, relaunches>>

CancelAttempt == cancelled' = [cancelled EXCEPT ![generation] = TRUE]

\* Mutant: the worker is not told.
AbandonSilently == UNCHANGED cancelled /\ open' = FALSE /\ phase' = "Confirm"

\* Every way the modal closes abandons the attempt.
Abandon == CancelAttempt /\ open' = FALSE /\ phase' = "Confirm"

Kept == UNCHANGED <<strip, generation, slot, worker, disk>>

\* Nothing is clicked, or the window becomes the strip.
DrawFrame ==
  /\ EndFrame /\ (open => available)
  /\ strip' \in BOOLEAN
  /\ UNCHANGED <<modal, slot, worker, disk>>

\* "Update" in the banner of an available release.
OpenModal ==
  /\ EndFrame /\ ~open /\ available
  /\ open' = TRUE /\ UNCHANGED <<phase, generation, cancelled>> /\ Kept

\* The release is gone: a new check has begun.
ReleaseEvaporates == EndFrame /\ open /\ ~available /\ Abandon /\ Kept

Clicked == EndFrame /\ open /\ available

CloseModal == Clicked /\ Abandon /\ Kept

CancelDownload ==
  /\ Clicked /\ phase = "Downloading"
  /\ CancelAttempt /\ phase' = "Confirm" /\ UNCHANGED open /\ Kept

TryAgain ==
  /\ Clicked /\ phase \in {"Failed", "LaunchFailed"}
  /\ phase' = "Confirm" /\ UNCHANGED <<open, cancelled>> /\ Kept

\* A fresh flag for the new attempt g.
FreshFlag(g) == cancelled' = [cancelled EXCEPT ![g] = FALSE]

\* start_update_download.  remove_stale_downloads leaves only the new attempt's
\* file, also where an orphan still writes: its handle shares deletion.
StartDownload ==
  /\ Clicked /\ phase = "Confirm" /\ generation < MaxAttempts
  /\ LET g == generation + 1 IN
     /\ generation' = g
     /\ FreshFlag(g)
     /\ disk' = [a \in Attempts |-> IF a = g THEN disk[a] ELSE "none"]
     /\ slot' = None
     /\ phase' = "Downloading"
     /\ worker' = [worker EXCEPT ![g] = "fetching"]
  /\ UNCHANGED <<strip, open>>

Frame ==
  \/ Poll \/ VerifyInstaller \/ LaunchInstaller \/ DrawFrame \/ OpenModal \/ ReleaseEvaporates
  \/ CloseModal \/ CancelDownload \/ TryAgain \/ StartDownload

-----------------------------------------------------------------------------
(* Around them.                                                            *)

\* A check publishes: Available, or one of the other states.
CheckPublishes ==
  /\ frame # "gone" /\ available' = ~available
  /\ UNCHANGED <<ui, modal, slot, worker, disk, relaunches>>

\* Another program removes or replaces a finished installer, also between its
\* last check and its launch.
FileDisturbed(a) ==
  /\ disk[a] = "whole" /\ installing = 0
  /\ \E c \in {"none", "changed"} : disk' = [disk EXCEPT ![a] = c]
  /\ swapped' = (frame = "launch" /\ (swapped \/ a = generation))
  /\ UNCHANGED <<frame, strip, installing, modal, available, slot, worker, relaunches>>

\* The process ends between two frames, or while it waits for the launch, and is
\* started again: its threads die where they stand, the files stay.
Relaunch ==
  /\ frame \in {"poll", "launch"} /\ frame' = "poll" /\ swapped' = FALSE
  /\ relaunches < MaxRelaunches /\ relaunches' = relaunches + 1
  /\ strip' \in BOOLEAN /\ available' = FALSE
  /\ open' = FALSE /\ phase' = "Confirm" /\ generation' = 0
  /\ cancelled' = [a \in 0 .. MaxAttempts |-> FALSE]
  /\ slot' = None /\ worker' = [a \in Attempts |-> "none"]
  /\ UNCHANGED <<disk, installing>>

DownloadNext ==
  \/ Frame \/ CheckPublishes \/ Relaunch
  \/ \E a \in Attempts : WorkerStep(a) \/ FileDisturbed(a)

DownloadSpec == DownloadInit /\ [][DownloadNext]_downloadVars

\* Threads run (every network call has a time limit), frames are drawn, and the
\* launch returns once its elevation prompt is answered.
FairThreads ==
  /\ WF_downloadVars(Frame)
  /\ \A a \in Attempts : WF_downloadVars(WorkerStep(a))

DownloadFairSpec == DownloadSpec /\ FairThreads

-----------------------------------------------------------------------------

\* Types, and: a closed modal is back at its first screen, an empty slot names no
\* attempt, attempts not yet started have no thread, and only a launch ends the
\* frames (update_modal.rs:73-84 and 154-161, app.rs:1044).
DownloadTypeOK ==
  /\ frame \in {"poll", "launch", "modal", "gone"}
  /\ {strip, available, open, swapped} \subseteq BOOLEAN
  /\ phase \in Phases
  /\ generation \in 0 .. MaxAttempts
  /\ cancelled \in [0 .. MaxAttempts -> BOOLEAN]
  /\ slot \in [attempt : Attempts, kind : Outcomes] \cup {None}
  /\ worker \in [Attempts -> {"none", "done"} \cup Running \cup Outcomes]
  /\ disk \in [Attempts -> Contents]
  /\ installing \in 0 .. MaxAttempts
  /\ relaunches \in 0 .. MaxRelaunches
  /\ open \/ phase = "Confirm"
  /\ slot.attempt <= generation
  /\ \A a \in Attempts : a > generation => worker[a] = "none"
  /\ frame = "gone" => installing # 0

\* A worker that still transfers is the one on the progress screen, or it has been
\* told to stop: however the screen was left (a cancel, a close, a new check, a
\* failure), no transfer goes on that nobody waits for.
OrphansAreCancelled ==
  \A a \in Attempts :
    worker[a] \in Running => cancelled[a] \/ (Downloading /\ a = generation)

\* The attempt on the progress screen has a thread that was not told to stop: no
\* attempt inherits the cancellation of the one before it.
ShownAttemptIsLive ==
  Downloading => /\ generation # 0
                 /\ ~cancelled[generation] /\ worker[generation] # "none"

\* An installer is started only from the progress screen of its own attempt, not
\* cancelled (poll_download_outcome's promise that no orphan launches under a closed
\* modal), and with every byte of it on disk, unless another program replaced it
\* after its last check: the launch goes by path, and nothing looks again.
NoSurpriseLaunch ==
  [][installing' # installing =>
       /\ Downloading /\ installing' = generation
       /\ ~cancelled[generation]
       /\ disk[generation] = "whole" \/ swapped]_downloadVars

\* A failure reaches the screen only when the attempt shown there has ended: no
\* orphan paints its failure over a newer attempt.
FailureIsOwn ==
  [][phase' = "Failed" /\ phase # "Failed" => worker[generation] = "done"]_downloadVars

\* A worker that was told to stop ends, whatever the server sends.
CancelledWorkersEnd ==
  \A a \in Attempts :
    cancelled[a] ~> worker[a] \in {"none", "done"} \/ frame = "gone" \/ ~cancelled[a]

\* The worker of the attempt on screen has ended, and nobody has taken its outcome.
OutcomePending ==
  Downloading /\ (worker[generation] \in Outcomes \/ slot.attempt = generation)

\* The outcome "is written by the worker thread and applied to the UI on the next
\* frame" (update_modal.rs:414-416): it takes the progress screen down.
OutcomeIsApplied == OutcomePending ~> ~Downloading \/ installing # 0

\* It does where no worker of an earlier attempt is still under way.
LoneOutcomeIsApplied ==
  /\ OutcomePending
  /\ \A a \in Attempts : a < generation => worker[a] \in {"none", "done"}
  ~> ~Downloading \/ installing # 0
=============================================================================
