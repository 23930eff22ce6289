------------------------------ MODULE HotPlug ------------------------------
(***************************************************************************)
(* How the serve loop follows hardware that comes and goes                 *)
(* (SensorPipeWorker.ServeOne with TopologyDebounce): the staged enable of *)
(* the categories, the two-strike check every CheckEvery passes, and the   *)
(* replacement of the monitor, whose calls may throw one by one.           *)
(*                                                                         *)
(* The end of the session is SensorSession's subject; here the loop runs.  *)
(***************************************************************************)
EXTENDS Naturals, Sequences

CONSTANTS
  Devices,      \* hardware identifiers
  Stages,       \* number of staged categories
  Category,     \* the category of each device; 0 is CPU and RAM
  CheckEvery,   \* passes from one topology check to the next (five)
  None,         \* no identifier set
  MaxChanges,   \* bound: devices that come or go
  MaxFaults     \* bound: calls that throw

ASSUME CategoryAssumption == Stages \in Nat /\ Category \in [Devices -> 0..Stages]
ASSUME CheckAssumption == CheckEvery \in Nat \ {0}
ASSUME NoneAssumption == None \notin SUBSET Devices
ASSUME FaultsAssumption == MaxChanges \in Nat /\ MaxFaults \in Nat

VARIABLES
  loop,       \* where the pass stands
  devices,    \* what the machine has plugged in
  enabled,    \* staged categories the current monitor has enabled
  current,    \* the monitor MonitorRef holds: how many replaced it so far
  open,       \* monitors built and not closed
  hardware,   \* the pass's hardware list: identifiers, and whose it is
  tick,       \* tickCounter
  baseline,   \* TopologyDebounce._baseline; None while topology is null
  candidate,  \* TopologyDebounce._candidate
  disks,      \* the devices plugged in when currentDiskInfo was read
  sightings,  \* history: the last two sets checked since a rebuild was tried
  changes,    \* devices that came or went (bounds the model)
  faults      \* calls that threw (bounds the model)

debounce == <<baseline, candidate, sightings>>
vars == <<loop, devices, enabled, current, open, hardware, tick, baseline,
          candidate, disks, sightings, changes, faults>>

-----------------------------------------------------------------------------
\* What a monitor with n staged categories enabled lists.
Listed(n) == {d \in devices : Category[d] <= n}

\* The first pass carries the list of the refresh that init made.
Init ==
  /\ devices \in SUBSET Devices /\ enabled = 0
  /\ loop = "tick" /\ current = 0 /\ open = {0}
  /\ hardware = [ids |-> Listed(enabled), of |-> 0]
  /\ tick = 0 /\ baseline = None /\ candidate = None /\ disks = devices
  /\ sightings = <<>> /\ changes = 0 /\ faults = 0

\* A device is plugged in or pulled, or an enumeration glitch shows it so.
DeviceChanges(d) ==
  /\ changes < MaxChanges
  /\ devices' = IF d \in devices THEN devices \ {d} ELSE devices \cup {d}
  /\ changes' = changes + 1
  /\ UNCHANGED <<loop, enabled, current, open, hardware, tick, debounce, disks, faults>>

Refresh ==
  /\ loop = "refresh"
  /\ hardware' = [ids |-> Listed(enabled), of |-> current] /\ loop' = "tick"
  /\ UNCHANGED <<devices, enabled, current, open, tick, debounce, disks, changes, faults>>

\* The pass goes on without a check.
Tick ==
  /\ loop = "tick"
  /\ \/ tick + 1 < CheckEvery /\ tick' = tick + 1
     \/ tick + 1 >= CheckEvery /\ baseline = None /\ tick' = 0
  /\ loop' = "emit"
  /\ UNCHANGED <<devices, enabled, current, open, hardware, debounce, disks, changes, faults>>

\* Mutant: a second sighting only renews the candidate.
NeverFires(ids) ==
  /\ loop' = "emit"
  /\ candidate' = IF ids = baseline THEN None ELSE ids

\* TopologyDebounce.ShouldRebuild
ShouldRebuild(ids) ==
  \/ ids = baseline /\ loop' = "emit" /\ candidate' = None
  \/ ids # baseline /\ ids = candidate /\ loop' = "rebuild" /\ candidate' = None
  \/ ids # baseline /\ ids # candidate /\ loop' = "emit" /\ candidate' = ids

Check ==
  /\ loop = "tick" /\ tick + 1 >= CheckEvery /\ baseline # None
  /\ tick' = 0
  /\ ShouldRebuild(hardware.ids)
  /\ sightings' = IF sightings = <<>> THEN <<hardware.ids>>
                  ELSE <<sightings[Len(sightings)], hardware.ids>>
  /\ UNCHANGED <<devices, enabled, current, open, hardware, baseline, disks, changes, faults>>

\* new HardwareMonitor(log), every category at once.  It is built first, so a
\* failure keeps the old one; the pass then goes on to its snapshot.
ConstructFails ==
  /\ loop = "rebuild" /\ faults < MaxFaults
  /\ loop' = "emit" /\ faults' = faults + 1 /\ sightings' = <<>>
  /\ UNCHANGED <<devices, enabled, current, open, hardware, tick, baseline,
                 candidate, disks, changes>>

Construct ==
  /\ loop = "rebuild"
  /\ loop' = "dispose" /\ sightings' = <<>>
  /\ current' = current + 1 /\ open' = open \cup {current + 1}
  /\ enabled' = Stages
  /\ UNCHANGED <<devices, hardware, tick, baseline, candidate, disks, changes, faults>>

\* oldMonitor.Dispose: Computer.Close gives up the devices it held.
DisposeOld ==
  /\ loop = "dispose"
  /\ loop' = "disks" /\ open' = {current}
  /\ UNCHANGED <<devices, enabled, current, hardware, tick, debounce, disks, changes, faults>>

\* DiskInfoReader.Read, which throws nothing.
ReadDisks ==
  /\ loop = "disks"
  /\ loop' = "rescan" /\ disks' = devices
  /\ UNCHANGED <<devices, enabled, current, open, hardware, tick, debounce, changes, faults>>

\* The new monitor's first refresh is the new baseline: Rebaseline.
Rescan ==
  /\ loop = "rescan"
  /\ hardware' = [ids |-> Listed(enabled), of |-> current]
  /\ loop' = "emit" /\ baseline' = Listed(enabled) /\ candidate' = None
  /\ sightings' = <<>>
  /\ UNCHANGED <<devices, enabled, current, open, tick, disks, changes, faults>>

\* Build, Serialize and write the snapshot.
Emit ==
  /\ loop = "emit"
  /\ loop' = IF enabled < Stages THEN "enable" ELSE "refresh"
  /\ UNCHANGED <<devices, enabled, current, open, hardware, tick, debounce,
                 disks, changes, faults>>

\* Mutant: the debounce starts with the session.
EnableTracks ==
  /\ loop = "enable"
  /\ enabled' = enabled + 1 /\ loop' = "refresh"
  /\ baseline' = IF baseline = None THEN hardware.ids ELSE baseline
  /\ UNCHANGED <<devices, current, open, hardware, tick, candidate, disks,
                 sightings, changes, faults>>

\* EnableNextCategory; the last one starts the debounce on monitor.List().
Enable ==
  /\ loop = "enable"
  /\ enabled' = enabled + 1 /\ loop' = "refresh"
  /\ baseline' = IF enabled' = Stages THEN Listed(Stages) ELSE None
  /\ UNCHANGED <<devices, current, open, hardware, tick, candidate, disks,
                 sightings, changes, faults>>

\* An exception inside the pass: logged, and a second's pause.  What was
\* replaced before it stays replaced; what came after it is skipped.  After the
\* last enable the throw is List's, and then the debounce never starts.
PassThrows ==
  /\ loop \in {"refresh", "dispose", "rescan", "emit", "enable"}
  /\ loop = "enable" => enabled + 1 = Stages
  /\ faults < MaxFaults
  /\ loop' = "refresh" /\ faults' = faults + 1
  /\ enabled' = IF loop = "enable" THEN Stages ELSE enabled
  /\ UNCHANGED <<devices, current, open, hardware, tick, debounce, disks, changes>>

Pass == \/ Refresh \/ Tick \/ Check \/ Construct \/ DisposeOld \/ ReadDisks
        \/ Rescan \/ Emit \/ Enable

Next ==
  \/ Pass \/ ConstructFails \/ PassThrows
  \/ \E d \in Devices : DeviceChanges(d)

Spec == Init /\ [][Next]_vars

\* The loop runs.  What throws is bounded, and so is the number of changes.
FairSpec == Spec /\ WF_vars(Pass)

-----------------------------------------------------------------------------
(* Properties.                                                             *)

TypeOK ==
  /\ loop \in {"refresh", "tick", "rebuild", "dispose", "disks", "rescan",
               "emit", "enable"}
  /\ devices \in SUBSET Devices /\ enabled \in 0..Stages
  /\ current \in Nat /\ open \in SUBSET (0..current)
  /\ hardware \in [ids : SUBSET Devices, of : Nat]
  /\ tick \in 0..CheckEvery - 1
  /\ baseline \in (SUBSET Devices) \cup {None}
  /\ candidate \in (SUBSET Devices) \cup {None}
  /\ disks \in SUBSET Devices
  /\ sightings \in Seq(SUBSET Devices) /\ Len(sightings) <= 2
  /\ changes \in 0..MaxChanges /\ faults \in 0..MaxFaults

\* "One transient enumeration glitch must not trigger a full Computer.Open": a
\* rebuild is tried only when the last two checks saw the same set, which is not
\* the baseline.
TwoSightings ==
  loop = "rebuild" =>
    /\ Len(sightings) = 2 /\ sightings[1] = sightings[2]
    /\ sightings[1] # baseline

\* A snapshot is built from the monitor the session holds, never from the nodes
\* of one it has replaced, though the list was taken before the replacement.
SnapshotOfCurrent == loop = "emit" => hardware.of = current /\ current \in open

\* Each replacement is owed to a device that came or went, or to a call that
\* threw: the categories that arrive through staged init never cause one.
RebuildsAreEarned == current <= changes + faults

\* Once the hardware is quiet and the debounce started, the baseline becomes what
\* is plugged in: a lasting change is found and a failed rebuild is tried again.
ChangeIsAdopted == <>[](baseline \in {None, devices})
=============================================================================
