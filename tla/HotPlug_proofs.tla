-------------------------- MODULE HotPlug_proofs --------------------------
(***************************************************************************)
(* Proofs about HotPlug for every set of devices, every assignment of them *)
(* to categories and every distance between two topology checks.           *)
(***************************************************************************)
EXTENDS HotPlug, TLAPS

\* The candidate is the last set checked, and differs from the baseline.
CandidateInv ==
  /\ candidate # None => /\ Len(sightings) \in 1..2
                         /\ sightings[Len(sightings)] = candidate
                         /\ candidate # baseline
  /\ loop \in {"rebuild", "dispose", "disks", "rescan"} => candidate = None

\* No debounce before every category is enabled.
StagedInv ==
  /\ enabled < Stages => baseline = None
  /\ baseline = None => candidate = None
  /\ loop = "enable" => enabled < Stages
  /\ loop \in {"rebuild", "dispose", "disks", "rescan"} =>
       enabled = Stages /\ baseline # None

\* The list a pass carries is the current monitor's until a replacement.
ListInv ==
  /\ loop \in {"tick", "rebuild", "emit"} => hardware.of = current
  /\ current \in open

IInv == TypeOK /\ CandidateInv /\ StagedInv /\ ListInv /\ TwoSightings

LEMMA InitHolds == Init => IInv
<1> SUFFICES ASSUME Init PROVE IInv
  OBVIOUS
<1>1. sightings = <<>> /\ sightings \in Seq(SUBSET Devices) /\ Len(sightings) = 0
  BY DEF Init
<1>2. hardware \in [ids : SUBSET Devices, of : Nat] /\ hardware.of = 0
  BY DEF Init, Listed
<1>3. TypeOK
  <2>1. 0 \in 0..CheckEvery - 1 /\ 0 \in 0..MaxChanges /\ 0 \in 0..MaxFaults
        /\ 0 \in 0..Stages /\ {0} \in SUBSET (0..0)
    BY CategoryAssumption, CheckAssumption, FaultsAssumption
  <2>2. QED
    BY <1>1, <1>2, <2>1 DEF Init, TypeOK
<1>4. CandidateInv /\ StagedInv /\ ListInv /\ TwoSightings
  BY <1>2 DEF Init, CandidateInv, StagedInv, ListInv, TwoSightings
<1>5. QED
  BY <1>3, <1>4 DEF IInv

\* What a check leaves in the last two sightings.
LEMMA SightingsStep ==
  ASSUME IInv, Check
  PROVE  /\ sightings' \in Seq(SUBSET Devices) /\ Len(sightings') \in 1..2
         /\ sightings'[Len(sightings')] = hardware.ids
         /\ candidate = hardware.ids =>
              Len(sightings') = 2 /\ sightings'[1] = hardware.ids
<1>1. hardware.ids \in SUBSET Devices /\ hardware.ids # None
  BY NoneAssumption DEF IInv, TypeOK
<1>2. CASE sightings = <<>>
  <2>1. sightings' = <<hardware.ids>>
    BY <1>2 DEF Check
  <2>2. candidate = None
    BY <1>2 DEF IInv, CandidateInv
  <2>3. QED
    BY <1>1, <2>1, <2>2
<1>3. CASE sightings # <<>>
  <2>1. sightings' = <<sightings[Len(sightings)], hardware.ids>>
    BY <1>3 DEF Check
  <2>2. sightings[Len(sightings)] \in SUBSET Devices
    BY <1>3 DEF IInv, TypeOK
  <2>3. candidate = hardware.ids => sightings[Len(sightings)] = hardware.ids
    BY <1>1 DEF IInv, CandidateInv
  <2>4. QED
    BY <1>1, <2>1, <2>2, <2>3
<1>4. QED
  BY <1>2, <1>3

LEMMA CheckHolds == IInv /\ Check => IInv'
<1> SUFFICES ASSUME IInv, Check PROVE IInv'
  OBVIOUS
<1>1. hardware.ids \in SUBSET Devices /\ hardware.ids # None
  BY NoneAssumption DEF IInv, TypeOK
<1>2. /\ sightings' \in Seq(SUBSET Devices) /\ Len(sightings') \in 1..2
      /\ sightings'[Len(sightings')] = hardware.ids
      /\ candidate = hardware.ids =>
           Len(sightings') = 2 /\ sightings'[1] = hardware.ids
  BY SightingsStep
<1>3. /\ UNCHANGED <<devices, enabled, current, open, hardware, baseline, disks,
                     changes, faults>>
      /\ tick' = 0 /\ baseline # None /\ loop = "tick" /\ ShouldRebuild(hardware.ids)
  BY DEF Check
<1>4. TypeOK'
  <2>1. loop' \in {"emit", "rebuild"} /\ candidate' \in {None, hardware.ids}
    BY <1>3 DEF ShouldRebuild
  <2>2. tick' \in 0..CheckEvery - 1
    BY <1>3, CheckAssumption
  <2>3. Len(sightings') <= 2
    BY <1>2
  <2>4. /\ loop' \in {"refresh", "tick", "rebuild", "dispose", "disks", "rescan",
                      "emit", "enable"}
        /\ candidate' \in (SUBSET Devices) \cup {None}
    BY <1>1, <2>1
  <2>5. QED
    BY <1>2, <1>3, <2>2, <2>3, <2>4 DEF IInv, TypeOK
<1>5. CandidateInv' /\ TwoSightings'
  <2>1. CASE hardware.ids = baseline
    BY <1>3, <2>1 DEF ShouldRebuild, CandidateInv, TwoSightings
  <2>2. CASE hardware.ids # baseline /\ hardware.ids = candidate
    BY <1>2, <1>3, <2>2 DEF ShouldRebuild, CandidateInv, TwoSightings
  <2>3. CASE hardware.ids # baseline /\ hardware.ids # candidate
    BY <1>2, <1>3, <2>3 DEF ShouldRebuild, CandidateInv, TwoSightings
  <2>4. QED
    BY <2>1, <2>2, <2>3
<1>6. StagedInv' /\ ListInv'
  <2>1. enabled = Stages
    BY <1>3, CategoryAssumption DEF IInv, StagedInv, TypeOK
  <2>2. QED
    BY <1>3, <2>1, CategoryAssumption DEF IInv, StagedInv, ListInv, ShouldRebuild
<1>7. QED
  BY <1>4, <1>5, <1>6 DEF IInv

LEMMA StepHolds == IInv /\ [Next]_vars => IInv'
<1> SUFFICES ASSUME IInv, [Next]_vars PROVE IInv'
  OBVIOUS
<1> USE CategoryAssumption, CheckAssumption, NoneAssumption, FaultsAssumption
    DEF IInv, TypeOK, CandidateInv, StagedInv, ListInv, TwoSightings, Listed,
        debounce, vars
<1>1. CASE Refresh
  BY <1>1 DEF Refresh
<1>2. CASE Tick
  BY <1>2 DEF Tick
<1>3. CASE Check
  BY <1>3, CheckHolds
<1>4. CASE Construct
  BY <1>4 DEF Construct
<1>5. CASE ConstructFails
  BY <1>5 DEF ConstructFails
<1>6. CASE DisposeOld
  BY <1>6 DEF DisposeOld
<1>7. CASE ReadDisks
  BY <1>7 DEF ReadDisks
<1>8. CASE Rescan
  BY <1>8 DEF Rescan
<1>9. CASE Emit
  BY <1>9 DEF Emit
<1>10. CASE Enable
  BY <1>10 DEF Enable
<1>11. CASE PassThrows
  BY <1>11 DEF PassThrows
<1>12. ASSUME NEW d \in Devices, DeviceChanges(d) PROVE IInv'
  BY <1>12 DEF DeviceChanges
<1>13. CASE UNCHANGED vars
  BY <1>13
<1> HIDE DEF IInv, TypeOK, CandidateInv, StagedInv, ListInv, TwoSightings, Listed,
             debounce, vars
<1>14. QED
  BY <1>1, <1>2, <1>3, <1>4, <1>5, <1>6, <1>7, <1>8, <1>9, <1>10, <1>11, <1>12, <1>13
  DEF Next, Pass

LEMMA InvariantHolds == Spec => []IInv
BY InitHolds, StepHolds, PTL DEF Spec

\* Every reachable state has its types: the tick counter never reaches
\* CheckEvery, and the debounce remembers at most two sightings.
THEOREM TypeCorrect == Spec => []TypeOK
<1>1. IInv => TypeOK
  BY DEF IInv
<1>2. QED
  BY <1>1, InvariantHolds, PTL

\* TopologyDebounce: a rebuild is tried only after two consecutive sightings of
\* one set other than the baseline.
THEOREM TwoSightingsCorrect == Spec => []TwoSightings
<1>1. IInv => TwoSightings
  BY DEF IInv
<1>2. QED
  BY <1>1, InvariantHolds, PTL

\* ServeOne: a snapshot is built from the nodes of the monitor the session
\* holds, which is open.
THEOREM SnapshotOfCurrentCorrect == Spec => []SnapshotOfCurrent
<1>1. IInv => SnapshotOfCurrent
  BY DEF IInv, ListInv, SnapshotOfCurrent
<1>2. QED
  BY <1>1, InvariantHolds, PTL

-----------------------------------------------------------------------------
\* The debounce may come to a rebuild: what is plugged in, what the pass lists or
\* what the last check saw is not the baseline.  While a rebuild runs, its own
\* baseline is still to come.
RebuildIsDue ==
  /\ baseline # None /\ loop \notin {"dispose", "disks", "rescan"}
  /\ \/ devices # baseline \/ candidate # None \/ loop = "rebuild"
     \/ loop = "tick" /\ hardware.ids # baseline

\* A rebuild that is due is paid for before it is made.
EarnedInv == current + (IF RebuildIsDue THEN 1 ELSE 0) <= changes + faults

\* With every category enabled, the monitor lists what is plugged in.
LEMMA AllListed ==
  ASSUME TypeOK PROVE Listed(Stages) = devices
  BY CategoryAssumption DEF TypeOK, Listed

LEMMA EarnedStep == IInv /\ EarnedInv /\ [Next]_vars => EarnedInv'
<1> SUFFICES ASSUME IInv, EarnedInv, [Next]_vars PROVE EarnedInv'
  OBVIOUS
<1>n. current \in Nat /\ changes \in Nat /\ faults \in Nat
  BY FaultsAssumption DEF IInv, TypeOK
<1>i. TypeOK /\ CandidateInv /\ StagedInv
  BY DEF IInv
<1>s. baseline # None => enabled = Stages
  BY <1>i, CategoryAssumption DEF StagedInv, TypeOK
<1>l. Listed(Stages) = devices
  BY <1>i, AllListed
\* A step that makes no rebuild due and none at all.
<1>k. ASSUME current' = current, changes' + faults' >= changes + faults,
             changes' \in Nat, faults' \in Nat,
             RebuildIsDue' => RebuildIsDue \/ changes' + faults' > changes + faults
      PROVE  EarnedInv'
  BY <1>n, <1>k DEF EarnedInv, RebuildIsDue
<1>1. CASE Refresh
  <2>1. RebuildIsDue' => RebuildIsDue
    BY <1>1, <1>s, <1>l DEF Refresh, RebuildIsDue, debounce
  <2> QED
    BY <1>1, <1>n, <1>k, <2>1 DEF Refresh
<1>2. CASE Tick
  <2>1. RebuildIsDue' => RebuildIsDue
    BY <1>2 DEF Tick, RebuildIsDue, debounce
  <2> QED
    BY <1>2, <1>n, <1>k, <2>1 DEF Tick
<1>3. CASE Check
  <2>1. RebuildIsDue' => RebuildIsDue
    BY <1>3 DEF Check, ShouldRebuild, RebuildIsDue
  <2> QED
    BY <1>3, <1>n, <1>k, <2>1 DEF Check
<1>4. CASE Construct
  <2>1. RebuildIsDue
    BY <1>4, <1>i DEF Construct, RebuildIsDue, StagedInv
  <2>2. ~ RebuildIsDue' /\ current' = current + 1 /\ changes' = changes /\ faults' = faults
    BY <1>4 DEF Construct, RebuildIsDue
  <2> QED
    BY <1>n, <2>1, <2>2 DEF EarnedInv
<1>5. CASE ConstructFails
  BY <1>5, <1>n, <1>k DEF ConstructFails
<1>6. CASE DisposeOld
  <2>1. ~ RebuildIsDue'
    BY <1>6 DEF DisposeOld, RebuildIsDue
  <2> QED
    BY <1>6, <1>n, <1>k, <2>1 DEF DisposeOld
<1>7. CASE ReadDisks
  <2>1. ~ RebuildIsDue'
    BY <1>7 DEF ReadDisks, RebuildIsDue
  <2> QED
    BY <1>7, <1>n, <1>k, <2>1 DEF ReadDisks
<1>8. CASE Rescan
  <2>1. enabled = Stages
    BY <1>8, <1>i DEF Rescan, StagedInv
  <2>2. ~ RebuildIsDue'
    BY <1>8, <1>l, <2>1 DEF Rescan, RebuildIsDue
  <2> QED
    BY <1>8, <1>n, <1>k, <2>2 DEF Rescan
<1>9. CASE Emit
  <2>1. RebuildIsDue' => RebuildIsDue
    BY <1>9 DEF Emit, RebuildIsDue, debounce
  <2> QED
    BY <1>9, <1>n, <1>k, <2>1 DEF Emit
<1>10. CASE Enable
  <2>1. candidate = None /\ candidate' = candidate
    BY <1>10, <1>i DEF Enable, StagedInv
  <2>2. ~ RebuildIsDue'
    BY <1>10, <1>l, <2>1 DEF Enable, RebuildIsDue
  <2> QED
    BY <1>10, <1>n, <1>k, <2>2 DEF Enable
<1>11. CASE PassThrows
  BY <1>11, <1>n, <1>k DEF PassThrows
<1>12. ASSUME NEW d \in Devices, DeviceChanges(d) PROVE EarnedInv'
  BY <1>12, <1>n, <1>k DEF DeviceChanges
<1>13. CASE UNCHANGED vars
  <2>1. RebuildIsDue' => RebuildIsDue
    BY <1>13 DEF vars, RebuildIsDue
  <2> QED
    BY <1>13, <1>n, <1>k, <2>1 DEF vars
<1>14. QED
  BY <1>1, <1>2, <1>3, <1>4, <1>5, <1>6, <1>7, <1>8, <1>9, <1>10, <1>11, <1>12, <1>13
  DEF Next, Pass

\* TopologyDebounce and the staged enable: each monitor that replaces another is
\* owed to a device that came or went, or to a call that threw, however the two
\* fall between the passes.
THEOREM RebuildsAreEarnedCorrect == Spec => []RebuildsAreEarned
<1>1. Init => EarnedInv
  BY DEF Init, EarnedInv, RebuildIsDue
<1>2. IInv /\ EarnedInv /\ [Next]_vars => EarnedInv'
  BY EarnedStep
<1>3. IInv /\ EarnedInv => RebuildsAreEarned
  BY FaultsAssumption DEF IInv, TypeOK, EarnedInv, RebuildsAreEarned
<1>4. QED
  BY <1>1, <1>2, <1>3, InvariantHolds, PTL DEF Spec
=============================================================================
