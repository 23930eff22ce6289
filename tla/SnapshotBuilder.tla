--------------------------- MODULE SnapshotBuilder ---------------------------
(***************************************************************************)
(* Sensors/SnapshotBuilder.cs of sensord: one hardware tree, as            *)
(* LibreHardwareMonitor last updated it, becomes one snapshot.  Operators  *)
(* only; Readings drives them.                                             *)
(*                                                                         *)
(* A node is [type, name, id, disk, sensors, sub], a sensor [t, n, num,    *)
(* thread, i, v]: its type, its name without the trailing #num, whether    *)
(* " Thread #T" follows, its Index and its value.  None stands for every   *)
(* value that is null, NaN or infinite.  A lookup by substring names the   *)
(* set of LHM names the substring matches.                                 *)
(***************************************************************************)
EXTENDS Naturals, Integers, Sequences, FiniteSets, SequencesExt, FiniteSetsExt

None == -1000000
IsSome(x) == x # None
Or(x, y) == IF IsSome(x) THEN x ELSE y
MinOf(S) == IF S = {} THEN None ELSE CHOOSE x \in S : \A y \in S : x <= y
MaxOf(S) == IF S = {} THEN None ELSE CHOOSE x \in S : \A y \in S : x >= y
Total(s) == FoldSeq(LAMBDA x, acc : x + acc, 0, s)
Floats(s) == SelectSeq(s, IsSome)
Values(s) == [k \in DOMAIN s |-> s[k].v]
\* A stable sort, as LINQ's OrderBy and Rust's sort_by are.
Sorted(list, Before(_, _)) ==
  LET Rank(k) == 1 + Cardinality({j \in DOMAIN list :
                       \/ Before(list[j], list[k])
                       \/ ~Before(list[k], list[j]) /\ j < k})
  IN [r \in DOMAIN list |-> list[CHOOSE k \in DOMAIN list : Rank(k) = r]]

\* The elements at the positions `keep`, in the list's order.
Chosen(list, keep) ==
  LET Nth(r) == CHOOSE k \in keep : Cardinality({j \in keep : j <= k}) = r
  IN [r \in 1..Cardinality(keep) |-> list[Nth(r)]]

First(s) == IF s = <<>> THEN None ELSE s[1].v
Finite(hw, type) == SelectSeq(hw.sensors, LAMBDA s : s.t = type /\ IsSome(s.v))
\* Val and FirstVal: a glitched reading is skipped in favour of the next match.
Val(hw, type, names) == First(SelectSeq(Finite(hw, type), LAMBDA s : s.n \in names))
FirstVal(hw, type) == First(Finite(hw, type))
OfType(hardware, types) == Chosen(hardware, {k \in DOMAIN hardware : hardware[k].type \in types})

-----------------------------------------------------------------------------
(* The per-core arrays: entry i of each is the same physical core.          *)
PerCoreNames == {"CPU Core", "P-Core", "E-Core", "Core"}
ThreadLoads(cpu) ==
  SelectSeq(cpu.sensors, LAMBDA s : s.t = "Load" /\ s.n = "CPU Core" /\ s.num > 0)
PerCoreSensors(cpu, type) ==
  Sorted(SelectSeq(cpu.sensors, LAMBDA s : s.t = type /\ s.n \in PerCoreNames /\ s.num > 0 /\ ~s.thread),
         LAMBDA a, b : a.i < b.i)

\* Loads beyond the per-core sensors by a whole factor are threads of one core.
ThreadsPerCore(entries, named, threaded) ==
  IF ~threaded /\ named > 0 /\ entries > named /\ entries % named = 0
  THEN entries \div named ELSE 1

\* Mutant: a core with no finite thread reading shifts every later core.
CoreLoadsShifted(loads, entries, per) ==
  LET Of(core) == Floats(Values(SelectSeq(loads, LAMBDA s : (s.num - 1) \div per = core - 1)))
      some == SelectSeq([core \in 1..(entries \div per) |-> core], LAMBDA core : Of(core) # <<>>)
  IN [k \in DOMAIN some |-> Total(Of(some[k])) \div Len(Of(some[k]))]

CoreLoads(loads, entries, per) ==
  [core \in 1..(entries \div per) |->
     LET own == Floats(Values(SelectSeq(loads, LAMBDA s : (s.num - 1) \div per = core - 1)))
     IN IF own = <<>> THEN 0 ELSE Total(own) \div Len(own)]

\* Performance cores first, then the efficient ones; named tells which.
InCoreOrder(list, named) ==
  LET Cores(e) == SelectSeq([k \in DOMAIN list |-> k],
                            LAMBDA c : (c <= Len(named) /\ named[c].n = "E-Core") = e)
  IN [k \in 1..Len(list) |-> list[(Cores(FALSE) \o Cores(TRUE))[k]]]
PerCore(loads, temps, clocks, named) ==
  LET entries == IF loads = <<>> THEN 0 ELSE MaxOf({loads[k].num : k \in DOMAIN loads})
      per == ThreadsPerCore(entries, Len(named), \E k \in DOMAIN loads : loads[k].thread)
      Count(n) == LET c == Cardinality({k \in DOMAIN named : named[k].n = n})
                  IN IF c > 0 THEN c ELSE None
  IN [loads |-> InCoreOrder(CoreLoads(loads, entries, per), named),
      clocks |-> InCoreOrder(Values(clocks), named), temps |-> InCoreOrder(Values(temps), named),
      pCores |-> Count("P-Core"), eCores |-> Count("E-Core")]
CollectPerCore(cpu) ==
  LET Collect(temps, clocks) ==
        PerCore(ThreadLoads(cpu), temps, clocks, IF temps # <<>> THEN temps ELSE clocks)
  IN Collect(PerCoreSensors(cpu, "Temperature"), PerCoreSensors(cpu, "Clock"))

CpuInfo(cpu, perCore) ==
  LET Reads(type) == {cpu.sensors[k] : k \in {j \in DOMAIN cpu.sensors :
                        cpu.sensors[j].t = type /\ IsSome(cpu.sensors[j].v)}}
  IN [name |-> cpu.name, load |-> Val(cpu, "Load", {"CPU Total"}),
      cores |-> perCore.loads, coreClocks |-> perCore.clocks, coreTemps |-> perCore.temps,
      pCores |-> perCore.pCores, eCores |-> perCore.eCores,
      temp |-> Or(Val(cpu, "Temperature", {"CPU Package"}),
                  Or(Val(cpu, "Temperature", {"Core (Tctl/Tdie)"}), FirstVal(cpu, "Temperature"))),
      clock |-> MaxOf({s.v : s \in {r \in Reads("Clock") : r.n # "Bus Speed"}}),
      voltage |-> Or(Val(cpu, "Voltage", {"Vcore"}),
                     Or(Val(cpu, "Voltage", {"CPU VID"}), Val(cpu, "Voltage", {"CPU Core"}))),
      headroom |-> MinOf({s.v : s \in {r \in Reads("Temperature") : r.n = "Distance to TjMax"}}),
      power |-> Val(cpu, "Power", {"CPU Package"}), bus |-> Val(cpu, "Clock", {"Bus Speed"})]
BuildCpu(cpu) == CpuInfo(cpu, CollectPerCore(cpu))

-----------------------------------------------------------------------------
(* Graphics.                                                                *)
GpuTypes == {"GpuNvidia", "GpuAmd", "GpuIntel"}
KindOf(hw) ==
  IF hw.type = "GpuIntel" \/ hw.name \in {"Radeon Graphics", "Vega 8"}
  THEN "integrated" ELSE "discrete"

\* Queues of one engine are one reading; the busiest engine leads.
CollectD3DEngines(hw) ==
  LET reads == SelectSeq(Finite(hw, "Load"), LAMBDA s : s.n \in {"D3D 3D", "D3D Copy"})
      firsts == SelectSeq([k \in DOMAIN reads |-> k],
                          LAMBDA k : \A j \in 1..(k - 1) : reads[j].n # reads[k].n)
      engines == [k \in DOMAIN firsts |->
                    LET l == reads[firsts[k]].n
                    IN [name |-> l, load |-> Total(Values(SelectSeq(reads, LAMBDA s : s.n = l)))]]
  IN Sorted(engines, LAMBDA a, b : a.load > b.load)

BuildGpu(hw) ==
  LET T(names) == Val(hw, "Temperature", names)
      D(names) == Val(hw, "SmallData", names)
  IN [name |-> hw.name, id |-> hw.id, kind |-> KindOf(hw),
      load |-> Val(hw, "Load", {"GPU Core"}), temp |-> T({"GPU Core"}),
      vramUsed |-> D({"GPU Memory Used"}), vramTotal |-> D({"GPU Memory Total"}),
      clock |-> Val(hw, "Clock", {"GPU Core"}), fan |-> Val(hw, "Fan", {"GPU Fan"}),
      power |-> Val(hw, "Power", {"GPU Package", "GPU Power"}),
      memLoad |-> Val(hw, "Load", {"GPU Memory Controller"}),
      hotSpot |-> Or(T({"GPU Hot Spot"}), T({"GPU Junction"})),
      junction |-> Or(T({"GPU Memory Junction"}), T({"GPU Memory Hot Spot"})),
      pcieRx |-> Val(hw, "Throughput", {"GPU PCIe Rx"}),
      pcieTx |-> Val(hw, "Throughput", {"GPU PCIe Tx"}),
      shared |-> D({"D3D Shared Memory Used"}), dedicated |-> D({"D3D Dedicated Memory Used"}),
      voltage |-> Or(Val(hw, "Voltage", {"GPU Core Voltage"}), Val(hw, "Voltage", {"GPU Core"})),
      engines |-> CollectD3DEngines(hw), memClock |-> Val(hw, "Clock", {"GPU Memory"}),
      video |-> Val(hw, "Load", {"GPU Video Engine"})]

BuildAllGpus(hardware) ==
  LET hws == OfType(hardware, GpuTypes) IN [k \in DOMAIN hws |-> BuildGpu(hws[k])]

Discrete(gpus) == Chosen(gpus, {k \in DOMAIN gpus : gpus[k].kind = "discrete"})
PreferDiscreteGpus(gpus) == IF Discrete(gpus) # <<>> THEN Discrete(gpus) ELSE gpus

PickIntegratedGpu(gpus) ==
  LET own == SelectSeq(gpus, LAMBDA g : g.kind = "integrated")
  IN IF own # <<>> /\ Discrete(gpus) # <<>> THEN {own[1]} ELSE {}

-----------------------------------------------------------------------------
(* Memory and disks.                                                        *)
IsDimm(hw) == hw.type = "Memory" /\ hw.id = "/memory/dimm"
DimmTemp(hw) == First(SelectSeq(Finite(hw, "Temperature"), LAMBDA s : s.n = "DIMM"))
CollectDimmTemps(hardware) ==
  LET dimms == SelectSeq(hardware, IsDimm)
  IN Floats([k \in DOMAIN dimms |-> DimmTemp(dimms[k])])

TimingVal(hw, name) == Val(hw, "Timing", {name})
Timings == <<"tAA", "tRCD", "tRP", "tRAS">>
Rounded(a, b) == (2 * a + b) \div (2 * b)
\* A partial set would look like a different kit: all of it or nothing.
FormatTimings(hw) ==
  LET ns == [k \in DOMAIN Timings |-> TimingVal(hw, Timings[k])]
      tCk == TimingVal(hw, "tCKAVGmin")
  IN IF tCk = None \/ tCk <= 0 \/ \E k \in DOMAIN ns : ns[k] = None THEN <<>>
     ELSE [k \in DOMAIN ns |-> Rounded(ns[k], tCk)] \o <<Rounded(2000, tCk)>>
CollectRamModules(hardware) ==
  LET dimms == SelectSeq(hardware, IsDimm)
  IN [k \in DOMAIN dimms |->
        [label |-> dimms[k].name, capacity |-> Val(dimms[k], "Data", {"Capacity"}),
         temp |-> DimmTemp(dimms[k]), timings |-> FormatTimings(dimms[k])]]

\* PagefileReader.Read: sizes in pages; zeros when the call fails.
PagefileRead(ok, pages) ==
  IF ~ok THEN [used |-> 0, total |-> 0, cached |-> 0]
  ELSE LET total == Max({0, pages.limit - pages.physical})
           used == Max({0, pages.commit - (pages.physical - pages.available)})
       IN [used |-> Min({used, total}), total |-> total, cached |-> pages.cache]

\* Sizes in tenths of a GB.
BuildRam(memory, pf, hardware) ==
  LET V(type, n) == IF memory = <<>> THEN None ELSE Val(memory[1], type, {n})
      used == V("Data", "Memory Used")  avail == V("Data", "Memory Available")
  IN [used |-> used, available |-> avail, load |-> V("Load", "Memory"),
      total |-> IF IsSome(used) /\ IsSome(avail) THEN used + avail ELSE None,
      cached |-> pf.cached, swapUsed |-> pf.used, swapTotal |-> pf.total,
      dimms |-> CollectDimmTemps(hardware), modules |-> CollectRamModules(hardware)]

\* DiskInfoReader.ClassifyDisk and the fallback by identifier.
ClassifyDisk(bus, media) == IF bus = 17 THEN "nvme" ELSE IF media = 4 THEN "ssd" ELSE "hdd"
ClassifyDiskByIdentifier(id) ==
  IF id = "/nvme/" THEN "nvme" ELSE IF id = "/ssd/" THEN "ssd" ELSE "hdd"
\* DiskInfoReader.Read: by physical disk number; empty when WMI fails.
DiskInfo(ok, disks) ==
  IF ~ok THEN <<>>
  ELSE [n \in DOMAIN disks |-> [kind |-> ClassifyDisk(disks[n].bus, disks[n].media),
                                total |-> IF disks[n].size > 0 THEN disks[n].size ELSE None]]

BuildDisk(hw, diskInfo) ==
  LET L(names) == Val(hw, "Level", names)
      T(names) == Val(hw, "Temperature", names)
      usedPct == Val(hw, "Load", {"Used Space"})
      known == hw.disk \in DOMAIN diskInfo
      total == IF known THEN diskInfo[hw.disk].total ELSE None
      Spare == {"Available Spare", "Available Spare Threshold"}
  IN [name |-> hw.name, kind |-> IF known THEN diskInfo[hw.disk].kind
                                 ELSE ClassifyDiskByIdentifier(hw.id),
      temp |-> FirstVal(hw, "Temperature"), activity |-> Val(hw, "Load", {"Total Activity"}),
      used |-> IF IsSome(total) /\ IsSome(usedPct) THEN (total * usedPct) \div 100 ELSE None,
      total |-> total, health |-> Or(L({"Remaining Life"}), L(Spare)), spare |-> L(Spare),
      wear |-> L({"Percentage Used"}), read |-> Val(hw, "Throughput", {"Read Rate"}),
      write |-> Val(hw, "Throughput", {"Write Rate"}),
      hours |-> Val(hw, "Factor", {"Power On Hours"}),
      cycles |-> Val(hw, "Factor", {"Power On Count"}),
      warn |-> T({"Warning Temperature"}), crit |-> T({"Critical Temperature"}),
      dataRead |-> Val(hw, "Data", {"Data Read"}), written |-> Val(hw, "Data", {"Data Written"})]
BuildStorage(hardware, diskInfo) ==
  LET hws == OfType(hardware, {"Storage"}) IN [k \in DOMAIN hws |-> BuildDisk(hws[k], diskInfo)]

-----------------------------------------------------------------------------
(* Board, battery, network.                                                 *)
BuildBoard(board, bios) ==
  IF board = <<>> /\ bios = {} THEN {}
  ELSE LET io == IF board = <<>> THEN <<>> ELSE board[1].sub
           T(names) == IF io = <<>> THEN None ELSE Val(io[1], "Temperature", names)
       IN {[temp |-> Or(T({"System"}), Or(T({"Motherboard"}),
                        IF io = <<>> THEN None ELSE FirstVal(io[1], "Temperature"))),
            vrm |-> T({"VRM"}), name |-> IF board = <<>> THEN {} ELSE {board[1].name},
            bios |-> bios]}
BuildBoardSensors(board, type) ==
  LET io == IF board = <<>> THEN <<>> ELSE board[1].sub
      reads == IF io = <<>> THEN <<>> ELSE Finite(io[1], type)
  IN [k \in DOMAIN reads |-> [name |-> reads[k].n, v |-> reads[k].v]]

\* One signed rate: the combined sensor, else discharging, else charging.
BuildBattery(hardware) ==
  LET own == OfType(hardware, {"Battery"}) IN
  IF own = <<>> THEN {}
  ELSE LET b == own[1]
           P(n) == Val(b, "Power", {n})
           down == P("Discharge Rate")
       IN {[charge |-> Val(b, "Level", {"Charge Level"}),
            rate |-> Or(P("Charge/Discharge Rate"),
                        IF IsSome(down) THEN -down ELSE P("Charge Rate")),
            design |-> Val(b, "Energy", {"Designed Capacity"}),
            full |-> Or(Val(b, "Energy", {"Fully-Charged Capacity"}),
                        Val(b, "Energy", {"Full Charged Capacity"})),
            time |-> Val(b, "TimeSpan", {"Remaining Time (Estimated)"})]}

Utilisation(bytes, link) ==
  IF link <= 0 THEN 0 ELSE Max({0, Min({100, (bytes * 800) \div link})})
\* The adapter that moves most, the first of equals.
BusiestAdapter(hardware) ==
  LET nics == OfType(hardware, {"Network"})
      Moves(h) == Max({0, Val(h, "Throughput", {"Download"})})
                  + Max({0, Val(h, "Throughput", {"Upload"})})
      best == {k \in DOMAIN nics : /\ \A j \in DOMAIN nics : Moves(nics[j]) <= Moves(nics[k])
                                   /\ \A j \in 1..(k - 1) : Moves(nics[j]) < Moves(nics[k])}
  IN {nics[k] : k \in best}
BuildNet(hardware, links, wifi) ==
  {LET link == IF hw.name \in DOMAIN links THEN links[hw.name] ELSE 0
       Pct(b) == IF link > 0 THEN Utilisation(b, link) ELSE None
       down == Or(Val(hw, "Throughput", {"Download"}), 0)
       up == Or(Val(hw, "Throughput", {"Upload"}), 0)
   IN [adapter |-> hw.name, down |-> down, up |-> up, link |-> IF link > 0 THEN link ELSE None,
       downPct |-> Pct(down), upPct |-> Pct(up), wifi |-> wifi] : hw \in BusiestAdapter(hardware)}

-----------------------------------------------------------------------------
\* TryBuild and its siblings: a section whose builder throws is absent, and
\* takes no other section with it.
TryBuild(section, value, absent, throws) == IF section \in throws THEN absent ELSE value

(* world: pf, links, disks, bios, wifi and atk, what the readers returned.  *)
Build(hardware, world, throws) ==
  LET Node(type) == LET own == OfType(hardware, {type}) IN IF own = <<>> THEN <<>> ELSE <<own[1]>>
      cpu == Node("Cpu")  board == Node("Motherboard")
      gpus == TryBuild("gpu", BuildAllGpus(hardware), <<>>, throws)
  IN [cpu |-> TryBuild("cpu", IF cpu = <<>> THEN {} ELSE {BuildCpu(cpu[1])}, {}, throws),
      gpu |-> PreferDiscreteGpus(gpus), igpu |-> PickIntegratedGpu(gpus),
      ram |-> TryBuild("ram", {BuildRam(Node("Memory"), world.pf, hardware)}, {}, throws),
      storage |-> TryBuild("storage", BuildStorage(hardware, world.disks), <<>>, throws),
      board |-> TryBuild("board", BuildBoard(board, world.bios), {}, throws),
      fans |-> TryBuild("fans", BuildBoardSensors(board, "Fan"), <<>>, throws),
      voltages |-> TryBuild("fans", BuildBoardSensors(board, "Voltage"), <<>>, throws),
      net |-> TryBuild("net", BuildNet(hardware, world.links, world.wifi), {}, throws),
      battery |-> TryBuild("battery", BuildBattery(hardware), {}, throws),
      atkFans |-> world.atk]
=============================================================================
