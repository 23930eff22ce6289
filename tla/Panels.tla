------------------------------- MODULE Panels -------------------------------
(***************************************************************************)
(* What the dashboard says of a snapshot, in its three renderings: the     *)
(* window's cards (panels/*.rs), the report (cli/report.rs) and the live   *)
(* view's cards (cli/live/cards.rs).  The three are written separately     *)
(* over the same readings.  Operators only; Readings compares them.        *)
(*                                                                         *)
(* A stat is [p, of, v, sev]: its priority on a window card, the reading   *)
(* it shows, the value as a tuple of numbers (<<>> for a dash; a word that *)
(* matters is part of the reading's name) and how it is coloured: "",      *)
(* "warn" or "hot".  The wording, rounding and units are left out.         *)
(***************************************************************************)
EXTENDS SnapshotBuilder

Shown(x) == IF IsSome(x) THEN <<x>> ELSE <<>>
Pair(a, b) == IF IsSome(a) /\ IsSome(b) THEN <<a, b>> ELSE <<>>
Clamp100(x) == Max({0, Min({100, x})})
\* Sections and cards of a record field that may be absent.
Each(section, Of(_)) == {Of(x) : x \in section}

TempSeverity(c, kind) ==
  LET bands == CASE kind = "Processor" -> <<75, 88>> [] kind = "Disk" -> <<50, 60>>
                 [] kind = "Board" -> <<60, 80>>
  IN IF c = None \/ c < bands[1] THEN "" ELSE IF c < bands[2] THEN "warn" ELSE "hot"
HealthSeverity(pct) == IF pct = None \/ pct >= 80 THEN "" ELSE IF pct < 50 THEN "hot" ELSE "warn"
\* A drive's own thresholds rule when they are coherent.
DiskTempSeverity(c, warn, crit) ==
  IF IsSome(warn) /\ IsSome(crit) /\ warn < crit
  THEN IF c = None \/ c < warn THEN "" ELSE IF c < crit THEN "warn" ELSE "hot"
  ELSE TempSeverity(c, "Disk")
HeadroomAsTemp(d) == IF d = None THEN None ELSE Max({0, Min({105, 95 - d})})

Stat(p, of, v, sev) == [p |-> p, of |-> of, v |-> v, sev |-> sev]
Plain(p, of, x) == Stat(p, of, Shown(x), "")
Temp(p, of, c, kind) == Stat(p, of, Shown(c), TempSeverity(c, kind))
Headroom(p, d) == Stat(p, "headroom", Shown(d), TempSeverity(HeadroomAsTemp(d), "Processor"))
\* A word is shown whole, or it is another row.
Word(of, word) == Stat(0, of \o ": " \o word, <<0>>, "")
\* A row pushed only when its reading is present.
IfShown(stat) == IF stat.v = <<>> THEN <<>> ELSE <<stat>>
Present(stats) == SelectSeq(stats, LAMBDA s : s.v # <<>>)

-----------------------------------------------------------------------------
(* Figures two of the renderings share.                                    *)
HottestDimm(ram) == MaxOf({ram.dimms[k] : k \in DOMAIN ram.dimms})
SumOptional(a, b) == IF IsSome(a) /\ IsSome(b) THEN a + b ELSE Or(a, b)
Busiest(net) == IF IsSome(net.downPct) /\ IsSome(net.upPct) THEN Max({net.downPct, net.upPct})
                ELSE Or(net.downPct, net.upPct)
\* wifi_value: the association's present parts; the network's LINK slot.
WifiValue(wifi) == Floats(<<wifi.ssid, wifi.signal, wifi.phy>>)
LinkSlot(net) ==
  LET words == UNION {{WifiValue(w)} : w \in net.wifi}
  IN IF words # {} /\ words # {<<>>} THEN <<"wi-fi", CHOOSE w \in words : TRUE>>
     ELSE <<"link", Shown(net.link)>>
BatteryHealth(b) ==
  IF IsSome(b.design) /\ IsSome(b.full) /\ b.design > 0
  THEN Clamp100((b.full * 100) \div b.design) ELSE None
\* 1 charging, -1 discharging, 0 idle; watts in tenths.
BatteryState(rate) == IF rate > 0 THEN 1 ELSE IF rate < 0 THEN -1 ELSE 0
StateStat(p, b) ==
  Stat(p, "state", IF IsSome(b.rate) THEN <<BatteryState(b.rate)>> ELSE <<>>,
       IF IsSome(b.rate) /\ b.rate < 0 THEN "warn" ELSE "")
HealthStat(p, b) == Stat(p, "health", Shown(BatteryHealth(b)), HealthSeverity(BatteryHealth(b)))
TimeLeft(b) == IF IsSome(b.time) /\ b.time > 0 THEN b.time ELSE None
\* The pagefile: warn from nine tenths; inactive without one.
Swap(p, ram) ==
  Stat(p, "swap", IF Or(ram.swapTotal, 0) > 0 THEN Pair(ram.swapUsed, ram.swapTotal) ELSE <<>>,
       IF Or(ram.swapTotal, 0) > 0 /\ 10 * Or(ram.swapUsed, 0) >= 9 * ram.swapTotal
       THEN "warn" ELSE "")
HasContent(s) ==
  \/ \E b \in s.board : IsSome(b.temp) \/ IsSome(b.vrm)
  \/ \E k \in DOMAIN s.fans : IsSome(s.fans[k].v)
  \/ \E k \in DOMAIN s.voltages : IsSome(s.voltages[k].v)

-----------------------------------------------------------------------------
(* The window's cards.  stat_priority::select keeps the first rows.        *)
Select(stats, rows) ==
  LET order == Sorted(stats, LAMBDA a, b : a.p < b.p)
  IN SubSeq(order, 1, Min({rows, Len(order)}))
\* A donut or a bar draws an absent reading as zero.
Gauge(of, x) == [of |-> of, v |-> Or(x, 0)]

CpuPanel(c) ==
  <<Temp(0, "temp", c.temp, "Processor"), Plain(1, "clock", c.clock), Plain(2, "power", c.power)>>
    \o IfShown(Headroom(3, c.headroom)) \o IfShown(Plain(4, "vcore", c.voltage))
GpuPanel(g) ==
  LET own == g.kind # "integrated"
      vram == IF own THEN Pair(g.vramUsed, g.vramTotal) ELSE Shown(g.shared)
      Row(show, stat) == IF show THEN <<stat>> ELSE <<>>
  IN Row(own \/ IsSome(g.temp), Temp(0, "temp", g.temp, "Processor"))
       \o <<Stat(1, "vram", vram, "")>>
       \o Row(own \/ Or(g.power, 0) > 0, Plain(2, "power", g.power))
       \o IfShown(Plain(3, "clock", g.clock))
       \o Row(own \/ IsSome(g.memLoad), Plain(4, "mem use", g.memLoad))
       \o IfShown(Temp(5, "hotspot", g.hotSpot, "Processor"))
       \o IfShown(Temp(6, "junction", g.junction, "Processor"))
       \o IfShown(Plain(7, "pcie", SumOptional(g.pcieRx, g.pcieTx)))
       \o IfShown(Plain(8, "v", g.voltage)) \o IfShown(Plain(9, "mem clk", g.memClock))
       \o Row(Or(g.video, 0) >= 1, Plain(10, "video", g.video))
\* The load donut's hover: engines at half a per cent or more.
D3dTooltip(g) == SelectSeq(g.engines, LAMBDA e : IsSome(e.load) /\ e.load >= 1)
\* Mutant: the hottest module is taken for the first one.
RamPanelFirst(r) ==
  <<Plain(0, "used", r.used), Plain(1, "free", r.available), Plain(2, "cached", r.cached)>>
    \o (IF r.dimms = <<>> THEN <<>> ELSE <<Temp(3, "dimm", r.dimms[1], "Processor")>>)

RamPanel(r) ==
  <<Plain(0, "used", r.used), Plain(1, "free", r.available), Plain(2, "cached", r.cached)>>
    \o IfShown(Temp(3, "dimm", HottestDimm(r), "Processor"))
NetworkPanel(n) ==
  <<Plain(0, "down", Or(n.down, 0)), Plain(0, "up", Or(n.up, 0))>>
    \o IfShown(Stat(1, LinkSlot(n)[1], LinkSlot(n)[2], ""))
    \o <<Stat(2, "iface", <<0>>, "")>>
BatteryPanel(b) ==
  IfShown(Plain(0, "charge", b.charge)) \o <<Plain(1, "time", TimeLeft(b))>>
    \o IfShown(Plain(2, "rate", b.rate)) \o IfShown(StateStat(3, b)) \o IfShown(HealthStat(4, b))

\* BOARD & SENSORS: temperatures, then fans, then voltages, each from the
\* highest down, cut to the height.
ReadoutBudget(h) == IF h >= 302 THEN 9 ELSE IF h >= 238 THEN 8 ELSE IF h >= 212 THEN 6
                    ELSE IF h >= 140 THEN 4 ELSE 2
SensorsPanel(s, h) ==
  LET Row(rank, of, v, sev) == [p |-> rank, of |-> of, v |-> Shown(v), sev |-> sev]
      temps == SetToSeq(UNION {{Row(0, "board", b.temp, TempSeverity(b.temp, "Board")),
                                Row(0, "vrm", b.vrm, TempSeverity(b.vrm, "Board"))} : b \in s.board})
      all == Present(temps \o [k \in DOMAIN s.fans |-> Row(1, s.fans[k].name, s.fans[k].v, "")]
                \o [k \in DOMAIN s.voltages |-> Row(2, s.voltages[k].name, s.voltages[k].v, "")])
      order == Sorted(all, LAMBDA a, b : a.p < b.p \/ (a.p = b.p /\ a.v[1] > b.v[1]))
  IN SubSeq(order, 1, Min({ReadoutBudget(h), Len(order)}))
\* The caption: a board's name and BIOS, which alone summon no card.
IdentityLine(s) ==
  UNION {{Word("name", n) : n \in b.name} \cup {Word("bios", v) : v \in b.bios} : b \in s.board}

\* STORAGE: one line per disk the height takes, and the hover's lifetime.
RowBudget(h) == IF h <= 72 THEN 0 ELSE Max({1, (h - 72) \div 46})
DiskType(d) == Word("type", d.kind)
DiskRow(d) ==
  Present(<<DiskType(d), Stat(0, "temp", Shown(d.temp), DiskTempSeverity(d.temp, d.warn, d.crit)),
            Stat(0, "health", Shown(d.health), HealthSeverity(d.health)),
            Stat(0, "capacity", Pair(d.used, d.total), "")>>
          \o (IF IsSome(d.read) /\ IsSome(d.write)
              THEN <<Plain(0, "read", d.read), Plain(0, "write", d.write)>> ELSE <<>>))
LifetimeTooltip(d) ==
  Present(<<Plain(0, "hours", d.hours), Plain(0, "cycles", d.cycles),
            Plain(0, "written", d.written), Plain(0, "wear", d.wear), Plain(0, "spare", d.spare)>>)
StoragePanel(s, h) ==
  [k \in 1..Min({RowBudget(h), Len(s.storage)}) |->
     DiskRow(s.storage[k]) \o LifetimeTooltip(s.storage[k])]

\* ASUS fans, by their own name: a board fan may bear the same.
AtkRows(s) == [k \in DOMAIN s.atkFans |-> Plain(0, "ATK " \o s.atkFans[k].name, s.atkFans[k].v)]
\* The footer's figures and the strip's, on the first GPU.
Footer(s) ==
  [cpu |-> Each(s.cpu, LAMBDA c : Shown(c.load)),
   gpu |-> IF s.gpu = <<>> THEN {} ELSE {Shown(s.gpu[1].load)},
   net |-> Each(s.net, LAMBDA n : <<Or(n.down, 0), Or(n.up, 0)>>),
   fans |-> Present(AtkRows(s))]
\* mini_strip::items, every value selected: a chosen reading that is absent
\* keeps its place; the battery alone comes and goes.
StripItems(s) ==
  LET gpu == IF s.gpu = <<>> THEN {} ELSE {s.gpu[1]}
      Part(section, Of(_)) == IF section = {} THEN <<>> ELSE Of(CHOOSE x \in section : TRUE)
  IN <<<<"cpu", Part(s.cpu, LAMBDA c : Shown(c.load)), Part(s.cpu, LAMBDA c : Shown(c.temp))>>,
       <<"gpu", Part(gpu, LAMBDA g : Shown(g.load)), Part(gpu, LAMBDA g : Shown(g.temp))>>,
       <<"vram", Part(gpu, LAMBDA g : Pair(g.vramUsed, g.vramTotal)), <<>>>>,
       <<"ram", Part(s.ram, LAMBDA r : Pair(r.used, r.total)), <<>>>>,
       <<"net", Part(s.net, LAMBDA n : <<Or(n.down, 0), Or(n.up, 0)>>), <<>>>>>>
     \o (IF s.battery = {} THEN <<>>
         ELSE <<<<"bat", Part(s.battery, LAMBDA b : Shown(b.charge)), <<>>>>>>)

-----------------------------------------------------------------------------
(* The report: a section drops its absent readings, and the report every   *)
(* section left without one.                                               *)
CpuSection(c) ==
  Present(<<Plain(0, "load", c.load), Temp(0, "temp", c.temp, "Processor"), Headroom(0, c.headroom),
            Plain(0, "clock", c.clock), Plain(0, "bus", c.bus), Plain(0, "power", c.power),
            Plain(0, "vcore", c.voltage), Stat(0, "cores", c.cores, ""),
            Stat(0, "core clocks", c.coreClocks, ""), Stat(0, "core temps", c.coreTemps, "")>>)
GpuSection(g) ==
  LET vram == IF g.kind = "integrated" THEN Shown(g.shared) ELSE Pair(g.vramUsed, g.vramTotal)
      engines == [k \in DOMAIN D3dTooltip(g) |-> D3dTooltip(g)[k].load]
  IN Present(<<Plain(0, "load", g.load), Temp(0, "temp", g.temp, "Processor"),
               Temp(0, "hotspot", g.hotSpot, "Processor"),
               Temp(0, "junction", g.junction, "Processor"), Stat(0, "vram", vram, ""),
               Plain(0, "power", g.power), Plain(0, "clock", g.clock),
               Plain(0, "mem clk", g.memClock), Plain(0, "mem use", g.memLoad),
               Plain(0, "pcie", SumOptional(g.pcieRx, g.pcieTx)), Plain(0, "v", g.voltage),
               Plain(0, "video", g.video), Stat(0, "engines", engines, "")>>)
\* module_value: the parts of a module that are there; its label always is.
ModuleValue(m) == <<0>> \o Floats(<<m.capacity, m.temp>>) \o m.timings
ModuleRows(r) == [k \in DOMAIN r.modules |-> Stat(0, "module", ModuleValue(r.modules[k]), "")]
RamSection(r) ==
  Present(<<Plain(0, "load", r.load), Plain(0, "used", r.used), Plain(0, "free", r.available),
            Plain(0, "cached", r.cached), Temp(0, "dimm", HottestDimm(r), "Processor"), Swap(0, r)>>
          \o ModuleRows(r))
StorageSection(d) ==
  Present(<<DiskType(d), Stat(0, "temp", Shown(d.temp), DiskTempSeverity(d.temp, d.warn, d.crit)),
            Stat(0, "activity", Shown(d.activity), IF Or(d.activity, 0) >= 80 THEN "warn" ELSE ""),
            Stat(0, "health", Shown(d.health), HealthSeverity(d.health)),
            Stat(0, "capacity", Pair(d.used, d.total), ""), Plain(0, "read", d.read),
            Plain(0, "write", d.write), Plain(0, "hours", d.hours), Plain(0, "cycles", d.cycles),
            Plain(0, "data read", d.dataRead), Plain(0, "written", d.written),
            Plain(0, "wear", d.wear), Plain(0, "spare", d.spare)>>)
NetworkSection(n) ==
  Present(<<Plain(0, "use", Busiest(n)), Plain(0, "down", n.down), Plain(0, "up", n.up),
            Stat(0, LinkSlot(n)[1], LinkSlot(n)[2], ""), Stat(0, "iface", <<0>>, "")>>)
BatterySection(b) ==
  Present(<<Plain(0, "charge", b.charge), StateStat(0, b), Plain(0, "rate", b.rate),
            Plain(0, "time", TimeLeft(b)), HealthStat(0, b)>>)
SensorsSection(s) ==
  IF ~HasContent(s) THEN <<>>
  ELSE LET Of(list) == [k \in DOMAIN list |-> Plain(0, list[k].name, list[k].v)]
           temps == SetToSeq(UNION {{Temp(0, "board", b.temp, "Board"),
                                     Temp(0, "vrm", b.vrm, "Board")} : b \in s.board})
       IN Present(SetToSeq(IdentityLine(s)) \o temps \o Of(s.fans) \o AtkRows(s) \o Of(s.voltages))

\* text: the sections in the window's order, each with the card it stands for.
Text(s) ==
  LET One(card, section, Of(_)) ==
        IF section = {} THEN <<>> ELSE <<[card |-> card, rows |-> Of(CHOOSE x \in section : TRUE)]>>
      Many(card, list, Of(_)) == [k \in DOMAIN list |-> [card |-> <<card, k>>, rows |-> Of(list[k])]]
  IN SelectSeq(One(<<"cpu", 0>>, s.cpu, CpuSection) \o Many("gpu", s.gpu, GpuSection)
       \o One(<<"igpu", 0>>, s.igpu, GpuSection) \o One(<<"ram", 0>>, s.ram, RamSection)
       \o One(<<"net", 0>>, s.net, NetworkSection) \o One(<<"battery", 0>>, s.battery, BatterySection)
       \o Many("disk", s.storage, StorageSection)
       \o <<[card |-> <<"sensors", 0>>, rows |-> SensorsSection(s)]>>,
       LAMBDA section : section.rows # <<>>)

-----------------------------------------------------------------------------
(* The live view's stats.                                                  *)
CpuStats(c) ==
  Present(<<Plain(0, "load", c.load), Temp(0, "temp", c.temp, "Processor"), Plain(0, "clock", c.clock),
            Plain(0, "power", c.power), Headroom(0, c.headroom), Plain(0, "vcore", c.voltage),
            Plain(0, "bus", c.bus), Stat(0, "cores", c.cores, "")>>)
GpuStats(g) ==
  LET vram == IF g.kind = "integrated" THEN Shown(g.shared) ELSE Pair(g.vramUsed, g.vramTotal)
  IN Present(<<Plain(0, "load", g.load), Temp(0, "temp", g.temp, "Processor"),
               Stat(0, "vram", vram, ""), Plain(0, "power", g.power), Plain(0, "clock", g.clock),
               Plain(0, "mem use", g.memLoad), Temp(0, "hotspot", g.hotSpot, "Processor"),
               Temp(0, "junction", g.junction, "Processor"), Plain(0, "mem clk", g.memClock),
               Plain(0, "pcie", SumOptional(g.pcieRx, g.pcieTx))>>)
RamStats(r) ==
  Present(<<Plain(0, "free", r.available), Plain(0, "cached", r.cached),
            Temp(0, "dimm", HottestDimm(r), "Processor")>>)
\* ram: the USED bar needs the total beside it, which the title shows alone;
\* the modules as far as the card has room.
UsedBar(r) == Stat(0, "used", IF IsSome(r.total) THEN Shown(r.used) ELSE <<>>, "")
CardTotal(r) == Shown(r.total)
RamCard(r) == Present(<<UsedBar(r), Swap(0, r)>>) \o RamStats(r) \o ModuleRows(r)
NetworkCard(n) ==
  Present(<<Plain(0, "down", n.down), Plain(0, "up", n.up),
            Stat(0, LinkSlot(n)[1], LinkSlot(n)[2], ""), Stat(0, "iface", <<0>>, "")>>)
BatteryStats(b) ==
  Present(<<StateStat(0, b), Plain(0, "rate", b.rate), Plain(0, "time", TimeLeft(b)), HealthStat(0, b)>>)
BatteryCard(b) == Present(<<Plain(0, "charge", b.charge)>>) \o BatteryStats(b)
\* READ and WRITE go first when the card is too narrow, then TYPE.
StorageColumns(width) ==
  LET fixed == [DISK |-> 0, TYPE |-> 4, CAPACITY |-> 14, TEMP |-> 6, READ |-> 10, WRITE |-> 10,
                HEALTH |-> 6]
      Needs(cols) == 10 + FoldSet(LAMBDA c, acc : fixed[c] + 1 + acc, 0, cols)
      first == DOMAIN fixed
      second == IF Needs(first) > width THEN first \ {"READ", "WRITE"} ELSE first
  IN IF Needs(second) > width THEN second \ {"TYPE"} ELSE second
StorageLine(d, columns) ==
  Present(<<Stat(0, "capacity", Pair(d.used, d.total), ""),
            [DiskType(d) EXCEPT !.v = IF "TYPE" \in columns THEN @ ELSE <<>>],
            Stat(0, "temp", Shown(d.temp), DiskTempSeverity(d.temp, d.warn, d.crit)),
            Stat(0, "read", IF "READ" \in columns THEN Shown(d.read) ELSE <<>>, ""),
            Stat(0, "write", IF "WRITE" \in columns THEN Shown(d.write) ELSE <<>>, ""),
            Stat(0, "health", Shown(d.health), HealthSeverity(d.health))>>)
SensorStats(s) ==
  LET Of(list) == [k \in DOMAIN list |-> Plain(0, list[k].name, list[k].v)]
      temps == SetToSeq(UNION {{Temp(0, "board", b.temp, "Board"), Temp(0, "vrm", b.vrm, "Board")}
                               : b \in s.board})
  IN Present(temps \o Of(s.fans) \o AtkRows(s) \o Of(s.voltages))
=============================================================================
