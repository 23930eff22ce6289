------------------------------ MODULE Readings ------------------------------
(***************************************************************************)
(* From the sensors to the screens: the service builds one snapshot per    *)
(* tick from the hardware and its readers; the dashboard records it in the *)
(* sparkline history and draws it as cards, strip and footer, and the CLI  *)
(* writes it as a report or a live view.  Delivery is Feed's and Cli's     *)
(* subject: here every sample arrives.                                     *)
(*                                                                         *)
(* Machines: records [hw, cores, links, disks, bios, wifi, atk]: the       *)
(* hardware tree (a sensor also has d, how much its value rises with the   *)
(* load level, and core, the physical core it belongs to), the cores in    *)
(* the order the arrays promise, and what the readers would return.        *)
(* Screens: pairs of a window [w, h, chrome] and a terminal [w, h]; the    *)
(* first is Launch.                                                        *)
(* Upsets: what a tick may go through besides a calm one; they, WMI        *)
(* restarts and resizes share the bound MaxUpsets.                         *)
(***************************************************************************)
EXTENDS Layouts

CONSTANTS Machines, Screens, Launch, Upsets, Capacity, MaxSamples, MaxUpsets

ASSUME ReadingsAssumption ==
  /\ Capacity \in Nat \ {0} /\ Launch \in Screens
  /\ MaxSamples \in Nat /\ MaxUpsets \in Nat

\* The tree is a list; a graphics card has an identifier of its own.
ASSUME MachinesAssumption ==
  \A m \in Machines :
    /\ Len(m.hw) \in Nat /\ DOMAIN m.hw = 1..Len(m.hw)
    /\ \A k \in DOMAIN m.hw : {"type", "name", "id"} \subseteq DOMAIN m.hw[k]
    /\ \A j, k \in DOMAIN m.hw :
         {m.hw[j].type, m.hw[k].type} \subseteq GpuTypes /\ m.hw[j].id = m.hw[k].id => j = k

VARIABLES
  machine,    \* the machine under the service, fixed
  diskInfo,   \* DiskInfoReader's answer, read once as the service starts
  bios,       \* BiosReader's cached answer: {} when its one query failed
  level,      \* the load level of the previous tick; it alternates
  atk,        \* AtkReader's s_present and what its s_instance is worth
  wlan,       \* WifiReader's s_wlanUnavailable and adapter cache
  latest,     \* the newest snapshot, {} before the first
  history,    \* the dashboard's History
  own,        \* ghost: the last loads sampled of each GPU, and of the CPU
  screen,     \* the window and the terminal
  fit,        \* PerfApp's grid_fit, {} before the first frame
  zoom,       \* the zoom egui applies
  samples, upsets  \* counted up to MaxSamples and MaxUpsets

service == <<machine, diskInfo, bios, level, atk, wlan>>
vars == <<service, latest, history, own, screen, fit, zoom, samples, upsets>>

-----------------------------------------------------------------------------
(* history.rs                                                              *)
RingBuffer == [data |-> <<>>, head |-> 0, full |-> FALSE]
Push(buf, v) ==
  [data |-> IF Len(buf.data) < Capacity THEN Append(buf.data, v)
            ELSE [buf.data EXCEPT ![buf.head + 1] = v],
   full |-> buf.full \/ Len(buf.data) >= Capacity,
   head |-> (buf.head + 1) % Capacity]
\* iter_oldest_first
Samples(buf) ==
  LET start == IF buf.full THEN buf.head ELSE 0
  IN [k \in 1..Len(buf.data) |-> buf.data[((start + k - 1) % Capacity) + 1]]

\* Mutant: a buffer per position instead of per name.
KeysByIndex(gpus) == [k \in DOMAIN gpus |-> <<"gpu", k>>]

\* A key per GPU: its name, and which of its namesakes it is.
Keys(gpus) ==
  [k \in DOMAIN gpus |->
     <<gpus[k].name, Cardinality({j \in 1..(k - 1) : gpus[j].name = gpus[k].name})>>]

NoHistory == [cpu |-> RingBuffer, order |-> <<>>, gpus |-> <<>>]
Record(h, s) ==
  LET keys == Keys(s.gpu)
      Old(key) == IF key \in DOMAIN h.gpus THEN h.gpus[key] ELSE RingBuffer
      Load(key) == Or(s.gpu[CHOOSE k \in DOMAIN keys : keys[k] = key].load, 0)
      fresh == {keys[k] : k \in DOMAIN keys}
  IN [cpu |-> FoldSet(LAMBDA c, buf : Push(buf, Or(c.load, 0)), h.cpu, s.cpu),
      order |-> IF s.gpu = <<>> THEN h.order ELSE keys,
      gpus |-> [key \in DOMAIN h.gpus \cup fresh |->
                  IF key \in fresh THEN Push(Old(key), Load(key)) ELSE h.gpus[key]]]

\* Ghost: the last Capacity loads of each physical GPU while it was shown.
Owned(o, s) ==
  LET ids == {s.gpu[k].id : k \in DOMAIN s.gpu}
      Load(id) == Or(s.gpu[CHOOSE k \in DOMAIN s.gpu : s.gpu[k].id = id].load, 0)
      Kept(seq, v) == IF Len(seq) < Capacity THEN Append(seq, v) ELSE Append(Tail(seq), v)
  IN [id \in DOMAIN o \cup ids |->
        IF id \notin ids THEN o[id]
        ELSE Kept(IF id \in DOMAIN o THEN o[id] ELSE <<>>, Load(id))]

-----------------------------------------------------------------------------
(* The readers that remember.                                              *)
\* AtkReader.Read: one probe decides; the instance found is kept for good,
\* since every failure of a call on it is swallowed by InvokeDsts.
AtkRead(up) ==
  IF atk.present = "no" THEN atk
  ELSE IF atk.instance # "none" THEN atk
  ELSE IF up /\ machine.atk # <<>> THEN [present |-> "yes", instance |-> "live"]
  ELSE [atk EXCEPT !.present = "no"]
AtkFans(state, up) ==
  IF state.instance = "live" /\ up
  THEN SelectSeq(machine.atk, LAMBDA fan : IsSome(fan.v)) ELSE <<>>

\* WifiReader.Read on the busiest adapter: the wireless lookup is cached per
\* adapter, a failed one as "not wireless"; one failed WlanOpenHandle ends it.
WifiRead(adapters, upset) ==
  IF wlan.unavailable \/ adapters = {} THEN wlan
  ELSE LET name == CHOOSE a \in adapters : TRUE
           found == name \in DOMAIN machine.wifi /\ upset # "enumeration"
           guids == IF name \in DOMAIN wlan.guids THEN wlan.guids ELSE wlan.guids @@ (name :> found)
       IN [guids |-> guids, unavailable |-> guids[name] /\ upset = "wlan"]
\* QueryCurrentConnection and FromAssociation: nothing usable is no Wi-Fi.
FromAssociation(w) ==
  LET info == [ssid |-> w.ssid, signal |-> IF w.signal <= 100 THEN w.signal ELSE None,
               phy |-> IF w.rate > 0 THEN w.rate ELSE None]
  IN IF Floats(<<info.ssid, info.signal, info.phy>>) = <<>> THEN {} ELSE {info}
WifiInfo(state, adapters) ==
  UNION {IF state.unavailable \/ ~state.guids[a] THEN {} ELSE FromAssociation(machine.wifi[a])
         : a \in adapters}

-----------------------------------------------------------------------------
(* LibreHardwareMonitor: one update pass.  A device that fails keeps its   *)
(* last values (UpdateVisitor), a sensor that glitches has none.           *)
Updated(hw, to, upset) ==
  LET Value(node, s) ==
        IF <<node.id, s.n, s.num>> \in upset.glitch THEN None
        ELSE s.v + (IF node.id \in upset.stuck THEN level ELSE to) * s.d
      Sensors(node) == [k \in DOMAIN node.sensors |->
                          [node.sensors[k] EXCEPT !.v = Value(node, node.sensors[k])]]
      Node(node) == [node EXCEPT !.sensors = Sensors(node),
                                 !.sub = [k \in DOMAIN node.sub |->
                                            [node.sub[k] EXCEPT !.sensors = Sensors(node.sub[k])]]]
      there == Chosen(hw, {k \in DOMAIN hw : hw[k].id \notin upset.gone})
  IN [k \in DOMAIN there |-> Node(there[k])]

\* The window draws a frame: plan from the cache or anew, then the zoom.
Frame(s, win) ==
  LET cache == PlanFor(fit, s, win)
  IN /\ fit' = cache
     /\ \E c \in cache : zoom' = ApplyZoom(zoom, c.plan.zoom)

Calm == [glitch |-> {}, stuck |-> {}, gone |-> {}, throws |-> {}, reader |-> "", wmi |-> TRUE]

-----------------------------------------------------------------------------
Init ==
  /\ machine \in Machines
  /\ \E ok \in BOOLEAN : /\ diskInfo = DiskInfo(ok, machine.disks)
                         /\ bios = IF ok THEN machine.bios ELSE {}
                         /\ upsets = IF ok THEN 0 ELSE 1
  /\ level = 0
  /\ atk = [present |-> "unprobed", instance |-> "none"]
  /\ wlan = [unavailable |-> FALSE, guids |-> <<>>]
  /\ latest = {} /\ history = NoHistory /\ own = <<>>
  /\ screen = Launch /\ fit = {} /\ zoom = 1000 /\ samples = 0

\* One pass of ServeOne, then History::record, then the window's frame.
Sample(upset) ==
  /\ samples < MaxSamples
  /\ samples' = samples + 1
  /\ upset # Calm => upsets < MaxUpsets
  /\ upsets' = upsets + (IF upset = Calm THEN 0 ELSE 1)
  /\ level' = 1 - level
  /\ \E hardware \in {Updated(machine.hw, level', upset)} :
       \E adapters \in {{hw.name : hw \in BusiestAdapter(hardware)}} :
         /\ atk' = AtkRead(upset.wmi)
         /\ wlan' = WifiRead(adapters, upset.reader)
         /\ \E s \in {Build(hardware,
                            [pf |-> PagefileRead(upset.reader # "pagefile", machine.pages),
                             links |-> machine.links, disks |-> diskInfo, bios |-> bios,
                             wifi |-> WifiInfo(wlan', adapters),
                             atk |-> AtkFans(atk', upset.wmi)], upset.throws)} :
              /\ latest' = {s}
              /\ history' = Record(history, s)
              /\ own' = Owned(own, s)
              /\ Frame(s, screen.win)
  /\ UNCHANGED <<machine, diskInfo, bios, screen>>

\* The WMI service restarts: the instance AtkReader holds is worth nothing.
WmiRestarts ==
  /\ upsets < MaxUpsets
  /\ atk.instance = "live"
  /\ atk' = [atk EXCEPT !.instance = "stale"]
  /\ upsets' = upsets + 1
  /\ UNCHANGED <<machine, diskInfo, bios, level, wlan, latest, history, own, screen, fit, zoom,
                 samples>>

\* The user resizes the window and the terminal, a banner comes or goes.
Resize(to) ==
  /\ upsets < MaxUpsets
  /\ to # screen
  /\ screen' = to
  /\ upsets' = upsets + 1
  /\ IF latest = {} THEN UNCHANGED <<fit, zoom>>
     ELSE \E s \in latest : Frame(s, to.win)
  /\ UNCHANGED <<service, latest, history, own, samples>>

Done ==
  /\ samples = MaxSamples
  /\ UNCHANGED vars

Next ==
  \/ \E upset \in Upsets \cup {Calm} : Sample(upset)
  \/ WmiRestarts
  \/ \E to \in Screens : Resize(to)
  \/ Done

Spec == Init /\ [][Next]_vars

-----------------------------------------------------------------------------
(* Properties                                                              *)
RowsOf(report, card) == UNION {ToSet(t.rows) : t \in {u \in ToSet(report) : u.card = card}}
Says(rows, stat) == \E r \in rows : r.of = stat.of /\ r.v = stat.v /\ r.sev = stat.sev
AllSaid(report, card, stats) ==
  LET rows == RowsOf(report, card) IN \A k \in DOMAIN stats : stats[k].v # <<>> => Says(rows, stats[k])
\* A gauge at zero may stand for no reading at all.
GaugeSaid(report, card, gauge) ==
  LET said == {r \in RowsOf(report, card) : r.of = gauge.of}
  IN IF said = {} THEN gauge.v = 0 ELSE \A r \in said : r.v = <<gauge.v>>
\* The report has no row for the total memory: its used and free add up to it.
TotalSaid(report, total) ==
  \E u, f \in RowsOf(report, <<"ram", 0>>) :
    u.of = "used" /\ f.of = "free" /\ u.v[1] + f.v[1] = total

WindowSaid(report, s, c) ==
  LET kind == c.card[1] IN
  CASE kind = "cpu" -> \A x \in s.cpu : /\ AllSaid(report, c.card, Select(CpuPanel(x), c.rows))
                                        /\ GaugeSaid(report, c.card, Gauge("load", x.load))
    [] kind = "gpu" -> /\ AllSaid(report, c.card, Select(GpuPanel(s.gpu[c.card[2]]), c.rows))
                       /\ GaugeSaid(report, c.card, Gauge("load", s.gpu[c.card[2]].load))
    [] kind = "igpu" -> \A x \in s.igpu : /\ AllSaid(report, c.card, Select(GpuPanel(x), c.rows))
                                          /\ GaugeSaid(report, c.card, Gauge("load", x.load))
    [] kind = "ram" -> \A x \in s.ram : /\ AllSaid(report, c.card, Select(RamPanel(x), c.rows) \o <<Swap(0, x)>>)
                                        /\ GaugeSaid(report, c.card, Gauge("load", x.load))
    [] kind = "net" -> \A x \in s.net : /\ AllSaid(report, c.card, Select(NetworkPanel(x), c.rows))
                                        /\ GaugeSaid(report, c.card, Gauge("use", Busiest(x)))
    [] kind = "battery" -> \A x \in s.battery :
                             /\ AllSaid(report, c.card, Select(BatteryPanel(x), c.rows))
                             /\ GaugeSaid(report, c.card, Gauge("charge", x.charge))
    [] kind = "storage" -> LET shown == StoragePanel(s, c.h)
                           IN \A k \in DOMAIN shown :
                                /\ AllSaid(report, <<"disk", k>>, shown[k])
                                /\ GaugeSaid(report, <<"disk", k>>, Gauge("activity", s.storage[k].activity))
    [] kind = "sensors" -> /\ AllSaid(report, c.card, SensorsPanel(s, c.h))
                           /\ AllSaid(report, c.card, SetToSeq(IdentityLine(s)))

LiveSaid(report, s, panel, width) ==
  LET kind == panel[1] IN
  CASE kind = "cpu" -> \A x \in s.cpu : AllSaid(report, panel, CpuStats(x))
    [] kind = "gpu" -> AllSaid(report, panel, GpuStats(s.gpu[panel[2]]))
    [] kind = "igpu" -> \A x \in s.igpu : AllSaid(report, panel, GpuStats(x))
    [] kind = "ram" -> \A x \in s.ram : /\ AllSaid(report, panel, RamCard(x))
                                        /\ \A total \in ToSet(CardTotal(x)) : TotalSaid(report, total)
    [] kind = "net" -> \A x \in s.net : AllSaid(report, panel, NetworkCard(x))
    [] kind = "battery" -> \A x \in s.battery : AllSaid(report, panel, BatteryCard(x))
    [] kind = "storage" -> \A k \in DOMAIN s.storage :
                             AllSaid(report, <<"disk", k>>, StorageLine(s.storage[k], StorageColumns(width - 2)))
    [] kind = "sensors" -> AllSaid(report, panel, SensorStats(s))

\* The strip's figures and the footer's.
FigureSaid(report, card, of, v) == v = <<>> \/ \E r \in RowsOf(report, card) : r.of = of /\ r.v = v
NetSaid(report, rates) ==
  rates # <<>> => /\ FigureSaid(report, <<"net", 0>>, "down", <<rates[1]>>)
                  /\ FigureSaid(report, <<"net", 0>>, "up", <<rates[2]>>)
RamPairSaid(report, pair) ==
  pair # <<>> => /\ FigureSaid(report, <<"ram", 0>>, "used", <<pair[1]>>)
                 /\ TotalSaid(report, pair[2])
VramSaid(report, s) == FigureSaid(report, <<"gpu", 1>>, "vram", StripItems(s)[3][2])
FansSaid(report, s) == AllSaid(report, <<"sensors", 0>>, Footer(s).fans)
SmallSaid(report, s) ==
  \A strip \in {StripItems(s)}, foot \in {Footer(s)} :
    /\ FigureSaid(report, <<"cpu", 0>>, "load", strip[1][2])
    /\ FigureSaid(report, <<"cpu", 0>>, "temp", strip[1][3])
    /\ FigureSaid(report, <<"gpu", 1>>, "load", strip[2][2])
    /\ FigureSaid(report, <<"gpu", 1>>, "temp", strip[2][3])
    /\ RamPairSaid(report, strip[4][2])
    /\ NetSaid(report, strip[5][2])
    /\ Len(strip) = 6 => FigureSaid(report, <<"battery", 0>>, "charge", strip[6][2])
    /\ \A v \in foot.cpu : FigureSaid(report, <<"cpu", 0>>, "load", v)
    /\ \A v \in foot.gpu : FigureSaid(report, <<"gpu", 1>>, "load", v)
    /\ \A rates \in foot.net : NetSaid(report, rates)

\* Every figure of a reading that a window card, the live view, the strip or
\* the footer shows is in the report, with the same value and on a card in the
\* same colour, whatever sensor is missing (cli/report.rs:1-3,
\* cli/live/cards.rs:1-2).  The window draws at most a zero gauge for a
\* reading the report leaves out; the total memory is the used and the free of
\* the report together.  Two figures the report really lacks, and the last two
\* conjuncts say when it has them: the footer's ASUS fans without a board
\* reading, which alone opens the Sensors section (cli/report.rs:666), and the
\* strip's graphics memory on an integrated GPU, of which the report, like the
\* card, says what it shares (cli/report.rs:428).
ScreensAgree ==
  \A s \in latest : \A report \in {Text(s)} :
    /\ \A c \in fit : \A cards \in {LayoutCards(s, c.plan, zoom, screen.win)} :
         \A k \in DOMAIN cards : WindowSaid(report, s, cards[k])
    /\ \A k \in DOMAIN LivePanels(s) : LiveSaid(report, s, LivePanels(s)[k], screen.term.w)
    /\ SmallSaid(report, s)
    /\ ToSet(CardList(s)) = ToSet(LivePanels(s)) \cup {<<"net", 0>>}
    /\ HasContent(s) => FansSaid(report, s)
    /\ (s.gpu # <<>> /\ s.gpu[1].kind = "discrete") => VramSaid(report, s)

\* Entry i of the per-core arrays is the same physical core, performance
\* cores first, whichever thread or core sensor is missing; and no GPU of the
\* machine has two cards (Model/Snapshot.cs:49-58).
SensorsKeepTheirPlace ==
  \A s \in latest :
    /\ \A c \in s.cpu :
         LET Placed(list, base) ==
               \/ list = <<>>
               \/ /\ Len(list) = Len(machine.cores)
                  /\ \A k \in DOMAIN list :
                       list[k] \in {0, None} \cup {base + 2 * machine.cores[k] + to : to \in {0, 1}}
         IN Placed(c.cores, 10) /\ Placed(c.coreClocks, 4000) /\ Placed(c.coreTemps, 40)
    /\ LET all == [k \in DOMAIN s.gpu |-> s.gpu[k].id] \o SetToSeq({g.id : g \in s.igpu})
       IN IsInjective(all)

\* The frame is laid out by exactly one plan, the one its cards, window and
\* chrome ask for, however the disks, the cards and the window came and went
\* since it was cached (app.rs:716-732, ui/mod.rs:536-538).
PlanIsCurrent ==
  LET win == screen.win
  IN \A s \in latest : {c.plan : c \in fit} = {Plan(Metrics(s), win.w, win.h, win.chrome)}

\* And its zoom is within one per cent of the plan's; every card lies in
\* the window unless even the sparsest grid does not, and full content shows
\* wherever the planned zoom is the applied one (ui/fit.rs:10-16).
InWindow(cards, panel, width, metrics, cols, zoomed) ==
  /\ GridHeight(metrics, cols, ShedFor(metrics, cols, panel)) <= panel =>
       \A k \in DOMAIN cards : cards[k].y + cards[k].h <= panel - 2 * Padding
  /\ zoomed =>
       /\ ShedFor(metrics, cols, panel) = 0
       /\ \A k \in DOMAIN cards : cards[k].x + cards[k].w <= width - 2 * Padding
WindowFits ==
  /\ PlanIsCurrent
  /\ \A s \in latest : \A c \in fit : \A metrics \in {Metrics(s)} :
       LET win == screen.win
       IN /\ 100 * c.plan.zoom <= 101 * zoom /\ 100 * c.plan.zoom >= 99 * zoom
          /\ InWindow(LayoutCards(s, c.plan, zoom, win), PanelHeight(win, zoom),
                      (win.w * 1000) \div zoom, metrics, c.plan.cols,
                      c.plan.zoom = zoom /\ zoom > MinZoom)

\* The live view's panels lie in the terminal and apart from each other,
\* the CPU is among them, and none of those left out would still fit
\* (cli/live/draw.rs:153-155).
InTerminal(s, all, shown, area) ==
  LET Apart(a, b) == \/ a.x + a.w <= b.x \/ b.x + b.w <= a.x
                     \/ a.y + a.h <= b.y \/ b.y + b.h <= a.y
  IN /\ \E rects \in Place(s, shown, area) :
          /\ \A r \in rects : /\ r.x >= 0 /\ r.x + r.w <= area.w
                              /\ r.y >= 0 /\ r.y + r.h <= area.h
          /\ \A a, b \in rects : a # b => Apart(a, b)
     /\ s.cpu # {} => Contains(shown, <<"cpu", 0>>)
     /\ \A k \in DOMAIN all : ~Contains(shown, all[k]) =>
          ~Fits(s, SelectSeq(all, LAMBDA q : q = all[k] \/ Contains(shown, q)), area)
TerminalFits ==
  Draws(screen.term) =>
    \A s \in latest : LET area == Body(screen.term)
                       IN InTerminal(s, LivePanels(s), Layout(s, area), area)

\* A GPU's sparkline is its own last loads, oldest first, through dropouts
\* of the others and of itself, where no two GPUs share a name
\* (history.rs:131-135).
HistoryIsOwn ==
  \A s \in latest :
    LET names == [k \in DOMAIN s.gpu |-> s.gpu[k].name]
        all == OfType(machine.hw, GpuTypes)
    IN IsInjective([k \in DOMAIN all |-> all[k].name]) =>
         \A k \in DOMAIN names : Samples(history.gpus[history.order[k]]) = own[s.gpu[k].id]
=============================================================================
