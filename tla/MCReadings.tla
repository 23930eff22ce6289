----------------------------- MODULE MCReadings -----------------------------
(* A hybrid laptop with two GPUs and no board sensors, a desktop without     *)
(* per-core temperatures on the graphics of its processor, and one with two *)
(* graphics cards of one name, under every upset, on five screens.          *)
EXTENDS Readings

S(t, n, v, d) == [t |-> t, n |-> n, num |-> 0, thread |-> FALSE, i |-> 0, v |-> v, d |-> d]
Core(t, n, num, i, v) == [t |-> t, n |-> n, num |-> num, thread |-> FALSE, i |-> i, v |-> v, d |-> 1]
Thread(num, i, v) == [Core("Load", "CPU Core", num, i, v) EXCEPT !.thread = TRUE]
Node(type, name, id, disk, sensors) ==
  [type |-> type, name |-> name, id |-> id, disk |-> disk, sensors |-> sensors, sub |-> <<>>]

\* Cores 1 and 3 are performance cores with two threads, 2 and 4 efficient.
HybridCpu ==
  Node("Cpu", "Core i7", "cpu", -1,
       <<S("Load", "CPU Total", 20, 60), Thread(1, 1, 12), Thread(1, 2, 12),
         Core("Load", "CPU Core", 2, 3, 14), Thread(3, 4, 16), Thread(3, 5, 16),
         Core("Load", "CPU Core", 4, 6, 18), S("Temperature", "CPU Package", 60, 30),
         Core("Temperature", "P-Core", 1, 1, 42), Core("Temperature", "E-Core", 2, 2, 44),
         Core("Temperature", "P-Core", 3, 3, 46), Core("Temperature", "E-Core", 4, 4, 48),
         S("Temperature", "Distance to TjMax", 30, -25), Core("Clock", "P-Core", 1, 1, 4002),
         Core("Clock", "E-Core", 2, 2, 4004), Core("Clock", "P-Core", 3, 3, 4006),
         Core("Clock", "E-Core", 4, 4, 4008), S("Clock", "Bus Speed", 100, 0),
         S("Voltage", "CPU Core", 11, 2), S("Power", "CPU Package", 90, 300)>>)
\* Two cores of two threads, numbered without saying so.
PlainCpu ==
  Node("Cpu", "Ryzen", "cpu", -1,
       <<S("Load", "CPU Total", 20, 60), Core("Load", "CPU Core", 1, 1, 12),
         Core("Load", "CPU Core", 2, 2, 12), Core("Load", "CPU Core", 3, 3, 14),
         Core("Load", "CPU Core", 4, 4, 14), S("Temperature", "Core (Tctl/Tdie)", 50, 30),
         Core("Clock", "Core", 1, 1, 4002), Core("Clock", "Core", 2, 2, 4004),
         S("Power", "CPU Package", 65, 300)>>)
Card(id, load) ==
  Node("GpuNvidia", "RTX", id, -1,
       <<S("Load", "GPU Core", load, 50), S("Temperature", "GPU Core", 70, 20),
         S("SmallData", "GPU Memory Used", 20, 5), S("SmallData", "GPU Memory Total", 80, 0),
         S("Clock", "GPU Core", 1500, 900), S("Clock", "GPU Memory", 7000, 0),
         S("Power", "GPU Package", 200, 900), S("Load", "GPU Memory Controller", 5, 40),
         S("Temperature", "GPU Hot Spot", 80, 12), S("Throughput", "GPU PCIe Rx", 3, 9),
         S("Load", "GPU Video Engine", 0, 30), S("Load", "D3D 3D", 4, 50), S("Load", "D3D Copy", 0, 0)>>)
Integrated ==
  Node("GpuIntel", "Iris", "igpu", -1,
       <<S("Load", "GPU Core", 3, 7), S("SmallData", "D3D Shared Memory Used", 33, 1),
         S("Power", "GPU Power", 0, 5), S("Load", "D3D 3D", 2, 5)>>)
\* A processor's graphics, with memory of its own set aside.
Apu ==
  Node("GpuAmd", "Radeon Graphics", "gpu0", -1,
       <<S("Load", "GPU Core", 3, 60), S("Temperature", "GPU Core", 45, 20),
         S("SmallData", "GPU Memory Used", 3, 1), S("SmallData", "GPU Memory Total", 5, 0),
         S("SmallData", "D3D Shared Memory Used", 12, 4), S("Power", "GPU Power", 0, 20),
         S("Load", "D3D 3D", 2, 60)>>)
Memory == Node("Memory", "Generic", "ram", -1,
               <<S("Data", "Memory Used", 160, 20), S("Data", "Memory Available", 150, -20),
                 S("Load", "Memory", 51, 6)>>)
Dimm(name, v) ==
  Node("Memory", name, "/memory/dimm", -1,
       <<S("Temperature", "DIMM", v, 20), S("Data", "Capacity", 16, 0), S("Timing", "tAA", 14, 0),
         S("Timing", "tRCD", 14, 0), S("Timing", "tRP", 14, 0), S("Timing", "tRAS", 32, 0),
         S("Timing", "tCKAVGmin", 1, 0)>>)
Nvme == Node("Storage", "NVMe", "/nvme/", 0,
             <<S("Temperature", "Composite", 60, 15), S("Temperature", "Warning Temperature", 70, 0),
               S("Temperature", "Critical Temperature", 80, 0), S("Load", "Used Space", 40, 0),
               S("Load", "Total Activity", 10, 75), S("Level", "Available Spare", 100, 0),
               S("Level", "Remaining Life", 79, 0), S("Throughput", "Read Rate", 5, 5),
               S("Throughput", "Write Rate", 6, 6), S("Factor", "Power On Hours", 900, 0)>>)
Hdd == Node("Storage", "HDD", "/hdd/", 1,
            <<S("Temperature", "Temperature", 45, 20), S("Load", "Used Space", 90, 0)>>)
Nic(name) == Node("Network", name, name, -1,
                  <<S("Throughput", "Download", 2, 40), S("Throughput", "Upload", 1, 9)>>)
Board ==
  [Node("Motherboard", "B650", "board", -1, <<>>) EXCEPT !.sub =
     <<Node("SuperIO", "NCT", "io", -1,
            <<S("Temperature", "System", 40, 25), S("Temperature", "VRM", 50, 35),
              S("Fan", "CPU Fan", 900, 600), S("Fan", "Rear Fan", 700, 0), S("Voltage", "+12V", 12, 0)>>)>>]
BatteryNode ==
  Node("Battery", "Battery", "battery", -1,
       <<S("Level", "Charge Level", 80, -10), S("Power", "Discharge Rate", 90, 200),
         S("Energy", "Designed Capacity", 100, 0), S("Energy", "Fully-Charged Capacity", 70, 0),
         S("TimeSpan", "Remaining Time (Estimated)", 7200, -3600)>>)

Pages == [limit |-> 40, physical |-> 32, commit |-> 30, available |-> 9, cache |-> 7]
Laptop ==
  [hw |-> <<HybridCpu, Integrated, Card("gpu0", 30), Memory, Dimm("D0", 40), Dimm("D1", 60), Nvme,
            Nic("Wi-Fi"), BatteryNode>>,
   cores |-> <<1, 3, 2, 4>>, links |-> [n \in {"Wi-Fi"} |-> 8000], pages |-> Pages,
   disks |-> [n \in {0} |-> [bus |-> 17, media |-> 0, size |-> 1000]], bios |-> {"1.2"},
   wifi |-> [n \in {"Wi-Fi"} |-> [ssid |-> 1, signal |-> 101, rate |-> 866]],
   atk |-> <<[name |-> "CPU Fan", v |-> 30], [name |-> "GPU Fan", v |-> None]>>]
Desktop ==
  [hw |-> <<PlainCpu, Apu, Memory, Nvme, Hdd, Nic("Ethernet"), Board>>,
   cores |-> <<1, 2>>, links |-> <<>>, pages |-> [Pages EXCEPT !.limit = 32],
   disks |-> [n \in {0, 1} |-> [bus |-> IF n = 0 THEN 17 ELSE 11, media |-> 3, size |-> 500]],
   bios |-> {"7.1"}, wifi |-> <<>>, atk |-> <<>>]
Twins == [Desktop EXCEPT !.hw = <<PlainCpu, Card("gpu0", 30), Card("gpu1", 40), Memory, Nvme,
                                  Nic("Ethernet")>>]
MCMachines == {Laptop, Desktop, Twins}

Glitch(S_) == [Calm EXCEPT !.glitch = S_]
MCUpsets ==
  {Glitch({<<"cpu", "CPU Core", 1>>, <<"cpu", "P-Core", 3>>, <<"cpu", "Core", 1>>}),
   Glitch({<<"cpu", "CPU Total", 0>>, <<"cpu", "CPU Package", 0>>, <<"ram", "Memory Available", 0>>,
           <<"battery", "Discharge Rate", 0>>, <<"Wi-Fi", "Download", 0>>}),
   Glitch({<<"gpu0", "GPU Core", 0>>, <<"gpu0", "GPU Memory Used", 0>>, <<"igpu", "GPU Core", 0>>}),
   Glitch({<<"/nvme/", "Composite", 0>>, <<"/nvme/", "Remaining Life", 0>>, <<"/nvme/", "Read Rate", 0>>,
           <<"/memory/dimm", "DIMM", 0>>, <<"io", "VRM", 0>>}),
   [Calm EXCEPT !.gone = {"gpu0"}], [Calm EXCEPT !.gone = {"/hdd/", "igpu"}],
   [Calm EXCEPT !.gone = {"Wi-Fi", "Ethernet"}], [Calm EXCEPT !.stuck = {"cpu", "gpu0"}],
   [Calm EXCEPT !.throws = {"cpu", "ram"}], [Calm EXCEPT !.throws = {"gpu", "fans"}],
   [Calm EXCEPT !.reader = "wlan"], [Calm EXCEPT !.reader = "enumeration"],
   [Calm EXCEPT !.reader = "pagefile", !.wmi = FALSE]}

\* The design size, a little lower, a narrow column with a banner, a wide one,
\* one too low for the sparsest cards at the smallest zoom.
MCLaunch == [win |-> [w |-> 1180, h |-> 600, chrome |-> 66], term |-> [w |-> 120, h |-> 40]]
MCScreens ==
  {MCLaunch,
   [win |-> [w |-> 1180, h |-> 596, chrome |-> 66], term |-> [w |-> 80, h |-> 24]],
   [win |-> [w |-> 430, h |-> 1800, chrome |-> 96], term |-> [w |-> 60, h |-> 14]],
   [win |-> [w |-> 2400, h |-> 700, chrome |-> 66], term |-> [w |-> 86, h |-> 30]],
   [win |-> [w |-> 900, h |-> 380, chrome |-> 66], term |-> [w |-> 50, h |-> 10]]}
=============================================================================
