----------------------------- MODULE WindowMode -----------------------------
(***************************************************************************)
(* The dashboard window and its modes (app.rs, strip_window.rs, main.rs,   *)
(* the title bar of ui/mod.rs): the full window, F11 fullscreen and the    *)
(* mini strip, a 28 px topmost bar over the top edge of one monitor.       *)
(*                                                                         *)
(* One UI pass is one action.  A pass reads the input, changes `app`,      *)
(* calls Win32 directly on `os` (the strip's placement) and queues         *)
(* viewport commands in `cmds`, which winit applies only when the frame    *)
(* ends.  A pass that changes the zoom asks egui to discard it and run a   *)
(* second pass of the same frame (`rerun`), so a frame's commands may      *)
(* still be waiting while its second pass runs.  Around the frames, the    *)
(* user moves the window, monitors come and go, winit rewrites the         *)
(* extended style, another topmost window appears, a save fails, the       *)
(* process is killed.                                                      *)
(***************************************************************************)
EXTENDS Naturals, Sequences

CONSTANTS
  Monitors,       \* GDI device names of the monitors that can be plugged in
  MaxPlug,        \* bound on monitor changes
  MaxDisturb,     \* bound on disturbances of the strip from outside and on passes whose
                  \* saves fail
  MaxLaunch       \* bound on launches of the program

ASSUME MonitorsAssumption == Monitors # {}

None == "none"
Overlay == {"noactivate", "appwindow"}          \* OVERLAY_STYLE_BITS
Keys == {None, "F11", "CtrlM"}
Clicks == {None, "gear", "pin", "mini", "onTopSwitch", "miniSwitch",
           "closeSettings", "expand", "close"}

VARIABLES
  run,        \* "glow" / "wgpu": a window is open; "exited"
  app,        \* the fields of PerfApp the modes use, with the config in .cfg
  os,         \* the OS window: see Created
  cmds,       \* viewport commands queued and not applied yet
  rerun,      \* the current frame runs a second pass
  disk,       \* the saved config
  unsaved,    \* history: this process's last save failed, which was only logged
  monitors,   \* the monitors plugged in
  entered,    \* history: the window's rectangle when strip mode was entered
  pushed,     \* history: the monitor went away that the strip was placed on
  plugs, disturbs, launches

vars == <<run, app, os, cmds, rerun, disk, unsaved, monitors, entered, pushed,
          plugs, disturbs, launches>>
budgets == <<plugs, disturbs, launches>>

Rects == [kind: {"home", "screen", "band", "clamped", "stray"}, at: Monitors]
Configs == [onTop: BOOLEAN, mini: BOOLEAN, monitor: Monitors \cup {None}]
Home(m) == [kind |-> "home", at |-> m]
NoRect == [kind |-> "none", at |-> None]        \* Option::None
NoStrip == [dev |-> None, original |-> {}]

TypeOK ==
  /\ run \in {"glow", "wgpu", "exited"}
  /\ app \in [cfg: Configs, level: BOOLEAN, full: BOOLEAN, applied: BOOLEAN,
              restore: Rects \cup {NoRect}, placeDue: BOOLEAN,
              refreshed: {"never", "recent", "old"}, settings: BOOLEAN,
              strip: [dev: Monitors, original: SUBSET Overlay] \cup {NoStrip},
              quit: BOOLEAN]
  /\ os \in [decorated: BOOLEAN, top: BOOLEAN, full: BOOLEAN, min: {"full", "one"},
             rect: Rects, under: Rects \cup {NoRect}, style: SUBSET Overlay, base: SUBSET Overlay]
  /\ rerun \in BOOLEAN /\ disk \in Configs /\ unsaved \in BOOLEAN /\ pushed \in BOOLEAN
  /\ monitors \in (SUBSET Monitors) \ {{}} /\ entered \in Rects \cup {NoRect}

-----------------------------------------------------------------------------
(* Launch: the builder of run_app and the fields of PerfApp::new.           *)
Started(cfg) ==
  [cfg |-> cfg, level |-> FALSE, full |-> FALSE, applied |-> FALSE,
   restore |-> NoRect, placeDue |-> FALSE, refreshed |-> "never",
   settings |-> FALSE, strip |-> NoStrip, quit |-> FALSE]

\* startup_window_geometry centres the window on the primary monitor's work
\* area; a saved strip starts undecorated and topmost, at the full size.
Created(cfg, m, base) ==
  [decorated |-> ~cfg.mini, top |-> cfg.onTop \/ cfg.mini, full |-> FALSE,
   min |-> "full", rect |-> Home(m), under |-> NoRect,
   style |-> base, base |-> base]

Init ==
  /\ run = "glow"
  /\ disk \in Configs
  /\ monitors = Monitors
  /\ app = Started(disk)
  /\ \E m \in monitors : os = Created(disk, m, {"appwindow"})
  /\ cmds = <<>> /\ rerun = FALSE /\ entered = NoRect /\ unsaved = FALSE /\ pushed = FALSE
  /\ plugs = 0 /\ disturbs = 0 /\ launches = 1

RunApp(renderer) ==
  /\ run' = renderer
  /\ app' = Started(disk)
  /\ \E m \in monitors : os' = Created(disk, m, os.base)
  /\ cmds' = <<>> /\ rerun' = FALSE /\ entered' = NoRect
  /\ unsaved' = FALSE /\ pushed' = FALSE

-----------------------------------------------------------------------------
(* A pass transforms w, the part of the state one thread works on.  It      *)
(* saves at most once on its way into the strip (enter_strip, place_strip)  *)
(* and once more (the pin, the switches, leave_strip, where a switch that   *)
(* leaves saves the same twice); fails says which of the two cannot write   *)
(* or rename the file.                                                      *)
Savers == {"intoStrip", "other"}
WorldWith(fails) == [app |-> app, os |-> os, disk |-> disk, unsaved |-> unsaved,
                     cmds |-> cmds, fails |-> fails]
World == WorldWith({})
Cmd(what, value) == [set |-> what, to |-> value]
Send(w, cs) == [w EXCEPT !.cmds = @ \o cs]
Save(w, saver) ==
  IF saver \in w.fails THEN [w EXCEPT !.unsaved = TRUE]
  ELSE [w EXCEPT !.disk = w.app.cfg, !.unsaved = FALSE]

\* capture_window_rect, then everything enter_strip changes and sends.
EnterStrip(w) ==
  IF w.app.applied THEN w
  ELSE Save(Send(
    [w EXCEPT !.app = [w.app EXCEPT
       !.restore = IF w.app.restore = NoRect THEN w.os.rect ELSE w.app.restore,
       !.settings = FALSE, !.full = FALSE, !.level = TRUE, !.placeDue = TRUE,
       !.refreshed = "never", !.applied = TRUE, !.cfg.mini = TRUE]],
    (IF w.app.full THEN <<Cmd("fullscreen", FALSE)>> ELSE <<>>)
      \o <<Cmd("decorated", FALSE), Cmd("min", "one"), Cmd("top", TRUE)>>), "intoStrip")

\* preferred_monitor: the named one while it exists, else the window's own,
\* which for a window on no monitor is the nearest one (any fixed choice).
Preferred(dev, at) ==
  CASE dev \in monitors -> dev
    [] dev \notin monitors /\ at \in monitors -> at
    [] OTHER -> CHOOSE m \in monitors : TRUE

\* A move onto the band; winit enforces the minimum size on every SetWindowPos.
Reposition(w) ==
  LET m == Preferred(w.app.strip.dev, w.os.rect.at) IN
  [w EXCEPT !.app.strip.dev = m, !.os.top = TRUE,
     !.os.rect = [kind |-> IF w.os.min = "one" THEN "band" ELSE "clamped", at |-> m]]

\* Mutant: the refresh only moves the strip and leaves the style bits to winit.
RefreshNoStyle(w) == Reposition(w)

Refresh(w) == LET r == Reposition(w) IN [r EXCEPT !.os.style = @ \cup Overlay]

\* StripWindow::attach: take the style bits over, then a first refresh.
Attach(w) ==
  Refresh([w EXCEPT
    !.app.strip = [dev |-> Preferred(w.app.cfg.monitor, w.os.rect.at),
                   original |-> w.os.style],
    !.os.style = @ \cup Overlay])

\* Mutant: the monitor the strip landed on is remembered and not saved.
PlaceStripUnsaved(w) ==
  LET a == Attach([w EXCEPT !.app.placeDue = FALSE]) IN
  [a EXCEPT !.app.cfg.monitor = a.app.strip.dev]

PlaceStrip(w) ==
  LET a == Attach([w EXCEPT !.app.placeDue = FALSE]) IN
  IF a.app.cfg.monitor = a.app.strip.dev THEN a
  ELSE Save([a EXCEPT !.app.cfg.monitor = a.app.strip.dev], "intoStrip")

Release(w) ==
  IF w.app.strip = NoStrip THEN w
  ELSE [w EXCEPT !.os.style = (@ \ Overlay) \cup (w.app.strip.original \cap Overlay),
                 !.app.strip = NoStrip]

\* Mutant: the full minimum size is not put back.
LeaveStripSmall(w) ==
  LET r == Release(w) IN
  Save(Send(
    [r EXCEPT !.app = [r.app EXCEPT
       !.placeDue = FALSE, !.refreshed = "never", !.level = r.app.cfg.onTop,
       !.restore = NoRect, !.applied = FALSE, !.cfg.mini = FALSE]],
    <<Cmd("decorated", TRUE), Cmd("top", r.app.cfg.onTop)>>
      \o (IF r.app.restore = NoRect THEN <<>> ELSE <<Cmd("rect", r.app.restore)>>)), "other")

\* Mutant: the saved rectangle is read and not taken.
LeaveStripKeeps(w) ==
  LET r == Release(w) IN
  Save(Send(
    [r EXCEPT !.app = [r.app EXCEPT
       !.placeDue = FALSE, !.refreshed = "never", !.level = r.app.cfg.onTop,
       !.applied = FALSE, !.cfg.mini = FALSE]],
    <<Cmd("decorated", TRUE), Cmd("min", "full"), Cmd("top", r.app.cfg.onTop)>>
      \o (IF r.app.restore = NoRect THEN <<>> ELSE <<Cmd("rect", r.app.restore)>>)), "other")

LeaveStrip(w) ==
  LET r == Release(w) IN
  Save(Send(
    [r EXCEPT !.app = [r.app EXCEPT
       !.placeDue = FALSE, !.refreshed = "never", !.level = r.app.cfg.onTop,
       !.restore = NoRect, !.applied = FALSE, !.cfg.mini = FALSE]],
    <<Cmd("decorated", TRUE), Cmd("min", "full"), Cmd("top", r.app.cfg.onTop)>>
      \o (IF r.app.restore = NoRect THEN <<>> ELSE <<Cmd("rect", r.app.restore)>>)), "other")

\* One frame of strip mode; fresh: strip mode was entered in this very pass.
StripFrame(w, key, click, fresh) ==
  IF key = "CtrlM" THEN LeaveStrip(w)
  ELSE LET p == IF w.app.placeDue /\ ~fresh THEN PlaceStrip(w) ELSE w
           r == CASE p.app.refreshed = "recent" -> p
                  [] p.app.refreshed # "recent" /\ p.app.strip = NoStrip ->
                       [p EXCEPT !.app.refreshed = "recent"]
                  [] OTHER -> [Refresh(p) EXCEPT !.app.refreshed = "recent"]
       IN CASE click = "expand" -> LeaveStrip(r)
            [] click = "close"  -> [r EXCEPT !.app.quit = TRUE]
            [] OTHER -> r

SyncWindowLevel(w) ==
  IF w.app.cfg.onTop = w.app.level THEN w
  ELSE Send([w EXCEPT !.app.level = w.app.cfg.onTop], <<Cmd("top", w.app.cfg.onTop)>>)

FullscreenKey(w, key) ==
  IF key # "F11" THEN w
  ELSE Send([w EXCEPT !.app.full = ~@],
            <<Cmd("fullscreen", ~w.app.full), Cmd("decorated", w.app.full)>>)

\* The chips of the title bar that touch the window.
TitleBar(w, click) ==
  CASE click = "gear" -> [w EXCEPT !.app.settings = ~@]
    [] click = "pin"  -> Save([w EXCEPT !.app.cfg.onTop = ~@], "other")
    [] click = "mini" -> EnterStrip(w)
    [] OTHER -> w

\* The switches of the settings modal that touch the window.
SettingsModal(w, click) ==
  IF ~w.app.settings THEN w
  ELSE CASE click = "onTopSwitch" -> Save([w EXCEPT !.app.cfg.onTop = ~@], "other")
         [] click = "miniSwitch" ->
              IF w.app.cfg.mini THEN LeaveStrip(Save([w EXCEPT !.app.cfg.mini = FALSE], "other"))
              ELSE EnterStrip(Save([w EXCEPT !.app.cfg.mini = TRUE], "other"))
         [] click = "closeSettings" -> [w EXCEPT !.app.settings = FALSE]
         [] OTHER -> w

FullFrame(w, key, click) ==
  LET f == FullscreenKey(SyncWindowLevel(w), key)
      h == IF key = "CtrlM" THEN EnterStrip(f) ELSE f
  IN SettingsModal(TitleBar(h, click), click)

-----------------------------------------------------------------------------
(* A frame that has run its passes hands its commands to winit, one after   *)
(* the other, before anything else happens to the window.  Every attribute  *)
(* change rewrites the whole extended style from winit's own flags.         *)
ApplyOne(o, c) ==
  CASE c.set = "decorated"  -> [o EXCEPT !.decorated = c.to, !.style = o.base]
    [] c.set = "top"        -> [o EXCEPT !.top = c.to, !.style = o.base]
    [] c.set = "rect"       -> [o EXCEPT !.rect = c.to]
    [] c.set = "min"        ->
         [o EXCEPT !.min = c.to,
            !.rect.kind = IF c.to = "full" /\ @ \in {"band", "stray"} THEN "clamped" ELSE @]
    [] c.set = "fullscreen" ->
         IF c.to = o.full THEN o
         ELSE IF c.to THEN [o EXCEPT !.full = TRUE, !.under = o.rect, !.style = o.base,
                              !.rect = [kind |-> "screen", at |-> o.rect.at]]
         ELSE [o EXCEPT !.full = FALSE, !.rect = o.under, !.under = NoRect, !.style = o.base]

Becomes(w) ==
  /\ app' = w.app /\ os' = w.os /\ cmds' = w.cmds
  /\ disk' = w.disk /\ unsaved' = w.unsaved

\* Between two frames of a window.
Steady == run # "exited" /\ ~rerun /\ cmds = <<>>

\* PerfApp::ui.  The second pass of a frame sees no input (egui hands its
\* events to the first one), and a discard it asks for is not granted.
Pass(key, click, zoomed) ==
  /\ run # "exited" /\ ~app.quit /\ (rerun \/ Steady)
  /\ rerun => key = None /\ click = None
  /\ LET fresh == app.cfg.mini /\ ~app.applied IN
     \E fails \in SUBSET Savers :
     \E w1 \in {IF fresh THEN EnterStrip(WorldWith(fails)) ELSE WorldWith(fails)} :
     \E w2 \in {IF w1.app.cfg.mini THEN StripFrame(w1, key, click, fresh)
                ELSE FullFrame(w1, key, click)} :
     \E again \in {zoomed /\ ~rerun /\ ~w1.app.cfg.mini} :
       /\ Becomes(w2)
       /\ rerun' = again
       /\ entered' = IF ~w2.app.applied THEN NoRect
                     ELSE IF app.applied THEN entered ELSE os.rect
       /\ pushed' = (pushed /\ w2.app.strip # NoStrip)
       /\ IF fails = {} THEN UNCHANGED disturbs
          ELSE disturbs < MaxDisturb /\ disturbs' = disturbs + 1
  /\ UNCHANGED <<run, monitors, plugs, launches>>

ApplyCommand ==
  /\ run # "exited" /\ ~rerun /\ cmds # <<>>
  /\ os' = ApplyOne(os, Head(cmds)) /\ cmds' = Tail(cmds)
  /\ UNCHANGED <<run, app, rerun, disk, unsaved, monitors, entered, pushed, budgets>>

\* A second of strip time passes; the strip asks for the repaint itself.
SecondPasses ==
  /\ run # "exited" /\ app.refreshed = "recent"
  /\ app' = [app EXCEPT !.refreshed = "old"]
  /\ UNCHANGED <<run, os, cmds, rerun, disk, unsaved, monitors, entered, pushed, budgets>>

-----------------------------------------------------------------------------
(* The process: a clean close, a kill, a renderer that fails.               *)
Exit ==
  /\ run # "exited" /\ ~rerun
  /\ run' = "exited"
  /\ app' = Started(disk) /\ cmds' = <<>> /\ entered' = NoRect
  /\ unsaved' = FALSE /\ pushed' = FALSE
  /\ os' = Created(disk, CHOOSE m \in monitors : TRUE, os.base)   \* the window is gone
  /\ UNCHANGED <<rerun, disk, monitors, budgets>>

Close == app.quit /\ cmds = <<>> /\ Exit
Kill  == ~app.quit /\ Exit

\* glow fails within RENDERER_FALLBACK_WINDOW of the start: once more, on wgpu.
FallBack ==
  /\ run = "glow" /\ ~rerun /\ ~app.quit
  /\ RunApp("wgpu")
  /\ UNCHANGED <<disk, monitors, budgets>>

Launch ==
  /\ run = "exited" /\ launches < MaxLaunch
  /\ launches' = launches + 1
  /\ RunApp("glow")
  /\ UNCHANGED <<disk, monitors, plugs, disturbs>>

(* The desktop.  Windows moves a window whose monitor goes away.            *)
UserMoves ==
  /\ Steady /\ ~app.cfg.mini /\ os.rect.kind # "screen"
  /\ \E m \in monitors : os' = [os EXCEPT !.rect = Home(m)]
  /\ os' # os
  /\ UNCHANGED <<run, app, cmds, rerun, disk, unsaved, monitors, entered, pushed, budgets>>

MonitorGoes ==
  /\ plugs < MaxPlug /\ plugs' = plugs + 1 /\ ~rerun /\ cmds = <<>>
  /\ \E m \in monitors :
       /\ monitors # {m} /\ monitors' = monitors \ {m}
       /\ pushed' = (pushed \/ app.strip.dev = m)
       /\ IF os.rect.at # m THEN UNCHANGED os
          ELSE \E n \in monitors' :
                 os' = [os EXCEPT !.rect = [kind |-> IF @.kind = "band" THEN "stray" ELSE @.kind,
                                            at |-> n],
                                  !.under = IF @ = NoRect THEN @ ELSE [kind |-> @.kind, at |-> n]]
  /\ UNCHANGED <<run, app, cmds, rerun, disk, unsaved, entered, disturbs, launches>>

MonitorComes ==
  /\ plugs < MaxPlug /\ plugs' = plugs + 1
  /\ \E m \in Monitors \ monitors : monitors' = monitors \cup {m}
  /\ UNCHANGED <<run, app, os, cmds, rerun, disk, unsaved, entered, pushed, disturbs, launches>>

\* winit rewrites the style for a reason of its own, or a later topmost
\* window covers the strip.
Disturb ==
  /\ disturbs < MaxDisturb /\ disturbs' = disturbs + 1
  /\ Steady /\ app.strip # NoStrip
  /\ os' \in {[os EXCEPT !.style = os.base], [os EXCEPT !.top = FALSE]}
  /\ UNCHANGED <<run, app, cmds, rerun, disk, unsaved, monitors, entered, pushed, plugs, launches>>

Frame == \E key \in Keys, click \in Clicks, zoomed \in BOOLEAN : Pass(key, click, zoomed)

Next ==
  \/ Frame \/ ApplyCommand \/ SecondPasses \/ Close \/ Kill \/ FallBack \/ Launch
  \/ UserMoves \/ MonitorGoes \/ MonitorComes \/ Disturb

Spec == Init /\ [][Next]_vars

\* The strip asks for a repaint every second, so frames keep coming, and the
\* user does not press something in every one of them.
\* Weak fairness, with the state predicate that enables a repaint spelled out.
IdleFrame == Pass(None, None, FALSE)
FrameDue ==
  /\ run # "exited" /\ ~app.quit
  /\ rerun \/ (Steady /\ app.cfg.mini /\ (~app.applied \/ app.placeDue \/ app.refreshed # "recent"))
Fairness == (<>[]FrameDue => []<><<IdleFrame>>_vars) /\ WF_vars(ApplyCommand)
            /\ WF_vars(SecondPasses)
FairSpec == Spec /\ Fairness

-----------------------------------------------------------------------------
(* The full window is whole again whatever way it came out of the strip:    *)
(* the strip's hold on the window is gone, the minimum size and the style   *)
(* are back, and the chrome is hidden exactly in fullscreen (leave_strip,   *)
(* release, handle_fullscreen_keypress).                                    *)
FullWindowIsWhole ==
  Steady /\ ~app.cfg.mini =>
    /\ app.strip = NoStrip /\ ~app.applied /\ ~app.placeDue
    /\ os.min = "full" /\ os.style = os.base
    /\ app.full = os.full /\ os.decorated = ~os.full
    /\ os.top \in {app.level, app.cfg.onTop}
    /\ os.rect.kind \in {"home", "screen", "clamped"}

(* What leaving the strip will put back is the rectangle the window had     *)
(* when this stay in the strip began, never an older one and never the      *)
(* strip's own bar, also across monitor changes (strip_restore).            *)
RestoresWhereItWas ==
  Steady /\ app.applied =>
    /\ app.restore = entered
    /\ entered.kind \in {"home", "screen", "clamped"}

(* A kill between two frames loses no mode: unless the last save failed,    *)
(* the file holds the window's mode, the level the user chose, and the      *)
(* monitor the strip is on.  A strip whose monitor went away may stand on   *)
(* another one while the file keeps the one it was placed on (refresh moves *)
(* the strip and leaves mini_strip_monitor alone).                          *)
ModeIsOnDisk ==
  Steady /\ ~unsaved =>
    /\ disk = app.cfg
    /\ app.applied => disk.mini
    /\ app.strip # NoStrip /\ ~pushed => disk.monitor = app.strip.dev

(* The strip ends up on the band of a monitor that exists, topmost and      *)
(* with its style bits, after every disturbance, also when it was placed    *)
(* in the second pass of the frame that entered it (refresh).               *)
OnBand ==
  /\ app.strip # NoStrip /\ os.top /\ Overlay \subseteq os.style
  /\ os.rect = [kind |-> "band", at |-> app.strip.dev] /\ app.strip.dev \in monitors
StripSettles == (run # "exited" /\ app.cfg.mini) ~> (OnBand \/ ~app.cfg.mini \/ app.quit
                                                     \/ run = "exited")
=============================================================================
