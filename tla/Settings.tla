------------------------------ MODULE Settings ------------------------------
(***************************************************************************)
(* The user's settings (config.rs, ui/settings.rs, the chips of ui/mod.rs, *)
(* the strip's slider, theme/system.rs, PATH in cli/path.rs).  Each        *)
(* dashboard window is a process with a whole Config in memory, read once  *)
(* at launch.  A change is applied live, sent to the sensor feed or to a   *)
(* PATH worker where it matters, and the whole Config is written to one    *)
(* temporary name and renamed over the file, on the UI thread.  A read, an *)
(* open, a write or a rename may fail, and a process may end between any   *)
(* two of them.                                                            *)
(*                                                                         *)
(* Each window's UI thread, its PATH workers, the user's editor, the       *)
(* installer, the Windows theme and the clock interleave.                  *)
(***************************************************************************)
EXTENDS Naturals, Integers, Sequences, FiniteSets, SequencesExt, FiniteSetsExt

CONSTANTS
  Windows,        \* dashboard processes
  Plain,          \* settings with no effect outside the window (unit, heat map,
                  \* update check, strip readings), on or off their default
  TrackClicks,    \* where on the slider's track the user may click, in percent
  HandOpacities,  \* opacities the user may type into the file
  PickThemes, PickRates,   \* the cards and segments the user may click
  MaxEvent, MaxLaunch   \* bounds: changes, world events (a feed that comes, an edit),
                        \* file operations that fail; launches

Rates == {"Ms500", "S1", "S2", "S5"}
THEME_CYCLE == <<"Amber", "Slate", "Phosphor", "Light", "Synthwave", "Crimson">>
Themes == ToSet(THEME_CYCLE)
MIN_OPACITY == 30
MAX_OPACITY == 100
STEP == 5

NoFeed == "none"
NoWindow == "none"

ASSUME SettingsAssumption ==
  /\ TrackClicks \subseteq 0..100 /\ HandOpacities \subseteq 0..255
  /\ PickThemes \subseteq Themes /\ PickRates \subseteq Rates
  /\ NoWindow \notin Windows /\ {MaxEvent, MaxLaunch} \subseteq Nat

Configs == [theme: Themes, follow: BOOLEAN, refresh: Rates, opacity: MIN_OPACITY..MAX_OPACITY,
            cli: BOOLEAN, moved: SUBSET Plain, version: 0..MaxEvent + 1]
Default == [theme |-> "Slate", follow |-> FALSE, refresh |-> "S1", opacity |-> MAX_OPACITY,
            cli |-> FALSE, moved |-> {}, version |-> 0]     \* version 0: None
Whole(c) == [is |-> "whole", cfg |-> c]
Missing == [is |-> "missing", cfg |-> Default]
Torn == [is |-> "torn", cfg |-> Default]        \* what does not parse

VARIABLES
  win,        \* per window: see Closed
  file, tmp,  \* config.toml and config.toml.tmp
  path,       \* the program's folder is on the user's PATH
  pathBy,     \* history: the window whose worker last settled the PATH
  osLight,    \* AppsUseLightTheme
  installed,  \* the installed build
  told, owed, \* history: openings of the what's-new notes, and how many are due: one
              \* for an upgrade, one for every version that got lost
  saver,      \* history: the window that last renamed its file into place
  overlapped, \* history: two windows were inside a save at once
  crossed,    \* history: a window loaded while another had yet to stamp what it shows
  budget      \* events and launches left

vars == <<win, file, tmp, path, pathBy, osLight, installed, told, owed, saver,
          overlapped, crossed, budget>>
paths == <<path, pathBy>>
history == <<told, owed, overlapped, crossed>>

\* light: os_is_light.  feed: the interval the attached feed was told last.
\* wanted, workers: PATH_WANTED and the spawned threads, each with the value of
\* its click.  existed: config_file_existed, until record_run.  notes: the
\* what's-new viewer opened and not painted yet.  save: loaded (before
\* record_run), or the next step of Config::save is to open (begun), to write
\* (opened) or to rename (written); to: which file its open handle now points
\* at.  unsaved: the last save failed, which was only logged.
Closed == [open |-> FALSE, cfg |-> Default, shown |-> "Slate", light |-> FALSE,
           feed |-> NoFeed, wanted |-> FALSE, workers |-> <<>>,
           existed |-> FALSE, notes |-> FALSE, save |-> "idle", to |-> "gone",
           unsaved |-> FALSE]

Spend(what) == budget[what] > 0 /\ budget' = [budget EXCEPT ![what] = @ - 1]
Saving(w) == win[w].save \in {"opened", "written"}     \* the temporary file is its own
Idle(w) == win[w].open /\ win[w].save = "idle"
Others(w) == Windows \ {w}

-----------------------------------------------------------------------------
(* Pure parts.                                                              *)
Clamp(n, lo, hi) == IF n < lo THEN lo ELSE IF n > hi THEN hi ELSE n
Effective(c, light) == IF c.follow /\ light THEN "Light" ELSE c.theme
NextTheme(t) ==
  LET i == CHOOSE k \in DOMAIN THEME_CYCLE : THEME_CYCLE[k] = t
  IN THEME_CYCLE[(i % Len(THEME_CYCLE)) + 1]
\* opacity_at: the nearest stop to a click at percent x of the travel.
OpacityAt(x) ==
  MIN_OPACITY + ((x * ((MAX_OPACITY - MIN_OPACITY) \div STEP) + 50) \div 100) * STEP
Stepped(v, notches) ==
  Clamp(Clamp(v, MIN_OPACITY, MAX_OPACITY) + notches * STEP, MIN_OPACITY, MAX_OPACITY)

\* from_toml_str: any failure yields defaults; the opacity is clamped.
Load(f) == [f.cfg EXCEPT !.opacity = Clamp(@, MIN_OPACITY, MAX_OPACITY)]

\* Mutant: off by one, the version that is running counts as older.
UpgradedFromSame(previous) == previous <= installed

UpgradedFrom(previous) == previous = 0 \/ previous < installed

Init ==
  /\ win = [w \in Windows |-> Closed]
  /\ file \in {Missing, Whole(Default), Whole([Default EXCEPT !.version = 1])}
  /\ tmp = Missing
  /\ path = FALSE /\ pathBy = NoWindow
  /\ osLight \in BOOLEAN /\ installed = 1
  /\ told = 0 /\ owed = IF file = Whole(Default) THEN 1 ELSE 0
  /\ saver = NoWindow /\ overlapped = FALSE /\ crossed = FALSE
  /\ budget = [event |-> MaxEvent, launch |-> MaxLaunch]

-----------------------------------------------------------------------------
(* The process.  PerfApp::new loads the file, and record_run, its last      *)
(* step, shows the notes of an upgrade and stamps the version it then saves. *)
\* The notes a window shows or is about to show, its stamp not in the file yet.
Telling(w) ==
  \/ win[w].notes
  \/ win[w].save = "loaded" /\ win[w].existed /\ UpgradedFrom(win[w].cfg.version)

Starts(w, c) ==
  /\ ~win[w].open
  /\ win' = [win EXCEPT ![w] = [Closed EXCEPT
       !.open = TRUE, !.cfg = c, !.light = osLight, !.shown = Effective(c, osLight),
       !.existed = file.is # "missing", !.save = "loaded"]]
  /\ crossed' = (crossed \/ \E v \in Others(w) : Telling(v))
  /\ UNCHANGED <<file, tmp, paths, osLight, installed, told, saver, overlapped>>

Launch(w) == Spend("launch") /\ Starts(w, Load(file)) /\ UNCHANGED owed

\* A file that is there and cannot be read: the defaults, without its version.
LaunchUnread(w) ==
  Spend("event") /\ file.is = "whole" /\ Starts(w, Default) /\ owed' = owed + 1

RecordRun(w) ==
  /\ win[w].save = "loaded"
  /\ win' = [win EXCEPT ![w] = [@ EXCEPT
       !.cfg.version = installed, !.save = "begun", !.existed = FALSE, !.notes = Telling(w)]]
  /\ UNCHANGED <<file, tmp, paths, osLight, installed, history, saver, budget>>

\* A close or a kill, in the middle of a save or of a PATH change alike.
Exit(w) ==
  /\ win[w].open
  /\ win' = [win EXCEPT ![w] = Closed]
  /\ pathBy' = IF pathBy = w THEN NoWindow ELSE pathBy
  /\ UNCHANGED <<file, tmp, path, osLight, installed, history, saver, budget>>

(* Config::save_to, one synchronous call: create and truncate the temporary *)
(* file, write, rename.                                                     *)
SaveOpens(w) ==
  /\ win[w].save = "begun"
  /\ win' = [win EXCEPT ![w].save = "opened", ![w].to = "tmp"]
  /\ tmp' = Torn
  /\ overlapped' = (overlapped \/ \E v \in Others(w) : Saving(v))
  /\ UNCHANGED <<file, paths, osLight, installed, told, owed, crossed, saver, budget>>

\* What a write through w's handle may leave in the file it points at.
ThroughHandle(w, inTmp, inFile) ==
  CASE win[w].to = "tmp"  -> tmp' \in inTmp /\ UNCHANGED file
    [] win[w].to = "path" -> file' \in inFile /\ UNCHANGED tmp
    [] OTHER -> UNCHANGED <<file, tmp>>

\* Another handle on the same file may have written a longer text first.
SaveWrites(w) ==
  LET written(f) == {Whole(win[w].cfg)} \cup {g \in {Torn} : f.is = "whole"} IN
  /\ win[w].save = "opened"
  /\ win' = [win EXCEPT ![w].save = "written", ![w].to = "gone"]
  /\ ThroughHandle(w, written(tmp), written(file))
  /\ UNCHANGED <<paths, osLight, installed, history, saver, budget>>

\* The save returns, and the first frame paints the notes of a launch.
Returns(w) == told' = IF win[w].notes THEN told + 1 ELSE told

\* The rename takes whatever the temporary name holds, and open handles with it.
SaveRenames(w) ==
  LET moved(v) == CASE win[v].to = "tmp" -> "path"
                    [] win[v].to = "path" -> "gone"
                    [] OTHER -> win[v].to IN
  /\ win[w].save = "written" /\ tmp # Missing
  /\ file' = tmp /\ tmp' = Missing /\ saver' = w
  /\ win' = [v \in Windows |->
       IF v = w THEN [win[v] EXCEPT !.save = "idle", !.to = moved(v), !.notes = FALSE,
                                    !.unsaved = FALSE]
                ELSE [win[v] EXCEPT !.to = moved(v)]]
  /\ Returns(w)
  /\ UNCHANGED <<paths, osLight, installed, owed, overlapped, crossed, budget>>

\* A step that fails ends the save, which is only logged; a write may have left
\* part of the text, and a rename with nothing at the temporary name must fail.
SaveFails(w) ==
  /\ win[w].save \in {"begun", "opened", "written"}
  /\ IF win[w].save = "written" /\ tmp = Missing THEN UNCHANGED budget ELSE Spend("event")
  /\ win' = [win EXCEPT ![w] = [@ EXCEPT
       !.save = "idle", !.to = "gone", !.notes = FALSE, !.unsaved = TRUE]]
  /\ IF win[w].save = "opened" THEN ThroughHandle(w, {tmp, Torn}, {file, Torn})
                               ELSE UNCHANGED <<file, tmp>>
  /\ Returns(w) /\ owed' = IF win[w].notes THEN owed + 1 ELSE owed
  /\ UNCHANGED <<paths, osLight, installed, overlapped, crossed, saver>>

-----------------------------------------------------------------------------
(* The controls.  A change is made in memory, applied, and the save begins. *)
Changed(w, c) ==
  [win[w] EXCEPT !.cfg = c, !.shown = Effective(c, win[w].light), !.save = "begun"]

Control(w, after) ==
  /\ Idle(w) /\ Spend("event")
  /\ win' = [win EXCEPT ![w] = after]
  /\ UNCHANGED <<file, tmp, paths, osLight, installed, history, saver>>

ThemeCard(w) ==
  \E t \in PickThemes \ {win[w].cfg.theme} :
    Control(w, Changed(w, [win[w].cfg EXCEPT !.theme = t]))

\* Mutant: the chip changes the theme and forgets to save it.
ThemeChipUnsaved(w) ==
  /\ Idle(w) /\ Spend("event")
  /\ win' = [win EXCEPT ![w].cfg.theme = NextTheme(@),
               ![w].shown = Effective([win[w].cfg EXCEPT !.theme = NextTheme(@)], win[w].light)]
  /\ UNCHANGED <<file, tmp, paths, osLight, installed, history, saver>>

ThemeChip(w) ==
  Control(w, Changed(w, [win[w].cfg EXCEPT !.theme = NextTheme(@)]))

FollowToggle(w) ==
  Control(w, Changed(w, [win[w].cfg EXCEPT !.follow = ~@]))

\* The unit, heat-map and update-check switches and the strip's readings.
PlainSwitch(w) ==
  \E s \in Plain :
    Control(w, Changed(w, [win[w].cfg EXCEPT !.moved = SymDiff(@, {s})]))

RefreshSection(w) ==
  \E r \in PickRates \ {win[w].cfg.refresh} :
    Control(w, [Changed(w, [win[w].cfg EXCEPT !.refresh = r]) EXCEPT
                  !.feed = IF @ = NoFeed THEN NoFeed ELSE r])

\* Both sliders click or drag to a stop; the strip's also takes the wheel.
OpacitySlider(w) ==
  \E v \in {OpacityAt(x) : x \in TrackClicks}
             \cup {Stepped(win[w].cfg.opacity, n) : n \in {-1, 1}} :
    /\ v # win[w].cfg.opacity
    /\ Control(w, Changed(w, [win[w].cfg EXCEPT !.opacity = v]))

\* update_command_line_path stores the wanted state and spawns a worker.
CommandLine(w) ==
  LET on == ~win[w].cfg.cli IN
  Control(w, [Changed(w, [win[w].cfg EXCEPT !.cli = on]) EXCEPT
                !.wanted = on, !.workers = Append(@, on)])

(* A worker takes the lock, in any order, and applies what is wanted now.   *)
\* Mutant: a worker applies the value of the click that spawned it.
AppliesOwn(w, i) == win[w].workers[i]

Applies(w, i) == win[w].wanted

PathWorker(w) ==
  \E i \in DOMAIN win[w].workers, done \in BOOLEAN :
    /\ path' = IF done THEN Applies(w, i) ELSE path     \* a registry error is logged
    /\ pathBy' = IF done THEN w ELSE NoWindow
    /\ win' = [win EXCEPT ![w].workers = RemoveAt(@, i)]
    /\ UNCHANGED <<file, tmp, osLight, installed, history, saver, budget>>

(* The feed: adopted on Ready (or a respawn), which sends the interval.     *)
\* Mutant: an adopted feed is left at the interval it starts with.
FeedReadyUntold(w) ==
  /\ Idle(w) /\ Spend("event")
  /\ \A v \in Windows : win[v].feed = NoFeed
  /\ win' = [win EXCEPT ![w].feed = Default.refresh]
  /\ UNCHANGED <<file, tmp, paths, osLight, installed, history, saver>>

FeedReady(w) ==
  /\ Idle(w) /\ Spend("event")
  /\ \A v \in Windows : win[v].feed = NoFeed      \* one client at a time
  /\ win' = [win EXCEPT ![w].feed = win[w].cfg.refresh]
  /\ UNCHANGED <<file, tmp, paths, osLight, installed, history, saver>>

FeedLost(w) ==
  /\ Idle(w) /\ win[w].feed # NoFeed
  /\ win' = [win EXCEPT ![w].feed = NoFeed]
  /\ UNCHANGED <<file, tmp, paths, osLight, installed, history, saver, budget>>

\* Mutant: the flip is remembered and the theme not applied again.
PollThemeSilent(w) ==
  /\ Idle(w) /\ win[w].light # osLight
  /\ win' = [win EXCEPT ![w].light = osLight]
  /\ UNCHANGED <<file, tmp, paths, osLight, installed, history, saver, budget>>

(* os_light_flipped, once a pass; the registry is read at most every 2 s,   *)
(* and a read that finds no change does nothing.                            *)
PollTheme(w) ==
  /\ Idle(w) /\ win[w].light # osLight
  /\ win' = [win EXCEPT ![w].light = osLight, ![w].shown = Effective(win[w].cfg, osLight)]
  /\ UNCHANGED <<file, tmp, paths, osLight, installed, history, saver, budget>>

(* The world: the Windows theme, an editor on the file, the installer.      *)
WindowsThemeFlips ==
  /\ Spend("event") /\ osLight' = ~osLight
  /\ UNCHANGED <<win, file, tmp, paths, installed, history, saver>>

HandEdit ==
  /\ file.is = "whole" /\ Spend("event")
  /\ \/ \E v \in HandOpacities : file' = Whole([file.cfg EXCEPT !.opacity = v]) /\ UNCHANGED owed
     \/ file' = Torn /\ owed' = owed + 1
  /\ saver' = NoWindow
  /\ UNCHANGED <<win, tmp, paths, osLight, installed, told, overlapped, crossed>>

Upgrade ==
  /\ \A w \in Windows : ~win[w].open
  /\ Spend("event")
  /\ installed' = installed + 1 /\ owed' = owed + 1
  /\ UNCHANGED <<win, file, tmp, paths, osLight, told, saver, overlapped, crossed>>

Next ==
  \/ \E w \in Windows :
       \/ Launch(w) \/ LaunchUnread(w) \/ RecordRun(w) \/ Exit(w)
       \/ SaveOpens(w) \/ SaveWrites(w) \/ SaveRenames(w) \/ SaveFails(w)
       \/ ThemeCard(w) \/ ThemeChip(w) \/ FollowToggle(w) \/ PlainSwitch(w)
       \/ RefreshSection(w) \/ OpacitySlider(w) \/ CommandLine(w) \/ PathWorker(w)
       \/ FeedReady(w) \/ FeedLost(w) \/ PollTheme(w)
  \/ WindowsThemeFlips \/ HandEdit \/ Upgrade

Spec == Init /\ [][Next]_vars

\* The launch and a save are one call each, and frames keep coming while the
\* window is not minimised (logic asks for one a little past the interval).
CallGoesOn(w) ==
  RecordRun(w) \/ SaveOpens(w) \/ SaveWrites(w) \/ SaveRenames(w) \/ SaveFails(w)
Fairness == \A w \in Windows : WF_vars(CallGoesOn(w)) /\ WF_vars(PollTheme(w))
FairSpec == Spec /\ Fairness

-----------------------------------------------------------------------------
(* Types; every opacity a window paints with is legible, whatever the file  *)
(* said when it was loaded and however the sliders moved it since.          *)
FileStates == [is: {"missing", "torn", "whole"},
               cfg: [theme: Themes, follow: BOOLEAN, refresh: Rates, opacity: 0..255,
                     cli: BOOLEAN, moved: SUBSET Plain, version: 0..MaxEvent + 1]]
TypeOK ==
  /\ win \in [Windows -> [open: BOOLEAN, cfg: Configs, shown: Themes, light: BOOLEAN,
                          feed: Rates \cup {NoFeed}, wanted: BOOLEAN,
                          workers: Seq(BOOLEAN), existed: BOOLEAN, notes: BOOLEAN,
                          save: {"idle", "loaded", "begun", "opened", "written"},
                          to: {"tmp", "path", "gone"}, unsaved: BOOLEAN]]
  /\ file \in FileStates /\ tmp \in FileStates
  /\ {path, osLight, overlapped, crossed} \subseteq BOOLEAN
  /\ {pathBy, saver} \subseteq Windows \cup {NoWindow}
  /\ installed \in 1..MaxEvent + 1 /\ told \in Nat /\ owed \in Nat

(* A crash or an error at any step of a save leaves a whole file, and what  *)
(* the last saver shows is what the next launch will read, as long as two   *)
(* windows never save at once (save_to's temporary file and rename).  Only  *)
(* a save that failed leaves changes that are in the window alone.          *)
SettingsSurvive ==
  ~overlapped =>
    /\ file.is = "torn" => saver = NoWindow
    /\ \A w \in Windows :
         saver = w /\ Idle(w) /\ ~win[w].unsaved => file = Whole(win[w].cfg)

(* When a window's PATH workers are done, the PATH is what its switch last  *)
(* asked for, in whatever order the workers ran (PATH_WANTED, PATH_LOCK).   *)
PathFollowsSwitch ==
  \A w \in Windows :
    win[w].open /\ pathBy = w /\ win[w].workers = <<>> => path = win[w].wanted

(* The sensor service polls at the interval the settings show, also when    *)
(* it was changed while no feed was attached (apply_refresh_change, Ready). *)
IntervalFollows ==
  \A w \in Windows : win[w].feed \in {NoFeed, win[w].cfg.refresh}

(* Each upgrade's notes open once more only for a stamp that was lost: the  *)
(* launch that shows them stamps the version it saves (record_run).  Two    *)
(* windows that load before either has saved both show them, and so may     *)
(* windows whose saves overlapped.                                          *)
NotesOncePerUpgrade == ~overlapped /\ ~crossed => told <= owed

(* A window that follows Windows ends up in the theme the desktop has.      *)
ThemeFollowsWindows ==
  \A w \in Windows, l \in BOOLEAN :
    <>[](win[w].open /\ osLight = l) => <>[](win[w].shown = Effective(win[w].cfg, l))
=============================================================================
