-------------------------- MODULE Settings_proofs --------------------------
(***************************************************************************)
(* Proofs about Settings for every set of windows, every file a hand or a  *)
(* crash leaves, and every order of clicks, workers, saves and launches.   *)
(***************************************************************************)
EXTENDS Settings, SequenceTheorems, TLAPS

WinStates ==
  [open: BOOLEAN, cfg: Configs, shown: Themes, light: BOOLEAN,
   feed: Rates \cup {NoFeed}, wanted: BOOLEAN,
   workers: Seq(BOOLEAN), existed: BOOLEAN, notes: BOOLEAN,
   save: {"idle", "loaded", "begun", "opened", "written"},
   to: {"tmp", "path", "gone"}, unsaved: BOOLEAN]

-----------------------------------------------------------------------------
(* The pure parts.                                                         *)

LEMMA ThemeNames ==
  Themes = {"Amber", "Slate", "Phosphor", "Light", "Synthwave", "Crimson"}
PROOF
<1>1. Len(THEME_CYCLE) = 6 /\ DOMAIN THEME_CYCLE = 1..6
  BY DEF THEME_CYCLE
<1>2. \A i \in 1..6 : THEME_CYCLE[i] \in
        {"Amber", "Slate", "Phosphor", "Light", "Synthwave", "Crimson"}
  BY DEF THEME_CYCLE
<1>3. /\ THEME_CYCLE[1] = "Amber" /\ THEME_CYCLE[2] = "Slate"
      /\ THEME_CYCLE[3] = "Phosphor" /\ THEME_CYCLE[4] = "Light"
      /\ THEME_CYCLE[5] = "Synthwave" /\ THEME_CYCLE[6] = "Crimson"
  BY DEF THEME_CYCLE
<1> QED
  BY <1>1, <1>2, <1>3 DEF Themes, ToSet

\* The chip steps from any theme to a theme.
LEMMA NextThemeType == ASSUME NEW t \in Themes PROVE NextTheme(t) \in Themes
PROOF
<1>1. Len(THEME_CYCLE) = 6 /\ DOMAIN THEME_CYCLE = 1..6
  BY DEF THEME_CYCLE
<1>2. \E k \in DOMAIN THEME_CYCLE : THEME_CYCLE[k] = t
  BY DEF Themes, ToSet
<1> DEFINE i == CHOOSE k \in DOMAIN THEME_CYCLE : THEME_CYCLE[k] = t
<1>3. i \in 1..6
  BY <1>1, <1>2
<1>4. (i % 6) + 1 \in 1..6
  <2> HIDE DEF i
  <2> QED
    BY <1>3
<1>5. NextTheme(t) = THEME_CYCLE[(i % 6) + 1]
  BY <1>1 DEF NextTheme
<1> QED
  BY <1>1, <1>4, <1>5 DEF Themes, ToSet

LEMMA EffectiveType ==
  ASSUME NEW c, c.theme \in Themes, NEW light \in BOOLEAN
  PROVE  Effective(c, light) \in Themes
  BY ThemeNames DEF Effective

\* Whatever the file says, the opacity a window paints with is legible.
LEMMA ClampType ==
  ASSUME NEW n \in Int PROVE Clamp(n, MIN_OPACITY, MAX_OPACITY) \in MIN_OPACITY..MAX_OPACITY
  BY DEF Clamp, MIN_OPACITY, MAX_OPACITY

LEMMA SteppedType ==
  ASSUME NEW v \in Int, NEW n \in Int
  PROVE  Stepped(v, n) \in MIN_OPACITY..MAX_OPACITY
PROOF
<1>1. Clamp(v, MIN_OPACITY, MAX_OPACITY) + n * STEP \in Int
  BY DEF Clamp, MIN_OPACITY, MAX_OPACITY, STEP
<1> QED
  BY <1>1, ClampType DEF Stepped

LEMMA OpacityAtType ==
  ASSUME NEW x \in 0..100 PROVE OpacityAt(x) \in MIN_OPACITY..MAX_OPACITY
PROOF
<1>1. (MAX_OPACITY - MIN_OPACITY) \div STEP = 14
  BY DEF MAX_OPACITY, MIN_OPACITY, STEP
<1> DEFINE stops == (x * 14 + 50) \div 100
<1>2. stops \in 0..14
  OBVIOUS
<1>3. OpacityAt(x) = 30 + stops * 5
  BY <1>1 DEF OpacityAt, MIN_OPACITY, STEP
<1> QED
  BY <1>2, <1>3 DEF MIN_OPACITY, MAX_OPACITY

LEMMA RemoveAtType ==
  ASSUME NEW S, NEW s \in Seq(S), NEW i \in DOMAIN s
  PROVE  RemoveAt(s, i) \in Seq(S)
PROOF
<1>1. i \in 1..Len(s) /\ Len(s) \in Nat
  BY LenProperties
<1>2. SubSeq(s, 1, i - 1) \in Seq(S)
  <2>1. \A j \in 1..(i - 1) : s[j] \in S
    BY <1>1, ElementOfSeq
  <2> QED
    BY <1>1, <2>1, SubSeqProperties
<1>3. SubSeq(s, i + 1, Len(s)) \in Seq(S)
  <2>1. \A j \in (i + 1)..Len(s) : s[j] \in S
    BY <1>1, ElementOfSeq
  <2> QED
    BY <1>1, <2>1, SubSeqProperties
<1> QED
  BY <1>2, <1>3, ConcatProperties DEF RemoveAt

-----------------------------------------------------------------------------
(* Types.                                                                  *)

\* Every change or world event is paid for, an upgrade included.
BudgetInv ==
  /\ budget \in [{"event", "launch"} -> Nat]
  /\ installed \in Nat /\ installed + budget["event"] <= MaxEvent + 1

\* A window that is not open keeps nothing.
ClosedInv == \A w \in Windows : ~win[w].open => win[w] = Closed

TypeInv == TypeOK /\ BudgetInv /\ ClosedInv

LEMMA Parameters ==
  /\ TrackClicks \subseteq 0..100 /\ HandOpacities \subseteq 0..255
  /\ PickThemes \subseteq Themes /\ PickRates \subseteq Rates
  /\ NoWindow \notin Windows /\ MaxEvent \in Nat /\ MaxLaunch \in Nat
  BY SettingsAssumption

LEMMA DefaultType == Default \in Configs
  BY ThemeNames, Parameters DEF Default, Configs, Rates, MIN_OPACITY, MAX_OPACITY

LEMMA FileTypes ==
  /\ Missing \in FileStates /\ Torn \in FileStates
  /\ \A c \in Configs : Whole(c) \in FileStates
PROOF
<1> DEFINE Loose == [theme: Themes, follow: BOOLEAN, refresh: Rates, opacity: 0..255,
                     cli: BOOLEAN, moved: SUBSET Plain, version: 0..MaxEvent + 1]
<1>1. \A c \in Configs : c \in Loose
  BY DEF Configs, MIN_OPACITY, MAX_OPACITY
<1>2. Default \in Loose
  BY <1>1, DefaultType
<1> HIDE DEF Loose
<1>3. FileStates = [is: {"missing", "torn", "whole"}, cfg: Loose]
  BY DEF FileStates, Loose
<1> QED
  BY <1>1, <1>2, <1>3 DEF Missing, Torn, Whole

\* from_toml_str accepts any file state and yields a legible configuration.
LEMMA LoadType ==
  ASSUME NEW f \in FileStates
  PROVE  Load(f) \in Configs /\ Load(f).version = f.cfg.version
PROOF
<1>1. f.cfg \in [theme: Themes, follow: BOOLEAN, refresh: Rates, opacity: 0..255,
                 cli: BOOLEAN, moved: SUBSET Plain, version: 0..MaxEvent + 1]
  BY DEF FileStates
<1>2. Clamp(f.cfg.opacity, MIN_OPACITY, MAX_OPACITY) \in MIN_OPACITY..MAX_OPACITY
  BY <1>1, ClampType
<1> QED
  BY <1>1, <1>2 DEF Load, Configs

LEMMA ClosedType == Closed \in WinStates
PROOF
<1>1. "Slate" \in Themes /\ Default \in Configs /\ <<>> \in Seq(BOOLEAN)
  BY ThemeNames, DefaultType, EmptySeq
<1> QED
  BY <1>1 DEF Closed, WinStates, NoFeed

\* A window is what its fields are.
LEMMA SameWindow ==
  ASSUME NEW r \in WinStates, NEW s \in WinStates,
         r.open = s.open, r.cfg = s.cfg, r.shown = s.shown, r.light = s.light,
         r.feed = s.feed, r.wanted = s.wanted, r.workers = s.workers,
         r.existed = s.existed, r.notes = s.notes, r.save = s.save, r.to = s.to,
         r.unsaved = s.unsaved
  PROVE  r = s
  BY DEF WinStates

\* What every control does: the window it belongs to changes its configuration,
\* without its version, and begins to save it.
Controls(w) ==
  /\ win' \in [Windows -> WinStates]
  /\ \A v \in Windows : v # w => win'[v] = win[v]
  /\ Idle(w) /\ win'[w].open
  /\ win'[w].save = "begun"
  /\ win'[w].notes = win[w].notes
  /\ win'[w].cfg.version = win[w].cfg.version
  /\ \/ win'[w].feed = NoFeed \/ win'[w].feed = win'[w].cfg.refresh
     \/ win'[w].feed = win[w].feed /\ win'[w].cfg.refresh = win[w].cfg.refresh
  /\ \/ win'[w].workers # <<>>
     \/ win'[w].workers = win[w].workers /\ win'[w].wanted = win[w].wanted
  /\ Spend("event")
  /\ UNCHANGED <<file, tmp, paths, osLight, installed, history, saver>>

\* A change of the configuration that keeps feed and workers.
LEMMA ChangedControls ==
  ASSUME TypeOK, NEW w \in Windows, NEW c \in Configs,
         c.version = win[w].cfg.version, c.refresh = win[w].cfg.refresh,
         Control(w, Changed(w, c))
  PROVE  Controls(w)
PROOF
<1>1. win \in [Windows -> WinStates]
  BY DEF TypeOK, WinStates
<1>2. win[w] \in WinStates
  BY <1>1
<1>3. Effective(c, win[w].light) \in Themes
  BY <1>2, EffectiveType DEF WinStates, Configs
<1>4. Changed(w, c) \in WinStates
  BY <1>2, <1>3 DEF Changed, WinStates
<1>5. win' = [win EXCEPT ![w] = Changed(w, c)]
  BY DEF Control
<1>6. win' \in [Windows -> WinStates]
  BY <1>1, <1>4, <1>5
<1>7. win'[w] = Changed(w, c) /\ \A v \in Windows : v # w => win'[v] = win[v]
  BY <1>1, <1>5
<1>8. /\ win'[w].cfg = c /\ win'[w].save = "begun"
      /\ win'[w].open = win[w].open /\ win'[w].notes = win[w].notes
      /\ win'[w].feed = win[w].feed /\ win'[w].workers = win[w].workers
      /\ win'[w].wanted = win[w].wanted
  BY <1>2, <1>7 DEF Changed, WinStates
<1> QED
  BY <1>6, <1>7, <1>8 DEF Control, Controls, Idle

LEMMA ControlsMove ==
  ASSUME TypeOK, NEW w \in Windows,
         \/ ThemeCard(w) \/ ThemeChip(w) \/ FollowToggle(w) \/ PlainSwitch(w)
         \/ RefreshSection(w) \/ OpacitySlider(w) \/ CommandLine(w)
  PROVE  Controls(w)
PROOF
<1>0. win \in [Windows -> WinStates] /\ win[w] \in WinStates /\ win[w].cfg \in Configs
  BY DEF TypeOK, WinStates
<1>1. CASE ThemeCard(w)
  <2>1. PICK t \in PickThemes : Control(w, Changed(w, [win[w].cfg EXCEPT !.theme = t]))
    BY <1>1 DEF ThemeCard
  <2>2. t \in Themes
    BY Parameters
  <2>3. /\ [win[w].cfg EXCEPT !.theme = t] \in Configs
        /\ [win[w].cfg EXCEPT !.theme = t].version = win[w].cfg.version
        /\ [win[w].cfg EXCEPT !.theme = t].refresh = win[w].cfg.refresh
    BY <1>0, <2>2 DEF Configs
  <2> QED
    BY <2>1, <2>3, ChangedControls
<1>2. CASE ThemeChip(w)
  <2> DEFINE t == NextTheme(win[w].cfg.theme)
  <2>1. t \in Themes
    BY <1>0, NextThemeType DEF Configs
  <2>2. /\ [win[w].cfg EXCEPT !.theme = t] \in Configs
        /\ [win[w].cfg EXCEPT !.theme = t].version = win[w].cfg.version
        /\ [win[w].cfg EXCEPT !.theme = t].refresh = win[w].cfg.refresh
    BY <1>0, <2>1 DEF Configs
  <2>3. Control(w, Changed(w, [win[w].cfg EXCEPT !.theme = t]))
    BY <1>2 DEF ThemeChip
  <2> HIDE DEF t
  <2> QED
    BY <2>2, <2>3, ChangedControls
<1>3. CASE FollowToggle(w)
  <2> DEFINE f == ~win[w].cfg.follow
  <2>1. /\ [win[w].cfg EXCEPT !.follow = f] \in Configs
        /\ [win[w].cfg EXCEPT !.follow = f].version = win[w].cfg.version
        /\ [win[w].cfg EXCEPT !.follow = f].refresh = win[w].cfg.refresh
    BY <1>0 DEF Configs
  <2>2. Control(w, Changed(w, [win[w].cfg EXCEPT !.follow = f]))
    BY <1>3 DEF FollowToggle
  <2> HIDE DEF f
  <2> QED
    BY <2>1, <2>2, ChangedControls
<1>4. CASE PlainSwitch(w)
  <2>1. PICK s \in Plain :
          Control(w, Changed(w, [win[w].cfg EXCEPT !.moved = SymDiff(@, {s})]))
    BY <1>4 DEF PlainSwitch
  <2> DEFINE m == SymDiff(win[w].cfg.moved, {s})
  <2>2. m \in SUBSET Plain
    BY <1>0 DEF Configs, SymDiff
  <2>3. /\ [win[w].cfg EXCEPT !.moved = m] \in Configs
        /\ [win[w].cfg EXCEPT !.moved = m].version = win[w].cfg.version
        /\ [win[w].cfg EXCEPT !.moved = m].refresh = win[w].cfg.refresh
    BY <1>0, <2>2 DEF Configs
  <2>4. Control(w, Changed(w, [win[w].cfg EXCEPT !.moved = m]))
    BY <2>1
  <2> HIDE DEF m
  <2> QED
    BY <2>3, <2>4, ChangedControls
<1>5. CASE OpacitySlider(w)
  <2>1. PICK v \in {OpacityAt(x) : x \in TrackClicks}
                     \cup {Stepped(win[w].cfg.opacity, n) : n \in {-1, 1}} :
          Control(w, Changed(w, [win[w].cfg EXCEPT !.opacity = v]))
    BY <1>5 DEF OpacitySlider
  <2>2. win[w].cfg.opacity \in Int
    BY <1>0 DEF Configs, MIN_OPACITY, MAX_OPACITY
  <2>3. \A x \in TrackClicks : OpacityAt(x) \in MIN_OPACITY..MAX_OPACITY
    BY Parameters, OpacityAtType
  <2>4. \A n \in {-1, 1} : Stepped(win[w].cfg.opacity, n) \in MIN_OPACITY..MAX_OPACITY
    <3>1. \A n \in {-1, 1} : n \in Int
      OBVIOUS
    <3> QED
      BY <2>2, <3>1, SteppedType
  <2>5. v \in MIN_OPACITY..MAX_OPACITY
    BY <2>3, <2>4
  <2>6. /\ [win[w].cfg EXCEPT !.opacity = v] \in Configs
        /\ [win[w].cfg EXCEPT !.opacity = v].version = win[w].cfg.version
        /\ [win[w].cfg EXCEPT !.opacity = v].refresh = win[w].cfg.refresh
    BY <1>0, <2>5 DEF Configs
  <2> QED
    BY <2>1, <2>6, ChangedControls
<1>6. CASE RefreshSection(w)
  <2>1. PICK r \in PickRates :
          Control(w, [Changed(w, [win[w].cfg EXCEPT !.refresh = r]) EXCEPT
                        !.feed = IF @ = NoFeed THEN NoFeed ELSE r])
    BY <1>6 DEF RefreshSection
  <2> DEFINE c == [win[w].cfg EXCEPT !.refresh = r]
             to == [Changed(w, c) EXCEPT !.feed = IF @ = NoFeed THEN NoFeed ELSE r]
  <2>2. r \in Rates
    BY Parameters
  <2>3. c \in Configs /\ c.version = win[w].cfg.version /\ c.refresh = r
    BY <1>0, <2>2 DEF Configs
  <2>4. Control(w, to)
    BY <2>1
  <2> HIDE DEF c
  <2>5. Effective(c, win[w].light) \in Themes
    BY <1>0, <2>3, EffectiveType DEF WinStates, Configs
  <2>6. /\ to \in WinStates /\ to.cfg = c /\ to.save = "begun"
        /\ to.open = win[w].open /\ to.notes = win[w].notes
        /\ to.workers = win[w].workers /\ to.wanted = win[w].wanted
        /\ to.feed \in {NoFeed, r}
    BY <1>0, <2>2, <2>3, <2>5 DEF Changed, WinStates
  <2> HIDE DEF to
  <2>7. win' = [win EXCEPT ![w] = to]
    BY <2>4 DEF Control
  <2>8. /\ win' \in [Windows -> WinStates] /\ win'[w] = to
        /\ \A v \in Windows : v # w => win'[v] = win[v]
    BY <1>0, <2>6, <2>7
  <2> QED
    BY <2>3, <2>4, <2>6, <2>8 DEF Control, Controls, Idle
<1>7. CASE CommandLine(w)
  <2> DEFINE on == ~win[w].cfg.cli
             c  == [win[w].cfg EXCEPT !.cli = on]
             to == [Changed(w, c) EXCEPT !.wanted = on, !.workers = Append(@, on)]
  <2>1. Control(w, to)
    BY <1>7 DEF CommandLine
  <2>2. on \in BOOLEAN
    OBVIOUS
  <2> HIDE DEF on
  <2>3. c \in Configs /\ c.version = win[w].cfg.version /\ c.refresh = win[w].cfg.refresh
    BY <1>0, <2>2 DEF Configs
  <2> HIDE DEF c
  <2>4. Effective(c, win[w].light) \in Themes
    BY <1>0, <2>3, EffectiveType DEF WinStates, Configs
  <2>5. Append(win[w].workers, on) \in Seq(BOOLEAN) /\ Append(win[w].workers, on) # <<>>
    BY <1>0, <2>2, AppendProperties DEF WinStates
  <2>6. /\ to \in WinStates /\ to.cfg = c /\ to.save = "begun"
        /\ to.open = win[w].open /\ to.notes = win[w].notes
        /\ to.workers # <<>> /\ to.feed = win[w].feed
    BY <1>0, <2>2, <2>3, <2>4, <2>5 DEF Changed, WinStates
  <2> HIDE DEF to
  <2>7. win' = [win EXCEPT ![w] = to]
    BY <2>1 DEF Control
  <2>8. /\ win' \in [Windows -> WinStates] /\ win'[w] = to
        /\ \A v \in Windows : v # w => win'[v] = win[v]
    BY <1>0, <2>6, <2>7
  <2> QED
    BY <2>1, <2>3, <2>6, <2>8 DEF Control, Controls, Idle
<1> QED
  BY <1>1, <1>2, <1>3, <1>4, <1>5, <1>6, <1>7

\* The steps of one window, by what they leave of it.
Keeps(v) ==
  /\ win'[v].open = win[v].open /\ win'[v].cfg = win[v].cfg
  /\ win'[v].wanted = win[v].wanted

KeepsOthers(w) == \A v \in Windows : v # w => win'[v] = win[v]

LEMMA StartsMoves ==
  ASSUME TypeInv, NEW w \in Windows, Launch(w) \/ LaunchUnread(w)
  PROVE  /\ win' \in [Windows -> WinStates] /\ KeepsOthers(w)
         /\ ~win[w].open /\ win'[w].open /\ win'[w].save = "loaded"
         /\ win'[w].feed = NoFeed /\ win'[w].workers = <<>> /\ win'[w].wanted = FALSE
         /\ win'[w].existed = (file.is # "missing") /\ win'[w].notes = FALSE
         /\ Launch(w) => win'[w].cfg.version = file.cfg.version /\ owed' = owed
         /\ LaunchUnread(w) => owed' = owed + 1
         /\ crossed' = (crossed \/ \E v \in Others(w) : Telling(v))
         /\ Spend("launch") \/ Spend("event")
         /\ UNCHANGED <<file, tmp, paths, osLight, installed, told, saver, overlapped>>
PROOF
<1>0. /\ win \in [Windows -> WinStates] /\ file \in FileStates /\ osLight \in BOOLEAN
  BY DEF TypeInv, TypeOK, WinStates
<1>1. ASSUME NEW c \in Configs, Starts(w, c)
      PROVE  /\ win' \in [Windows -> WinStates] /\ KeepsOthers(w)
             /\ ~win[w].open /\ win'[w].open /\ win'[w].save = "loaded"
             /\ win'[w].feed = NoFeed /\ win'[w].workers = <<>> /\ win'[w].wanted = FALSE
             /\ win'[w].existed = (file.is # "missing") /\ win'[w].notes = FALSE
             /\ win'[w].cfg = c
             /\ crossed' = (crossed \/ \E v \in Others(w) : Telling(v))
             /\ UNCHANGED <<file, tmp, paths, osLight, installed, told, saver, overlapped>>
  <2> DEFINE there == file.is # "missing"
             to == [Closed EXCEPT !.open = TRUE, !.cfg = c, !.light = osLight,
                      !.shown = Effective(c, osLight), !.existed = there, !.save = "loaded"]
  <2>1. win' = [win EXCEPT ![w] = to]
    BY <1>1 DEF Starts
  <2>2. Effective(c, osLight) \in Themes /\ there \in BOOLEAN
    BY <1>0, EffectiveType DEF Configs
  <2> HIDE DEF there
  <2>3. /\ to \in WinStates /\ to.open = TRUE /\ to.cfg = c /\ to.save = "loaded"
        /\ to.feed = NoFeed /\ to.workers = <<>> /\ to.wanted = FALSE
        /\ to.existed = there /\ to.notes = FALSE
    BY <1>0, <2>2, ClosedType DEF Closed, WinStates
  <2> HIDE DEF to
  <2>4. /\ win' \in [Windows -> WinStates] /\ win'[w] = to
        /\ \A v \in Windows : v # w => win'[v] = win[v]
    BY <1>0, <2>1, <2>3
  <2>5. /\ ~win[w].open
        /\ crossed' = (crossed \/ \E v \in Others(w) : Telling(v))
        /\ UNCHANGED <<file, tmp, paths, osLight, installed, told, saver, overlapped>>
    BY <1>1 DEF Starts
  <2> QED
    BY <2>3, <2>4, <2>5 DEF KeepsOthers, there
<1>2. CASE Launch(w) /\ ~LaunchUnread(w)
  <2>1. Load(file) \in Configs /\ Load(file).version = file.cfg.version
    BY <1>0, LoadType
  <2>2. Starts(w, Load(file)) /\ Spend("launch") /\ owed' = owed
    BY <1>2 DEF Launch
  <2> QED
    BY <1>1, <1>2, <2>1, <2>2
<1>3. CASE LaunchUnread(w)
  <2>1. Starts(w, Default) /\ Spend("event") /\ owed' = owed + 1
    BY <1>3 DEF LaunchUnread
  <2>2. ~Launch(w)
    <3>1. owed \in Nat
      BY DEF TypeInv, TypeOK
    <3> QED
      BY <2>1, <3>1 DEF Launch
  <2> QED
    BY <1>1, <1>3, <2>1, <2>2, DefaultType
<1> QED
  BY <1>2, <1>3

LEMMA RecordMoves ==
  ASSUME TypeInv, NEW w \in Windows, RecordRun(w)
  PROVE  /\ win' \in [Windows -> WinStates] /\ KeepsOthers(w)
         /\ win[w].open /\ win'[w].open /\ win[w].save = "loaded" /\ win'[w].save = "begun"
         /\ win'[w].feed = win[w].feed /\ win'[w].workers = win[w].workers
         /\ win'[w].wanted = win[w].wanted /\ win'[w].cfg.refresh = win[w].cfg.refresh
         /\ win'[w].cfg.version = installed /\ win'[w].notes = Telling(w)
         /\ UNCHANGED <<file, tmp, paths, osLight, installed, history, saver, budget>>
PROOF
<1>0. /\ win \in [Windows -> WinStates] /\ win[w] \in WinStates /\ win[w].cfg \in Configs
      /\ installed \in 0..MaxEvent + 1 /\ ClosedInv
  BY Parameters DEF TypeInv, TypeOK, WinStates
<1> DEFINE tells == Telling(w)
           d == [win[w].cfg EXCEPT !.version = installed]
           to == [win[w] EXCEPT !.cfg = d, !.save = "begun", !.existed = FALSE,
                                !.notes = tells]
<1>1. win' = [win EXCEPT ![w] = [win[w] EXCEPT
        !.cfg.version = installed, !.save = "begun", !.existed = FALSE, !.notes = tells]]
  BY DEF RecordRun
<1>2. tells \in BOOLEAN
  BY <1>0 DEF Telling, WinStates
<1> HIDE DEF tells
<1>3. [win[w] EXCEPT !.cfg.version = installed, !.save = "begun", !.existed = FALSE,
                     !.notes = tells] = to
  BY <1>0 DEF WinStates
<1>4. win' = [win EXCEPT ![w] = to]
  BY <1>1, <1>3
<1>5. d \in Configs /\ d.version = installed /\ d.refresh = win[w].cfg.refresh
  BY <1>0 DEF Configs
<1> HIDE DEF d
<1>6. /\ to \in WinStates /\ to.open = win[w].open /\ to.cfg = d /\ to.save = "begun"
      /\ to.feed = win[w].feed /\ to.workers = win[w].workers
      /\ to.wanted = win[w].wanted /\ to.notes = tells
  BY <1>0, <1>2, <1>5 DEF WinStates
<1> HIDE DEF to
<1>7. /\ win' \in [Windows -> WinStates] /\ win'[w] = to
      /\ \A v \in Windows : v # w => win'[v] = win[v]
  BY <1>0, <1>4, <1>6
<1>8. /\ win[w].save = "loaded"
      /\ UNCHANGED <<file, tmp, paths, osLight, installed, history, saver, budget>>
  BY DEF RecordRun
<1>9. win[w].open
  BY <1>0, <1>8 DEF ClosedInv, Closed
<1> QED
  BY <1>5, <1>6, <1>7, <1>8, <1>9 DEF KeepsOthers, tells

LEMMA ExitMoves ==
  ASSUME TypeInv, NEW w \in Windows, Exit(w)
  PROVE  win' \in [Windows -> WinStates] /\ KeepsOthers(w) /\ win'[w] = Closed
PROOF
<1>0. win \in [Windows -> WinStates]
  BY DEF TypeInv, TypeOK, WinStates
<1> QED
  BY <1>0, ClosedType DEF Exit, KeepsOthers

\* The steps of a save that is not done: it goes on, or it fails and is logged.
SaveCall(w) == SaveOpens(w) \/ SaveWrites(w) \/ SaveFails(w)

LEMMA CallMoves ==
  ASSUME TypeInv, NEW w \in Windows, SaveCall(w)
  PROVE  /\ win' \in [Windows -> WinStates] /\ KeepsOthers(w) /\ Keeps(w) /\ win[w].open
         /\ win'[w].feed = win[w].feed /\ win'[w].workers = win[w].workers
         /\ win[w].save \in {"begun", "opened", "written"}
         /\ file' \in FileStates /\ tmp' \in FileStates
         /\ UNCHANGED <<paths, osLight, installed, crossed, saver>>
         /\ SaveOpens(w) =>
              /\ win[w].save = "begun" /\ win'[w].save = "opened" /\ win'[w].to = "tmp"
              /\ win'[w].notes = win[w].notes /\ tmp' = Torn
              /\ overlapped' = (overlapped \/ \E v \in Others(w) : Saving(v))
              /\ UNCHANGED <<file, told, owed, budget>>
         /\ SaveWrites(w) =>
              /\ win[w].save = "opened" /\ win'[w].save = "written"
              /\ win'[w].notes = win[w].notes
              /\ win[w].to = "tmp" /\ tmp.is # "whole" =>
                   tmp' = Whole(win[w].cfg) /\ file' = file
              /\ UNCHANGED <<told, owed, overlapped, budget>>
         /\ SaveFails(w) =>
              /\ win'[w].save = "idle" /\ win'[w].notes = FALSE /\ win'[w].unsaved = TRUE
              /\ win[w].save # "opened" => UNCHANGED <<file, tmp>>
              /\ win[w].to = "tmp" => UNCHANGED file
              /\ told' = IF win[w].notes THEN told + 1 ELSE told
              /\ owed' = IF win[w].notes THEN owed + 1 ELSE owed
              /\ UNCHANGED overlapped
              /\ budget' = budget \/ Spend("event")
PROOF
<1>0. /\ win \in [Windows -> WinStates] /\ win[w] \in WinStates /\ win[w].cfg \in Configs
      /\ file \in FileStates /\ tmp \in FileStates /\ ClosedInv
  BY DEF TypeInv, TypeOK, WinStates
<1>1. Whole(win[w].cfg) \in FileStates /\ Torn \in FileStates
  BY <1>0, FileTypes
<1>2. win[w].save # "idle" => win[w].open
  BY <1>0 DEF ClosedInv, Closed
<1>3. CASE SaveOpens(w)
  <2>1. win' = [win EXCEPT ![w].save = "opened", ![w].to = "tmp"] /\ win[w].save = "begun"
    BY <1>3 DEF SaveOpens
  <2>2. win' \in [Windows -> WinStates]
    BY <1>0, <2>1 DEF WinStates
  <2>3. /\ KeepsOthers(w) /\ Keeps(w) /\ win'[w].feed = win[w].feed
        /\ win'[w].workers = win[w].workers /\ win'[w].save = "opened"
        /\ win'[w].to = "tmp" /\ win'[w].notes = win[w].notes
    BY <1>0, <2>1 DEF WinStates, KeepsOthers, Keeps
  <2>4. ~SaveWrites(w)
    BY <2>1 DEF SaveWrites
  <2>5. ~SaveFails(w)
    <3>1. SaveFails(w) => win'[w].save = "idle"
      BY <1>0 DEF SaveFails
    <3> QED
      BY <2>3, <3>1
  <2> QED
    BY <1>0, <1>1, <1>2, <1>3, <2>1, <2>2, <2>3, <2>4, <2>5 DEF SaveOpens
<1>4. CASE SaveWrites(w)
  <2>1. win' = [win EXCEPT ![w].save = "written", ![w].to = "gone"] /\ win[w].save = "opened"
    BY <1>4 DEF SaveWrites
  <2>2. win' \in [Windows -> WinStates]
    BY <1>0, <2>1 DEF WinStates
  <2>3. /\ KeepsOthers(w) /\ Keeps(w) /\ win'[w].feed = win[w].feed
        /\ win'[w].workers = win[w].workers /\ win'[w].save = "written"
        /\ win'[w].notes = win[w].notes
    BY <1>0, <2>1 DEF WinStates, KeepsOthers, Keeps
  <2>4. file' \in FileStates /\ tmp' \in FileStates
    BY <1>0, <1>1, <1>4 DEF SaveWrites, ThroughHandle
  <2>5. win[w].to = "tmp" /\ tmp.is # "whole" => tmp' = Whole(win[w].cfg) /\ file' = file
    BY <1>4 DEF SaveWrites, ThroughHandle
  <2>6. ~SaveOpens(w)
    BY <2>1 DEF SaveOpens
  <2>7. ~SaveFails(w)
    <3>1. SaveFails(w) => win'[w].save = "idle"
      BY <1>0 DEF SaveFails
    <3> QED
      BY <2>3, <3>1
  <2>8. UNCHANGED <<paths, osLight, installed, crossed, saver, told, owed, overlapped, budget>>
    BY <1>4 DEF SaveWrites, history
  <2> QED
    BY <1>2, <2>1, <2>2, <2>3, <2>4, <2>5, <2>6, <2>7, <2>8
<1>5. CASE SaveFails(w)
  <2> DEFINE to == [win[w] EXCEPT !.save = "idle", !.to = "gone", !.notes = FALSE,
                                  !.unsaved = TRUE]
  <2>1. win' = [win EXCEPT ![w] = to] /\ win[w].save \in {"begun", "opened", "written"}
    BY <1>5 DEF SaveFails
  <2>2. /\ to \in WinStates /\ to.open = win[w].open /\ to.cfg = win[w].cfg
        /\ to.wanted = win[w].wanted /\ to.feed = win[w].feed
        /\ to.workers = win[w].workers /\ to.save = "idle" /\ to.notes = FALSE
        /\ to.unsaved = TRUE
    BY <1>0 DEF WinStates
  <2> HIDE DEF to
  <2>3. win' \in [Windows -> WinStates] /\ win'[w] = to /\ KeepsOthers(w)
    BY <1>0, <2>1, <2>2 DEF KeepsOthers
  <2>4. file' \in FileStates /\ tmp' \in FileStates
    BY <1>0, <1>1, <1>5 DEF SaveFails, ThroughHandle
  <2>5. /\ win[w].save # "opened" => UNCHANGED <<file, tmp>>
        /\ win[w].to = "tmp" => UNCHANGED file
    BY <1>5 DEF SaveFails, ThroughHandle
  <2>6. /\ told' = IF win[w].notes THEN told + 1 ELSE told
        /\ owed' = IF win[w].notes THEN owed + 1 ELSE owed
        /\ budget' = budget \/ Spend("event")
        /\ UNCHANGED <<paths, osLight, installed, overlapped, crossed, saver>>
    BY <1>5 DEF SaveFails, Returns
  <2>7. ~SaveOpens(w) /\ ~SaveWrites(w)
    <3>1. win'[w].save = "idle"
      BY <2>2, <2>3
    <3>2. SaveOpens(w) => win'[w].save = "opened"
      BY <1>0 DEF SaveOpens
    <3>3. SaveWrites(w) => win'[w].save = "written"
      BY <1>0 DEF SaveWrites
    <3> QED
      BY <3>1, <3>2, <3>3
  <2> QED
    BY <1>2, <2>1, <2>2, <2>3, <2>4, <2>5, <2>6, <2>7 DEF Keeps
<1> QED
  BY <1>3, <1>4, <1>5 DEF SaveCall

LEMMA SaveRenamesMoves ==
  ASSUME TypeInv, NEW w \in Windows, SaveRenames(w)
  PROVE  /\ win' \in [Windows -> WinStates]
         /\ \A v \in Windows : /\ Keeps(v) /\ win'[v].feed = win[v].feed
                               /\ win'[v].workers = win[v].workers
                               /\ v # w => /\ win'[v].save = win[v].save
                                           /\ win'[v].existed = win[v].existed
                                           /\ win'[v].notes = win[v].notes
                                           /\ win'[v].unsaved = win[v].unsaved
                                           /\ win[v].to = "gone" => win'[v].to = "gone"
         /\ win[w].save = "written" /\ win'[w].save = "idle" /\ win'[w].notes = FALSE
         /\ win[w].open
         /\ told' = IF win[w].notes THEN told + 1 ELSE told
         /\ file' = tmp /\ tmp' = Missing /\ saver' = w
         /\ UNCHANGED <<paths, osLight, installed, owed, overlapped, crossed, budget>>
PROOF
<1>0. win \in [Windows -> WinStates] /\ win[w] \in WinStates /\ ClosedInv
  BY DEF TypeInv, TypeOK, WinStates
<1> DEFINE moved(v) == CASE win[v].to = "tmp" -> "path"
                         [] win[v].to = "path" -> "gone"
                         [] OTHER -> win[v].to
           next(v) == IF v = w THEN [win[v] EXCEPT !.save = "idle", !.to = moved(v),
                                                   !.notes = FALSE, !.unsaved = FALSE]
                               ELSE [win[v] EXCEPT !.to = moved(v)]
<1>1. win' = [v \in Windows |-> next(v)]
  BY DEF SaveRenames
<1>2. ASSUME NEW v \in Windows
      PROVE  /\ next(v) \in WinStates
             /\ next(v).open = win[v].open /\ next(v).cfg = win[v].cfg
             /\ next(v).wanted = win[v].wanted /\ next(v).feed = win[v].feed
             /\ next(v).workers = win[v].workers
             /\ v # w => /\ next(v).save = win[v].save /\ next(v).existed = win[v].existed
                         /\ next(v).notes = win[v].notes /\ next(v).unsaved = win[v].unsaved
                         /\ win[v].to = "gone" => next(v).to = "gone"
             /\ v = w => next(v).save = "idle" /\ next(v).notes = FALSE
  <2>1. win[v] \in WinStates
    BY <1>0
  <2>2. moved(v) \in {"tmp", "path", "gone"} /\ (win[v].to = "gone" => moved(v) = "gone")
    BY <2>1 DEF WinStates
  <2> HIDE DEF moved
  <2>3. CASE v = w
    <3> DEFINE to == [win[v] EXCEPT !.save = "idle", !.to = moved(v), !.notes = FALSE,
                                    !.unsaved = FALSE]
    <3>1. next(v) = to
      BY <2>3
    <3>2. /\ to \in WinStates /\ to.open = win[v].open /\ to.cfg = win[v].cfg
          /\ to.wanted = win[v].wanted /\ to.feed = win[v].feed
          /\ to.workers = win[v].workers /\ to.save = "idle" /\ to.notes = FALSE
      BY <2>1, <2>2 DEF WinStates
    <3> QED
      BY <2>3, <3>1, <3>2
  <2>4. CASE v # w
    <3> DEFINE to == [win[v] EXCEPT !.to = moved(v)]
    <3>1. next(v) = to
      BY <2>4
    <3>2. /\ to \in WinStates /\ to.open = win[v].open /\ to.cfg = win[v].cfg
          /\ to.wanted = win[v].wanted /\ to.feed = win[v].feed
          /\ to.workers = win[v].workers /\ to.save = win[v].save
          /\ to.existed = win[v].existed /\ to.notes = win[v].notes
          /\ to.unsaved = win[v].unsaved /\ to.to = moved(v)
      BY <2>1, <2>2 DEF WinStates
    <3> QED
      BY <2>2, <2>4, <3>1, <3>2
  <2> QED
    BY <2>3, <2>4
<1> HIDE DEF next
<1>3. win' \in [Windows -> WinStates] /\ \A v \in Windows : win'[v] = next(v)
  BY <1>1, <1>2
<1>4. /\ win[w].save = "written"
      /\ told' = IF win[w].notes THEN told + 1 ELSE told
      /\ file' = tmp /\ tmp' = Missing /\ saver' = w
      /\ UNCHANGED <<paths, osLight, installed, owed, overlapped, crossed, budget>>
  BY DEF SaveRenames, Returns
<1>5. win[w].open
  BY <1>0, <1>4 DEF ClosedInv, Closed
<1>6. ASSUME NEW v \in Windows
      PROVE  /\ Keeps(v) /\ win'[v].feed = win[v].feed /\ win'[v].workers = win[v].workers
             /\ v # w => /\ win'[v].save = win[v].save
                         /\ win'[v].existed = win[v].existed
                         /\ win'[v].notes = win[v].notes
                         /\ win'[v].unsaved = win[v].unsaved
                         /\ win[v].to = "gone" => win'[v].to = "gone"
  <2>1. win'[v] = next(v)
    BY <1>3
  <2>2. Keeps(v) /\ win'[v].feed = win[v].feed /\ win'[v].workers = win[v].workers
    BY <1>2, <2>1 DEF Keeps
  <2>3. CASE v # w
    <3>1. /\ next(v).save = win[v].save /\ next(v).existed = win[v].existed
          /\ next(v).notes = win[v].notes /\ next(v).unsaved = win[v].unsaved
          /\ win[v].to = "gone" => next(v).to = "gone"
      BY <1>2, <2>3
    <3> QED
      BY <2>1, <2>2, <3>1
  <2> QED
    BY <2>2, <2>3
<1>7. win'[w].save = "idle" /\ win'[w].notes = FALSE
  BY <1>2, <1>3
<1> HIDE DEF moved
<1> QED
  BY <1>3, <1>4, <1>5, <1>6, <1>7

\* The steps that touch neither a configuration nor a save.
LEMMA QuietMoves ==
  ASSUME TypeInv, NEW w \in Windows,
         PathWorker(w) \/ FeedReady(w) \/ FeedLost(w) \/ PollTheme(w)
  PROVE  /\ win' \in [Windows -> WinStates] /\ KeepsOthers(w) /\ Keeps(w)
         /\ win'[w].save = win[w].save /\ win'[w].to = win[w].to
         /\ win'[w].existed = win[w].existed /\ win'[w].notes = win[w].notes
         /\ win'[w].unsaved = win[w].unsaved /\ win[w].open
         /\ UNCHANGED <<file, tmp, osLight, installed, history, saver>>
         /\ budget' = budget \/ Spend("event")
PROOF
<1>0. win \in [Windows -> WinStates] /\ win[w] \in WinStates /\ osLight \in BOOLEAN
  BY DEF TypeInv, TypeOK, WinStates
<1>1. CASE PathWorker(w)
  <2>1. PICK i \in DOMAIN win[w].workers :
               win' = [win EXCEPT ![w].workers = RemoveAt(@, i)]
    BY <1>1 DEF PathWorker
  <2> DEFINE rest == RemoveAt(win[w].workers, i)
  <2>2. rest \in Seq(BOOLEAN)
    BY <1>0, <2>1, RemoveAtType DEF WinStates
  <2>3. win[w].open
    <3>1. ASSUME ~win[w].open PROVE FALSE
      <4>1. win[w].workers = <<>>
        BY <3>1 DEF TypeInv, ClosedInv, Closed
      <4> QED
        BY <2>1, <4>1
    <3> QED
      BY <1>0, <3>1 DEF WinStates
  <2>4. win' = [win EXCEPT ![w].workers = rest]
    BY <2>1
  <2> HIDE DEF rest
  <2>5. win' \in [Windows -> WinStates]
    BY <1>0, <2>2, <2>4 DEF WinStates
  <2> QED
    BY <1>0, <1>1, <2>3, <2>4, <2>5 DEF PathWorker, KeepsOthers, Keeps, WinStates
<1>2. CASE FeedReady(w)
  <2>1. win' = [win EXCEPT ![w].feed = win[w].cfg.refresh] /\ win[w].cfg.refresh \in Rates
    BY <1>0, <1>2 DEF FeedReady, WinStates, Configs
  <2>2. win' \in [Windows -> WinStates]
    BY <1>0, <2>1 DEF WinStates
  <2>3. /\ KeepsOthers(w) /\ Keeps(w) /\ win'[w].save = win[w].save
        /\ win'[w].to = win[w].to /\ win'[w].existed = win[w].existed
        /\ win'[w].notes = win[w].notes /\ win'[w].unsaved = win[w].unsaved
    BY <1>0, <2>1 DEF KeepsOthers, Keeps, WinStates
  <2>4. /\ win[w].open /\ Spend("event")
        /\ UNCHANGED <<file, tmp, osLight, installed, history, saver>>
    BY <1>2 DEF FeedReady, Idle
  <2> QED
    BY <2>2, <2>3, <2>4
<1>3. CASE FeedLost(w)
  <2>1. win' = [win EXCEPT ![w].feed = NoFeed]
    BY <1>3 DEF FeedLost
  <2>2. win' \in [Windows -> WinStates]
    BY <1>0, <2>1 DEF WinStates
  <2>3. /\ KeepsOthers(w) /\ Keeps(w) /\ win'[w].save = win[w].save
        /\ win'[w].to = win[w].to /\ win'[w].existed = win[w].existed
        /\ win'[w].notes = win[w].notes /\ win'[w].unsaved = win[w].unsaved
    BY <1>0, <2>1 DEF KeepsOthers, Keeps, WinStates
  <2>4. win[w].open /\ UNCHANGED <<file, tmp, osLight, installed, history, saver, budget>>
    BY <1>3 DEF FeedLost, Idle
  <2> QED
    BY <2>2, <2>3, <2>4
<1>4. CASE PollTheme(w)
  <2> DEFINE e == Effective(win[w].cfg, osLight)
  <2>1. e \in Themes
    BY <1>0, EffectiveType DEF WinStates, Configs
  <2>2. win' = [win EXCEPT ![w].light = osLight, ![w].shown = e]
    BY <1>4 DEF PollTheme
  <2> HIDE DEF e
  <2>3. win' \in [Windows -> WinStates]
    BY <1>0, <2>1, <2>2 DEF WinStates
  <2>4. /\ KeepsOthers(w) /\ Keeps(w) /\ win'[w].save = win[w].save
        /\ win'[w].to = win[w].to /\ win'[w].existed = win[w].existed
        /\ win'[w].notes = win[w].notes /\ win'[w].unsaved = win[w].unsaved
    BY <1>0, <2>2 DEF KeepsOthers, Keeps, WinStates
  <2>5. win[w].open /\ UNCHANGED <<file, tmp, osLight, installed, history, saver, budget>>
    BY <1>4 DEF PollTheme, Idle
  <2> QED
    BY <2>3, <2>4, <2>5
<1> QED
  BY <1>1, <1>2, <1>3, <1>4

LEMMA InitType == Init => TypeInv
PROOF
<1> SUFFICES ASSUME Init PROVE TypeInv
  OBVIOUS
<1>1. win \in [Windows -> WinStates]
  BY ClosedType DEF Init
<1>3. file \in FileStates /\ tmp \in FileStates
  <2>1. Default \in Configs /\ [Default EXCEPT !.version = 1] \in Configs
    BY DefaultType, Parameters DEF Configs
  <2> QED
    BY <2>1, FileTypes DEF Init
<1>4. /\ installed = 1 /\ 1 \in 1..MaxEvent + 1 /\ told \in Nat /\ owed \in Nat
      /\ {path, osLight, overlapped, crossed} \subseteq BOOLEAN
      /\ {pathBy, saver} \subseteq Windows \cup {NoWindow}
  <2>1. installed = 1 /\ 1 \in 1..MaxEvent + 1 /\ told \in Nat
    BY Parameters DEF Init
  <2>2. owed \in Nat
    BY DEF Init
  <2>3. /\ path \in BOOLEAN /\ osLight \in BOOLEAN /\ overlapped \in BOOLEAN
        /\ crossed \in BOOLEAN
    BY DEF Init
  <2>4. {pathBy, saver} \subseteq Windows \cup {NoWindow}
    BY DEF Init
  <2> QED
    BY <2>1, <2>2, <2>3, <2>4
<1>5. TypeOK
  BY <1>1, <1>3, <1>4 DEF TypeOK, WinStates
<1>6. BudgetInv
  BY Parameters, <1>4 DEF Init, BudgetInv
<1>7. ClosedInv
  BY DEF Init, ClosedInv
<1> QED
  BY <1>5, <1>6, <1>7 DEF TypeInv

\* A change or an event that is not an upgrade keeps the budget's account.
LEMMA SpendKeeps ==
  ASSUME BudgetInv, NEW what \in {"event", "launch"}, Spend(what)
  PROVE  /\ budget' \in [{"event", "launch"} -> Nat]
         /\ budget'["event"] = IF what = "event" THEN budget["event"] - 1 ELSE budget["event"]
         /\ what = "event" => budget["event"] >= 1
PROOF
<1>1. budget[what] \in Nat /\ budget[what] - 1 \in Nat
  BY DEF BudgetInv, Spend
<1> QED
  BY <1>1 DEF BudgetInv, Spend

LEMMA StepType == TypeInv /\ [Next]_vars => TypeInv'
PROOF
<1> SUFFICES ASSUME TypeInv, [Next]_vars PROVE TypeInv'
  OBVIOUS
<1>0. /\ win \in [Windows -> WinStates] /\ file \in FileStates /\ tmp \in FileStates
      /\ path \in BOOLEAN /\ osLight \in BOOLEAN /\ overlapped \in BOOLEAN
      /\ crossed \in BOOLEAN
      /\ pathBy \in Windows \cup {NoWindow} /\ saver \in Windows \cup {NoWindow}
      /\ installed \in 1..MaxEvent + 1 /\ told \in Nat /\ owed \in Nat
      /\ BudgetInv /\ ClosedInv /\ Torn \in FileStates
  BY FileTypes DEF TypeInv, TypeOK, WinStates
\* What a step has to keep, by parts.
<1>1. ASSUME win' \in [Windows -> WinStates], file' \in FileStates, tmp' \in FileStates,
             path' \in BOOLEAN, osLight' \in BOOLEAN, overlapped' \in BOOLEAN,
             crossed' \in BOOLEAN,
             pathBy' \in Windows \cup {NoWindow}, saver' \in Windows \cup {NoWindow},
             installed' \in 1..MaxEvent + 1, told' \in Nat, owed' \in Nat
      PROVE  TypeOK'
  BY <1>1 DEF TypeOK, WinStates
<1>2. ASSUME installed' = installed, budget' = budget \/ \E e \in {"event", "launch"} : Spend(e)
      PROVE  BudgetInv'
  <2>1. /\ budget["event"] \in Nat /\ installed \in Nat /\ MaxEvent \in Nat
        /\ installed + budget["event"] <= MaxEvent + 1
    BY <1>0, Parameters DEF BudgetInv
  <2>2. CASE budget' = budget
    BY <1>0, <1>2, <2>2 DEF BudgetInv
  <2>3. CASE \E e \in {"event", "launch"} : Spend(e)
    <3>1. PICK e \in {"event", "launch"} : Spend(e)
      BY <2>3
    <3>2. /\ budget' \in [{"event", "launch"} -> Nat]
          /\ budget'["event"] \in {budget["event"] - 1, budget["event"]}
      BY <1>0, <3>1, SpendKeeps
    <3> QED
      BY <1>2, <2>1, <3>2 DEF BudgetInv
  <2> QED
    BY <1>2, <2>2, <2>3
<1>3. ASSUME NEW w \in Windows, KeepsOthers(w), win'[w].open \/ win'[w] = Closed
      PROVE  ClosedInv'
  BY <1>0, <1>3 DEF ClosedInv, KeepsOthers
<1>4. ASSUME NEW w \in Windows, Launch(w) \/ LaunchUnread(w) PROVE TypeInv'
  <2>1. /\ win' \in [Windows -> WinStates] /\ KeepsOthers(w) /\ win'[w].open
        /\ crossed' = (crossed \/ \E v \in Others(w) : Telling(v))
        /\ owed' = owed \/ owed' = owed + 1
        /\ Spend("launch") \/ Spend("event")
        /\ UNCHANGED <<file, tmp, path, pathBy, osLight, installed, told, saver, overlapped>>
    BY <1>4, StartsMoves DEF paths
  <2>2. crossed' \in BOOLEAN /\ owed' \in Nat
    BY <1>0, <2>1
  <2> QED
    BY <1>0, <1>1, <1>2, <1>3, <2>1, <2>2 DEF TypeInv
<1>4a. ASSUME NEW w \in Windows, RecordRun(w) PROVE TypeInv'
  <2>1. /\ win' \in [Windows -> WinStates] /\ KeepsOthers(w) /\ win'[w].open
        /\ UNCHANGED <<file, tmp, path, pathBy, osLight, installed, told, owed, overlapped,
                       crossed, saver, budget>>
    BY <1>4a, RecordMoves DEF paths, history
  <2> QED
    BY <1>0, <1>1, <1>2, <1>3, <2>1 DEF TypeInv
<1>5. ASSUME NEW w \in Windows, Exit(w) PROVE TypeInv'
  <2>1. win' \in [Windows -> WinStates] /\ KeepsOthers(w) /\ win'[w] = Closed
    BY <1>5, ExitMoves
  <2>2. /\ pathBy' \in {pathBy, NoWindow}
        /\ UNCHANGED <<file, tmp, path, osLight, installed, told, owed, overlapped, crossed,
                       saver, budget>>
    BY <1>5 DEF Exit, history
  <2> QED
    BY <1>0, <1>1, <1>2, <1>3, <2>1, <2>2 DEF TypeInv
<1>6. ASSUME NEW w \in Windows, SaveCall(w) PROVE TypeInv'
  <2>1. /\ win' \in [Windows -> WinStates] /\ KeepsOthers(w) /\ Keeps(w) /\ win[w].open
        /\ file' \in FileStates /\ tmp' \in FileStates
        /\ UNCHANGED <<path, pathBy, osLight, installed, crossed, saver>>
    BY <1>6, CallMoves DEF paths
  <2>2. /\ told' \in {told, told + 1} /\ owed' \in {owed, owed + 1}
        /\ overlapped' \in BOOLEAN /\ (budget' = budget \/ Spend("event"))
    <3>1. CASE SaveOpens(w)
      BY <1>0, <1>6, <3>1, CallMoves
    <3>2. CASE SaveWrites(w)
      BY <1>0, <1>6, <3>2, CallMoves
    <3>3. CASE SaveFails(w)
      BY <1>0, <1>6, <3>3, CallMoves
    <3> QED
      BY <1>6, <3>1, <3>2, <3>3 DEF SaveCall
  <2>3. told' \in Nat /\ owed' \in Nat
    BY <1>0, <2>2
  <2>4. TypeOK'
    BY <1>0, <1>1, <2>1, <2>2, <2>3
  <2>5. BudgetInv' /\ ClosedInv'
    BY <1>2, <1>3, <2>1, <2>2 DEF Keeps
  <2> QED
    BY <2>4, <2>5 DEF TypeInv
<1>7. ASSUME NEW w \in Windows, SaveRenames(w) PROVE TypeInv'
  <2>1. /\ win' \in [Windows -> WinStates] /\ win[w].save = "written" /\ win[w].open
        /\ \A v \in Windows : Keeps(v)
        /\ file' = tmp /\ tmp' = Missing /\ saver' = w /\ told' \in {told, told + 1}
        /\ UNCHANGED <<path, pathBy, osLight, installed, owed, overlapped, crossed, budget>>
    BY <1>7, SaveRenamesMoves DEF paths
  <2>2. ClosedInv'
    <3> SUFFICES ASSUME NEW v \in Windows, ~win'[v].open PROVE win'[v] = Closed
      BY DEF ClosedInv
    <3>1. ~win[v].open /\ win[v] = Closed
      BY <1>0, <2>1 DEF Keeps, ClosedInv
    <3>2. v # w
      BY <2>1, <3>1
    <3>3. win'[v] = [win[v] EXCEPT !.to = "gone"]
      <4>1. win[v].to = "gone"
        BY <3>1 DEF Closed
      <4> QED
        BY <1>7, <3>2, <4>1 DEF SaveRenames
    <3>4. [Closed EXCEPT !.to = "gone"] = Closed
      <4>1. [Closed EXCEPT !.to = "gone"] \in WinStates
        BY ClosedType DEF WinStates
      <4> QED
        BY <4>1, ClosedType, SameWindow DEF Closed
    <3> QED
      BY <3>1, <3>3, <3>4
  <2>3. Missing \in FileStates
    BY FileTypes
  <2> QED
    BY <1>0, <1>1, <1>2, <2>1, <2>2, <2>3 DEF TypeInv
<1>8. ASSUME NEW w \in Windows, Controls(w) PROVE TypeInv'
  <2>1. KeepsOthers(w)
    BY <1>8 DEF Controls, KeepsOthers
  <2> QED
    BY <1>0, <1>1, <1>2, <1>3, <1>8, <2>1 DEF TypeInv, Controls, paths, history
<1>9. ASSUME NEW w \in Windows, PathWorker(w) \/ FeedReady(w) \/ FeedLost(w) \/ PollTheme(w)
      PROVE  TypeInv'
  <2>1. /\ win' \in [Windows -> WinStates] /\ KeepsOthers(w) /\ Keeps(w) /\ win[w].open
        /\ UNCHANGED <<file, tmp, osLight, installed, told, owed, overlapped, crossed, saver>>
        /\ budget' = budget \/ Spend("event")
    BY <1>9, QuietMoves DEF history
  <2>2. path' \in BOOLEAN /\ pathBy' \in {pathBy, w, NoWindow}
    <3>1. CASE PathWorker(w)
      <4>1. win[w].wanted \in BOOLEAN
        BY <1>0 DEF WinStates
      <4> QED
        BY <1>0, <3>1, <4>1 DEF PathWorker, Applies
    <3>2. CASE FeedReady(w) \/ FeedLost(w) \/ PollTheme(w)
      BY <1>0, <3>2 DEF FeedReady, FeedLost, PollTheme, paths
    <3> QED
      BY <1>9, <3>1, <3>2
  <2> QED
    BY <1>0, <1>1, <1>2, <1>3, <2>1, <2>2 DEF TypeInv, Keeps
<1>10. CASE WindowsThemeFlips
  <2>1. /\ osLight' = ~osLight /\ Spend("event")
        /\ UNCHANGED <<win, file, tmp, path, pathBy, installed, told, owed, overlapped, crossed,
                       saver>>
    BY <1>10 DEF WindowsThemeFlips, paths, history
  <2>2. ClosedInv'
    BY <1>0, <2>1 DEF ClosedInv
  <2> QED
    BY <1>0, <1>1, <1>2, <2>1, <2>2 DEF TypeInv
<1>11. CASE HandEdit
  <2>1. /\ file' \in FileStates /\ owed' \in Nat /\ saver' = NoWindow /\ Spend("event")
        /\ UNCHANGED <<win, tmp, path, pathBy, osLight, installed, told, overlapped, crossed>>
    <3>1. ASSUME NEW v \in HandOpacities
          PROVE  Whole([file.cfg EXCEPT !.opacity = v]) \in FileStates
      <4>1. v \in 0..255
        BY Parameters
      <4> QED
        BY <1>0, <4>1 DEF FileStates, Whole
    <3>2. /\ saver' = NoWindow /\ Spend("event")
          /\ UNCHANGED <<win, tmp, path, pathBy, osLight, installed, told, overlapped, crossed>>
      BY <1>11 DEF HandEdit, paths
    <3>3. CASE \E v \in HandOpacities :
                 file' = Whole([file.cfg EXCEPT !.opacity = v]) /\ UNCHANGED owed
      BY <1>0, <3>1, <3>2, <3>3
    <3>4. CASE file' = Torn /\ owed' = owed + 1
      <4>1. owed + 1 \in Nat
        BY <1>0
      <4> QED
        BY <1>0, <3>2, <3>4, <4>1
    <3> QED
      BY <1>11, <3>3, <3>4 DEF HandEdit
  <2>2. ClosedInv'
    BY <1>0, <2>1 DEF ClosedInv
  <2> QED
    BY <1>0, <1>1, <1>2, <2>1, <2>2 DEF TypeInv
<1>12. CASE Upgrade
  <2>1. /\ Spend("event") /\ installed' = installed + 1 /\ owed' = owed + 1
        /\ UNCHANGED <<win, file, tmp, path, pathBy, osLight, told, saver, overlapped, crossed>>
    BY <1>12 DEF Upgrade, paths
  <2>2. ClosedInv'
    BY <1>0, <2>1 DEF ClosedInv
  <2>3. /\ budget["event"] \in Nat /\ budget["event"] >= 1
        /\ budget' \in [{"event", "launch"} -> Nat] /\ budget'["event"] = budget["event"] - 1
    BY <1>0, <2>1, SpendKeeps DEF BudgetInv
  <2>4. BudgetInv' /\ installed' \in 1..MaxEvent + 1
    BY <1>0, <2>1, <2>3, Parameters DEF BudgetInv
  <2> QED
    BY <1>0, <1>1, <2>1, <2>2, <2>4 DEF TypeInv
<1>13. CASE UNCHANGED vars
  <2>1. ClosedInv' /\ BudgetInv'
    BY <1>0, <1>13 DEF vars, ClosedInv, BudgetInv
  <2> QED
    BY <1>0, <1>1, <1>13, <2>1 DEF vars, paths, history, TypeInv
<1> QED
  BY <1>4, <1>5, <1>6, <1>7, <1>8, <1>9, <1>10, <1>11, <1>12, <1>13, <1>4a, ControlsMove
  DEF Next, TypeInv, SaveCall

LEMMA TypeHolds == Spec => []TypeInv
  BY InitType, StepType, PTL DEF Spec

\* Every window's configuration keeps its types, and with them its opacity between
\* 30 and 100 %: Config's clamp and both sliders see to it, whatever opacity was
\* typed into the file (config.rs, ui/settings.rs).
THEOREM TypeCorrect == Spec => []TypeOK
PROOF
<1>1. TypeInv => TypeOK
  BY DEF TypeInv
<1> QED
  BY <1>1, TypeHolds, PTL
-----------------------------------------------------------------------------
(* The feed and the PATH.                                                  *)

\* What the quiet steps do to a window's feed and to its PATH workers.
LEMMA QuietFeeds ==
  ASSUME TypeInv, NEW w \in Windows,
         PathWorker(w) \/ FeedReady(w) \/ FeedLost(w) \/ PollTheme(w)
  PROVE  /\ win'[w].feed \in {win[w].feed, NoFeed, win'[w].cfg.refresh}
         /\ \/ PathWorker(w)
            \/ win'[w].workers = win[w].workers /\ UNCHANGED paths
PROOF
<1>0. win \in [Windows -> WinStates] /\ win[w] \in WinStates
  BY DEF TypeInv, TypeOK, WinStates
<1>1. CASE PathWorker(w)
  <2>1. PICK i \in DOMAIN win[w].workers :
               win' = [win EXCEPT ![w].workers = RemoveAt(@, i)]
    BY <1>1 DEF PathWorker
  <2> DEFINE rest == RemoveAt(win[w].workers, i)
  <2>2. win' = [win EXCEPT ![w].workers = rest]
    BY <2>1
  <2> HIDE DEF rest
  <2>3. win'[w].feed = win[w].feed
    BY <1>0, <2>2 DEF WinStates
  <2> QED
    BY <1>1, <2>3
<1>2. CASE FeedReady(w)
  BY <1>0, <1>2 DEF FeedReady, WinStates
<1>3. CASE FeedLost(w)
  BY <1>0, <1>3 DEF FeedLost, WinStates
<1>4. CASE PollTheme(w)
  <2> DEFINE e == Effective(win[w].cfg, osLight)
  <2>1. win' = [win EXCEPT ![w].light = osLight, ![w].shown = e] /\ UNCHANGED paths
    BY <1>4 DEF PollTheme
  <2> HIDE DEF e
  <2> QED
    BY <1>0, <2>1 DEF WinStates
<1> QED
  BY <1>1, <1>2, <1>3, <1>4

\* The steps of no window.
LEMMA WorldMoves ==
  ASSUME WindowsThemeFlips \/ HandEdit \/ Upgrade \/ UNCHANGED vars
  PROVE  UNCHANGED <<win, tmp, paths, told, overlapped, crossed>>
  BY DEF WindowsThemeFlips, HandEdit, Upgrade, vars, history, paths

LEMMA IntervalStep == TypeInv /\ IntervalFollows /\ [Next]_vars => IntervalFollows'
PROOF
<1> SUFFICES ASSUME TypeInv, IntervalFollows, [Next]_vars PROVE IntervalFollows'
  OBVIOUS
<1>1. ASSUME NEW w \in Windows, KeepsOthers(w),
             win'[w].feed \in {NoFeed, win'[w].cfg.refresh}
      PROVE  IntervalFollows'
  BY <1>1 DEF IntervalFollows, KeepsOthers
<1>2. ASSUME NEW w \in Windows, Launch(w) \/ LaunchUnread(w) PROVE IntervalFollows'
  BY <1>1, <1>2, StartsMoves
<1>2a. ASSUME NEW w \in Windows, RecordRun(w) PROVE IntervalFollows'
  <2>1. /\ KeepsOthers(w) /\ win'[w].feed = win[w].feed
        /\ win'[w].cfg.refresh = win[w].cfg.refresh
    BY <1>2a, RecordMoves
  <2> QED
    BY <1>1, <2>1 DEF IntervalFollows
<1>3. ASSUME NEW w \in Windows, Exit(w) PROVE IntervalFollows'
  <2>1. KeepsOthers(w) /\ win'[w].feed = NoFeed
    BY <1>3, ExitMoves DEF Closed
  <2> QED
    BY <1>1, <2>1
<1>4. ASSUME NEW w \in Windows, SaveCall(w) PROVE IntervalFollows'
  <2>1. KeepsOthers(w) /\ Keeps(w) /\ win'[w].feed = win[w].feed
    BY <1>4, CallMoves
  <2> QED
    BY <1>1, <2>1 DEF Keeps, IntervalFollows
<1>5. ASSUME NEW w \in Windows, SaveRenames(w) PROVE IntervalFollows'
  <2>1. \A v \in Windows : Keeps(v) /\ win'[v].feed = win[v].feed
    BY <1>5, SaveRenamesMoves
  <2> QED
    BY <2>1 DEF Keeps, IntervalFollows
<1>6. ASSUME NEW w \in Windows, Controls(w) PROVE IntervalFollows'
  <2>1. KeepsOthers(w)
    BY <1>6 DEF Controls, KeepsOthers
  <2>2. win'[w].feed \in {NoFeed, win'[w].cfg.refresh}
    BY <1>6 DEF Controls, IntervalFollows
  <2> QED
    BY <1>1, <2>1, <2>2
<1>7. ASSUME NEW w \in Windows, PathWorker(w) \/ FeedReady(w) \/ FeedLost(w) \/ PollTheme(w)
      PROVE  IntervalFollows'
  <2>1. KeepsOthers(w) /\ Keeps(w)
    BY <1>7, QuietMoves
  <2>2. win'[w].feed \in {win[w].feed, NoFeed, win'[w].cfg.refresh}
    BY <1>7, QuietFeeds
  <2> QED
    BY <1>1, <2>1, <2>2 DEF Keeps, IntervalFollows
<1>8. CASE WindowsThemeFlips \/ HandEdit \/ Upgrade \/ UNCHANGED vars
  BY <1>8, WorldMoves DEF IntervalFollows
<1> QED
  BY <1>2, <1>3, <1>4, <1>5, <1>6, <1>7, <1>8, <1>2a, ControlsMove DEF Next, TypeInv, SaveCall

\* The sensor service is never left at an interval other than the one the settings
\* show: not by a change made while no feed was attached, nor by a new feed, a
\* restart of the window or a hand edit of the file (apply_refresh_change, the
\* Ready arm of PerfApp::poll).
THEOREM IntervalFollowsCorrect == Spec => []IntervalFollows
PROOF
<1>1. Init => IntervalFollows
  BY DEF Init, IntervalFollows, Closed
<1> QED
  BY <1>1, TypeHolds, IntervalStep, PTL DEF Spec

\* The window that settled the PATH is running: a worker dies with its process.
PathInv ==
  /\ PathFollowsSwitch
  /\ \A w \in Windows : pathBy = w => win[w].open

LEMMA PathStep == TypeInv /\ PathInv /\ [Next]_vars => PathInv'
PROOF
<1> SUFFICES ASSUME TypeInv, PathInv, [Next]_vars PROVE PathInv'
  OBVIOUS
<1>1. ASSUME NEW w \in Windows, KeepsOthers(w), UNCHANGED paths, win'[w].open = win[w].open,
             \/ win'[w].workers # <<>>
             \/ win'[w].workers = win[w].workers /\ win'[w].wanted = win[w].wanted
      PROVE  PathInv'
  BY <1>1 DEF PathInv, PathFollowsSwitch, KeepsOthers, paths
<1>2. ASSUME NEW w \in Windows, Launch(w) \/ LaunchUnread(w) PROVE PathInv'
  <2>1. KeepsOthers(w) /\ UNCHANGED paths /\ ~win[w].open
    BY <1>2, StartsMoves
  <2> QED
    BY <2>1 DEF PathInv, PathFollowsSwitch, KeepsOthers, paths
<1>3. ASSUME NEW w \in Windows, Exit(w) PROVE PathInv'
  <2>1. KeepsOthers(w) /\ path' = path /\ pathBy' = IF pathBy = w THEN NoWindow ELSE pathBy
    BY <1>3, ExitMoves DEF Exit
  <2>2. \A v \in Windows : pathBy' = v => v # w /\ pathBy = v
    BY <2>1, Parameters
  <2> QED
    BY <2>1, <2>2 DEF PathInv, PathFollowsSwitch, KeepsOthers
<1>2a. ASSUME NEW w \in Windows, RecordRun(w) PROVE PathInv'
  <2>1. /\ KeepsOthers(w) /\ win[w].open /\ win'[w].open /\ UNCHANGED paths
        /\ win'[w].workers = win[w].workers /\ win'[w].wanted = win[w].wanted
    BY <1>2a, RecordMoves
  <2> QED
    BY <2>1 DEF PathInv, PathFollowsSwitch, KeepsOthers, paths
<1>4. ASSUME NEW w \in Windows, SaveCall(w) PROVE PathInv'
  <2>1. KeepsOthers(w) /\ Keeps(w) /\ win'[w].workers = win[w].workers /\ UNCHANGED paths
    BY <1>4, CallMoves
  <2> QED
    BY <1>1, <2>1 DEF Keeps
<1>5. ASSUME NEW w \in Windows, SaveRenames(w) PROVE PathInv'
  <2>1. UNCHANGED paths /\ \A v \in Windows : Keeps(v) /\ win'[v].workers = win[v].workers
    BY <1>5, SaveRenamesMoves
  <2> QED
    BY <2>1 DEF Keeps, PathInv, PathFollowsSwitch, paths
<1>6. ASSUME NEW w \in Windows, Controls(w) PROVE PathInv'
  <2>1. KeepsOthers(w) /\ UNCHANGED paths
    BY <1>6 DEF Controls, KeepsOthers
  <2>2. win'[w].open /\ win[w].open
    BY <1>6 DEF Controls, Idle
  <2>3. \/ win'[w].workers # <<>>
        \/ win'[w].workers = win[w].workers /\ win'[w].wanted = win[w].wanted
    BY <1>6 DEF Controls
  <2> QED
    BY <2>1, <2>2, <2>3 DEF PathInv, PathFollowsSwitch, KeepsOthers, paths
<1>7. ASSUME NEW w \in Windows, PathWorker(w) PROVE PathInv'
  <2>1. KeepsOthers(w) /\ Keeps(w) /\ win[w].open
    BY <1>7, QuietMoves
  <2>2. \/ path' = win[w].wanted /\ pathBy' = w
        \/ pathBy' = NoWindow
    BY <1>7 DEF PathWorker, Applies
  <2>3. CASE pathBy' = NoWindow
    BY <2>3, Parameters DEF PathInv, PathFollowsSwitch
  <2>4. CASE path' = win[w].wanted /\ pathBy' = w
    BY <2>1, <2>4 DEF Keeps, PathInv, PathFollowsSwitch
  <2> QED
    BY <2>2, <2>3, <2>4
<1>8. ASSUME NEW w \in Windows, FeedReady(w) \/ FeedLost(w) \/ PollTheme(w), ~PathWorker(w)
      PROVE  PathInv'
  <2>1. KeepsOthers(w) /\ Keeps(w)
    BY <1>8, QuietMoves
  <2>2. win'[w].workers = win[w].workers /\ UNCHANGED paths
    BY <1>8, QuietFeeds
  <2> QED
    BY <1>1, <2>1, <2>2 DEF Keeps
<1>9. CASE WindowsThemeFlips \/ HandEdit \/ Upgrade \/ UNCHANGED vars
  BY <1>9, WorldMoves DEF PathInv, PathFollowsSwitch, paths
<1> QED
  BY <1>2, <1>3, <1>4, <1>5, <1>6, <1>7, <1>8, <1>9, <1>2a, ControlsMove
  DEF Next, TypeInv, SaveCall

\* When the window that settled the PATH has no worker left, the PATH is what its
\* switch last asked for, in whatever order its workers ran (PATH_WANTED and
\* PATH_LOCK of update_command_line_path).
THEOREM PathFollowsSwitchCorrect == Spec => []PathFollowsSwitch
PROOF
<1>1. Init => PathInv
  BY Parameters DEF Init, PathInv, PathFollowsSwitch
<1>2. PathInv => PathFollowsSwitch
  BY DEF PathInv
<1> QED
  BY <1>1, <1>2, TypeHolds, PathStep, PTL DEF Spec

-----------------------------------------------------------------------------
(* The save.                                                               *)

\* Until two windows save at once, one window saves, and the temporary file is
\* what that window has made of it so far.
OneSaver ==
  ~overlapped =>
    /\ \A v, w \in Windows : Saving(v) /\ Saving(w) => v = w
    /\ \A w \in Windows :
         /\ win[w].save = "opened" => win[w].to = "tmp" /\ tmp = Torn
         /\ win[w].save = "written" => tmp = Whole(win[w].cfg)

SaveInv == OneSaver /\ SettingsSurvive

\* A step of a window that is outside its save afterwards and shows no settled
\* configuration, and that leaves the files alone.
LEMMA SaveAside ==
  ASSUME SaveInv, NEW w \in Windows, KeepsOthers(w),
         ~win'[w].open \/ win'[w].save # "idle", win'[w].save \notin {"opened", "written"},
         UNCHANGED <<file, tmp, saver, overlapped>>
  PROVE  SaveInv'
PROOF
<1>1. ~Saving(w)' /\ ~Idle(w)'
  BY DEF Saving, Idle
<1>2. OneSaver'
  <2> SUFFICES ASSUME ~overlapped' PROVE OneSaver'
    BY DEF OneSaver
  <2>1. \A v \in Windows : win'[v].save \in {"opened", "written"} => win'[v] = win[v]
    BY DEF KeepsOthers
  <2>2. \A v \in Windows : Saving(v)' => Saving(v)
    BY <2>1 DEF Saving
  <2> QED
    BY <2>1, <2>2 DEF SaveInv, OneSaver
<1>3. SettingsSurvive'
  BY <1>1 DEF SaveInv, SettingsSurvive, KeepsOthers, Idle
<1> QED
  BY <1>2, <1>3 DEF SaveInv

LEMMA SaveStep == TypeInv /\ SaveInv /\ [Next]_vars => SaveInv'
PROOF
<1> SUFFICES ASSUME TypeInv, SaveInv, [Next]_vars PROVE SaveInv'
  OBVIOUS
<1>1. ASSUME NEW w \in Windows, Launch(w) \/ LaunchUnread(w) PROVE SaveInv'
  <2>1. KeepsOthers(w) /\ win'[w].save = "loaded" /\ UNCHANGED <<file, tmp, saver, overlapped>>
    BY <1>1, StartsMoves
  <2> QED
    BY <2>1, SaveAside
<1>2. ASSUME NEW w \in Windows, RecordRun(w) \/ Controls(w) PROVE SaveInv'
  <2>1. CASE RecordRun(w)
    <3>1. KeepsOthers(w) /\ win'[w].save = "begun" /\ UNCHANGED <<file, tmp, saver, overlapped>>
      BY <2>1, RecordMoves DEF history
    <3> QED
      BY <3>1, SaveAside
  <2>2. CASE Controls(w)
    <3>1. KeepsOthers(w) /\ win'[w].save = "begun" /\ UNCHANGED <<file, tmp, saver, overlapped>>
      BY <2>2 DEF Controls, KeepsOthers, history
    <3> QED
      BY <3>1, SaveAside
  <2> QED
    BY <1>2, <2>1, <2>2
<1>3. ASSUME NEW w \in Windows, Exit(w) PROVE SaveInv'
  <2>1. KeepsOthers(w) /\ win'[w] = Closed
    BY <1>3, ExitMoves
  <2>2. UNCHANGED <<file, tmp, saver, overlapped>>
    BY <1>3 DEF Exit, history
  <2>3. ~win'[w].open /\ win'[w].save = "idle"
    BY <2>1 DEF Closed
  <2> QED
    BY <2>1, <2>2, <2>3, SaveAside
<1>4. ASSUME NEW w \in Windows, SaveOpens(w) PROVE SaveInv'
  <2>1. /\ KeepsOthers(w) /\ win[w].save = "begun"
        /\ win'[w].save = "opened" /\ win'[w].to = "tmp" /\ tmp' = Torn
        /\ overlapped' = (overlapped \/ \E v \in Others(w) : Saving(v))
        /\ UNCHANGED <<file, saver>>
    BY <1>4, CallMoves DEF SaveCall
  <2> SUFFICES ASSUME ~overlapped' PROVE SaveInv'
    BY DEF SaveInv, OneSaver, SettingsSurvive
  <2>2. ~overlapped /\ \A v \in Windows : v # w => ~Saving(v)
    BY <2>1 DEF Others
  <2>3. \A v \in Windows : v # w => win'[v] = win[v] /\ win'[v].save \notin {"opened", "written"}
    BY <2>1, <2>2 DEF KeepsOthers, Saving
  <2>4. OneSaver'
    BY <2>1, <2>3 DEF OneSaver, Saving
  <2>5. SettingsSurvive'
    BY <2>1, <2>2, <2>3 DEF SaveInv, SettingsSurvive, Idle
  <2> QED
    BY <2>4, <2>5 DEF SaveInv
<1>5. ASSUME NEW w \in Windows, SaveWrites(w) PROVE SaveInv'
  <2>1. /\ KeepsOthers(w) /\ Keeps(w)
        /\ win[w].save = "opened" /\ win'[w].save = "written"
        /\ win[w].to = "tmp" /\ tmp.is # "whole" => tmp' = Whole(win[w].cfg) /\ file' = file
        /\ UNCHANGED <<saver, overlapped>>
    BY <1>5, CallMoves DEF SaveCall
  <2> SUFFICES ASSUME ~overlapped PROVE SaveInv'
    BY <2>1 DEF SaveInv, OneSaver, SettingsSurvive
  <2>3. Saving(w) /\ \A v \in Windows : Saving(v) => v = w
    BY <2>1 DEF SaveInv, OneSaver, Saving
  <2>4. win[w].to = "tmp" /\ tmp = Torn
    BY <2>1 DEF SaveInv, OneSaver
  <2>5. tmp' = Whole(win[w].cfg) /\ file' = file
    BY <2>1, <2>4 DEF Torn
  <2>6. \A v \in Windows : v # w => win'[v] = win[v] /\ win'[v].save \notin {"opened", "written"}
    BY <2>1, <2>3 DEF KeepsOthers, Saving
  <2>7. OneSaver'
    BY <2>1, <2>5, <2>6 DEF OneSaver, Saving, Keeps
  <2>8. SettingsSurvive'
    BY <2>1, <2>5, <2>6 DEF SaveInv, SettingsSurvive, Idle
  <2> QED
    BY <2>7, <2>8 DEF SaveInv
<1>5a. ASSUME NEW w \in Windows, SaveFails(w) PROVE SaveInv'
  <2>1. /\ KeepsOthers(w) /\ win[w].save \in {"begun", "opened", "written"}
        /\ win'[w].save = "idle" /\ win'[w].unsaved = TRUE
        /\ win[w].save # "opened" => UNCHANGED <<file, tmp>>
        /\ win[w].to = "tmp" => UNCHANGED file
        /\ UNCHANGED <<saver, overlapped>>
    BY <1>5a, CallMoves DEF SaveCall
  <2> SUFFICES ASSUME ~overlapped PROVE SaveInv'
    BY <2>1 DEF SaveInv, OneSaver, SettingsSurvive
  <2>2. file' = file
    BY <2>1 DEF SaveInv, OneSaver
  <2>3. \A v \in Windows : win'[v].save \in {"opened", "written"} =>
          v # w /\ win'[v] = win[v] /\ Saving(v)
    BY <2>1 DEF KeepsOthers, Saving
  <2>4. OneSaver'
    <3>1. ASSUME NEW v \in Windows, win'[v].save \in {"opened", "written"} PROVE tmp' = tmp
      <4>1. ~Saving(w)
        BY <2>3, <3>1 DEF SaveInv, OneSaver
      <4> QED
        BY <2>1, <4>1 DEF Saving
    <3>2. \A v, u \in Windows : Saving(v)' /\ Saving(u)' => v = u
      BY <2>3 DEF SaveInv, OneSaver, Saving
    <3> QED
      BY <2>3, <3>1, <3>2 DEF SaveInv, OneSaver
  <2>5. SettingsSurvive'
    BY <2>1, <2>2 DEF SaveInv, SettingsSurvive, Idle, KeepsOthers
  <2> QED
    BY <2>4, <2>5 DEF SaveInv
<1>5b. ASSUME NEW w \in Windows, SaveRenames(w) PROVE SaveInv'
  <2>1. /\ \A v \in Windows : Keeps(v) /\ (v # w => win'[v].save = win[v].save)
        /\ win[w].save = "written" /\ win'[w].save = "idle"
        /\ file' = tmp /\ saver' = w /\ UNCHANGED overlapped
    BY <1>5b, SaveRenamesMoves
  <2> SUFFICES ASSUME ~overlapped PROVE SaveInv'
    BY <2>1 DEF SaveInv, OneSaver, SettingsSurvive
  <2>2. \A v \in Windows : win'[v].save \notin {"opened", "written"}
    BY <2>1 DEF SaveInv, OneSaver, Saving
  <2>3. file' = Whole(win[w].cfg)
    BY <2>1 DEF SaveInv, OneSaver
  <2>4. OneSaver'
    BY <2>2 DEF OneSaver, Saving
  <2>5. SettingsSurvive'
    <3>1. file'.is # "torn"
      BY <2>3 DEF Whole
    <3>2. win'[w].cfg = win[w].cfg
      BY <2>1 DEF Keeps
    <3> QED
      BY <2>1, <2>3, <3>1, <3>2 DEF SettingsSurvive
  <2> QED
    BY <2>4, <2>5 DEF SaveInv
<1>6. ASSUME NEW w \in Windows, PathWorker(w) \/ FeedReady(w) \/ FeedLost(w) \/ PollTheme(w)
      PROVE  SaveInv'
  <2>1. /\ KeepsOthers(w) /\ Keeps(w) /\ win'[w].save = win[w].save /\ win'[w].to = win[w].to
        /\ win'[w].unsaved = win[w].unsaved /\ UNCHANGED <<file, tmp, saver, overlapped>>
    BY <1>6, QuietMoves DEF history
  <2>2. \A v \in Windows : /\ win'[v].open = win[v].open /\ win'[v].cfg = win[v].cfg
                           /\ win'[v].save = win[v].save /\ win'[v].to = win[v].to
                           /\ win'[v].unsaved = win[v].unsaved
    BY <2>1 DEF KeepsOthers, Keeps
  <2>3. OneSaver'
    BY <2>1, <2>2 DEF SaveInv, OneSaver, Saving
  <2>4. SettingsSurvive'
    BY <2>1, <2>2 DEF SaveInv, SettingsSurvive, Idle, Saving
  <2> QED
    BY <2>3, <2>4 DEF SaveInv
<1>7. CASE WindowsThemeFlips \/ HandEdit \/ Upgrade \/ UNCHANGED vars
  <2>1. UNCHANGED <<win, tmp, overlapped>>
    BY <1>7, WorldMoves
  <2>2. UNCHANGED <<file, saver>> \/ saver' = NoWindow
    BY <1>7 DEF WindowsThemeFlips, HandEdit, Upgrade, vars
  <2>3. OneSaver'
    BY <2>1 DEF SaveInv, OneSaver, Saving
  <2>4. SettingsSurvive'
    BY <2>1, <2>2, Parameters DEF SaveInv, SettingsSurvive, Idle, Saving
  <2> QED
    BY <2>3, <2>4 DEF SaveInv
<1> QED
  BY <1>1, <1>2, <1>3, <1>4, <1>5, <1>6, <1>7, <1>5a, <1>5b, ControlsMove DEF Next, TypeInv

LEMMA SaveHolds == Spec => []SaveInv
PROOF
<1>1. Init => SaveInv
  BY Parameters DEF Init, SaveInv, OneSaver, SettingsSurvive, Saving, Idle, Closed
<1> QED
  BY <1>1, TypeHolds, SaveStep, PTL DEF Spec

\* As long as no two windows save at once, a crash or an error at any step of a save
\* leaves a whole file, and it is the last saver's configuration that the next launch
\* reads, unless a later save of that window failed and was logged (Config::save_to's
\* temporary file and rename).
THEOREM SettingsSurviveCorrect == Spec => []SettingsSurvive
PROOF
<1>1. SaveInv => SettingsSurvive
  BY DEF SaveInv
<1> QED
  BY <1>1, SaveHolds, PTL

-----------------------------------------------------------------------------
(* The notes of an upgrade.                                                *)

\* Every window that is past record_run carries the installed version.
VersionsInv ==
  \A w \in Windows : win[w].open /\ win[w].save # "loaded" => win[w].cfg.version = installed

\* The viewer is painted by the first frame, after the launch's save.
NotesInv == \A w \in Windows : win[w].notes => win[w].save \in {"begun", "opened", "written"}

\* What the next launch would find: a file from an older build, or not readable.
FileTells == file.is # "missing" /\ UpgradedFrom(file.cfg.version)
NotesDue == FileTells \/ \E w \in Windows : Telling(w)

\* One window at a time, until a second one loads what the first has yet to stamp.
OneTeller == ~crossed => \A v, w \in Windows : Telling(v) /\ Telling(w) => v = w

\* An opening that is still to come is owed as well.
OwedInv == ~overlapped /\ ~crossed => told <= owed /\ (NotesDue => told + 1 <= owed)

UpgradeInv == VersionsInv /\ NotesInv /\ OneTeller /\ OwedInv

\* A step that opens no notes, paints none and leaves the file alone.
LEMMA NothingNewOwed ==
  ASSUME OneTeller, OwedInv, overlapped => overlapped', crossed => crossed',
         told' = told, owed' = owed, UNCHANGED <<file, installed>>,
         \A v \in Windows : Telling(v)' => Telling(v)
  PROVE  OneTeller' /\ OwedInv'
PROOF
<1>1. FileTells' = FileTells
  BY DEF FileTells, UpgradedFrom
<1>2. NotesDue' => NotesDue
  BY <1>1 DEF NotesDue
<1>3. OwedInv'
  BY <1>2 DEF OwedInv
<1>4. OneTeller'
  BY DEF OneTeller
<1> QED
  BY <1>3, <1>4

\* What the windows tell is theirs alone: a window whose record stays tells as before.
LEMMA SameTelling ==
  ASSUME UNCHANGED installed, NEW v \in Windows,
         win'[v].notes = win[v].notes, win'[v].save = win[v].save,
         win'[v].existed = win[v].existed, win'[v].cfg = win[v].cfg
  PROVE  Telling(v)' = Telling(v)
  BY DEF Telling, UpgradedFrom

LEMMA OthersTelling ==
  ASSUME UNCHANGED installed, NEW w \in Windows, KeepsOthers(w)
  PROVE  \A v \in Windows : v # w => Telling(v)' = Telling(v)
  BY SameTelling DEF KeepsOthers

LEMMA UpgradeStep == TypeInv /\ SaveInv /\ UpgradeInv /\ [Next]_vars => UpgradeInv'
PROOF
<1> SUFFICES ASSUME TypeInv, SaveInv, UpgradeInv, [Next]_vars PROVE UpgradeInv'
  OBVIOUS
<1>0. /\ VersionsInv /\ NotesInv /\ OneTeller /\ OwedInv
      /\ told \in Nat /\ owed \in Nat /\ installed \in Nat /\ installed >= 1
  BY Parameters DEF UpgradeInv, TypeInv, TypeOK
<1>1. ASSUME NEW w \in Windows, Launch(w) \/ LaunchUnread(w) PROVE UpgradeInv'
  <2>1. /\ KeepsOthers(w) /\ win'[w].save = "loaded" /\ win'[w].notes = FALSE
        /\ win'[w].existed = (file.is # "missing")
        /\ Launch(w) => win'[w].cfg.version = file.cfg.version /\ owed' = owed
        /\ LaunchUnread(w) => owed' = owed + 1
        /\ crossed' = (crossed \/ \E v \in Others(w) : Telling(v))
        /\ UNCHANGED <<file, installed, told, overlapped>>
    BY <1>1, StartsMoves
  <2>2. VersionsInv' /\ NotesInv'
    BY <1>0, <2>1 DEF VersionsInv, NotesInv, KeepsOthers
  <2>3. \A v \in Windows : v # w => Telling(v)' = Telling(v)
    BY <2>1, OthersTelling
  <2>4. OneTeller'
    BY <1>0, <2>1, <2>3 DEF OneTeller, Others
  <2>5. FileTells' = FileTells
    BY <2>1 DEF FileTells, UpgradedFrom
  <2>6. CASE Launch(w)
    <3>1. Telling(w)' => FileTells
      BY <2>1, <2>6 DEF Telling, FileTells, UpgradedFrom
    <3>2. NotesDue' => NotesDue
      BY <2>3, <2>5, <3>1 DEF NotesDue
    <3> QED
      BY <1>0, <2>1, <2>2, <2>4, <2>6, <3>2 DEF UpgradeInv, OwedInv
  <2>7. CASE LaunchUnread(w)
    <3>1. owed' = owed + 1 /\ told' = told
      BY <2>1, <2>7
    <3>2. ~overlapped' /\ ~crossed' => told <= owed
      BY <1>0, <2>1 DEF OwedInv
    <3>3. OwedInv'
      BY <1>0, <3>1, <3>2 DEF OwedInv
    <3> QED
      BY <2>2, <2>4, <3>3 DEF UpgradeInv
  <2> QED
    BY <1>1, <2>6, <2>7
<1>2. ASSUME NEW w \in Windows, RecordRun(w) \/ Controls(w) PROVE UpgradeInv'
  <2>1. /\ KeepsOthers(w) /\ win'[w].save = "begun"
        /\ win'[w].notes => Telling(w)
        /\ win'[w].cfg.version = installed
        /\ UNCHANGED <<file, installed, told, owed, overlapped, crossed>>
    <3>1. CASE RecordRun(w)
      BY <3>1, RecordMoves DEF history
    <3>2. CASE Controls(w)
      <4>1. win[w].cfg.version = installed
        BY <1>0, <3>2 DEF VersionsInv, Controls, Idle
      <4> QED
        BY <3>2, <4>1 DEF Controls, KeepsOthers, history, Telling
    <3> QED
      BY <1>2, <3>1, <3>2
  <2>2. VersionsInv' /\ NotesInv'
    BY <1>0, <2>1 DEF VersionsInv, NotesInv, KeepsOthers
  <2>3. \A v \in Windows : Telling(v)' => Telling(v)
    <3>1. Telling(w)' => Telling(w)
      <4>1. Telling(w)' => win'[w].notes
        BY <2>1 DEF Telling
      <4> QED
        BY <2>1, <4>1
    <3> QED
      BY <2>1, <3>1, OthersTelling
  <2> QED
    BY <1>0, <2>1, <2>2, <2>3, NothingNewOwed DEF UpgradeInv
<1>3. ASSUME NEW w \in Windows, Exit(w) PROVE UpgradeInv'
  <2>1. /\ KeepsOthers(w) /\ win'[w].open = FALSE /\ win'[w].notes = FALSE
        /\ win'[w].save = "idle"
    BY <1>3, ExitMoves DEF Closed
  <2>2. UNCHANGED <<file, installed, told, owed, overlapped, crossed>>
    BY <1>3 DEF Exit, history
  <2>3. VersionsInv' /\ NotesInv'
    BY <1>0, <2>1, <2>2 DEF VersionsInv, NotesInv, KeepsOthers
  <2>4. \A v \in Windows : Telling(v)' => Telling(v)
    <3>1. ~Telling(w)'
      BY <2>1 DEF Telling
    <3> QED
      BY <2>1, <2>2, <3>1, OthersTelling
  <2> QED
    BY <1>0, <2>2, <2>3, <2>4, NothingNewOwed DEF UpgradeInv
<1>4. ASSUME NEW w \in Windows, SaveOpens(w) \/ SaveWrites(w) PROVE UpgradeInv'
  <2>1. /\ KeepsOthers(w) /\ Keeps(w) /\ win'[w].notes = win[w].notes
        /\ win'[w].save \in {"opened", "written"} /\ win[w].save \in {"begun", "opened"}
        /\ UNCHANGED <<installed, told, owed, crossed>>
        /\ overlapped => overlapped'
    BY <1>4, CallMoves DEF SaveCall
  <2>2. ~overlapped => file' = file
    <3>1. CASE SaveOpens(w)
      BY <3>1, CallMoves DEF SaveCall
    <3>2. CASE SaveWrites(w)
      <4>1. /\ win[w].save = "opened"
            /\ win[w].to = "tmp" /\ tmp.is # "whole" => file' = file
        BY <3>2, CallMoves DEF SaveCall
      <4> QED
        BY <4>1 DEF SaveInv, OneSaver, Torn
    <3> QED
      BY <1>4, <3>1, <3>2
  <2>3. VersionsInv' /\ NotesInv'
    BY <1>0, <2>1 DEF VersionsInv, NotesInv, KeepsOthers, Keeps
  <2>4. \A v \in Windows : Telling(v)' => Telling(v)
    <3>1. Telling(w)' => Telling(w)
      BY <2>1 DEF Telling
    <3> QED
      BY <2>1, <3>1, OthersTelling
  <2>5. CASE file' = file
    BY <1>0, <2>1, <2>3, <2>4, <2>5, NothingNewOwed DEF UpgradeInv
  <2>6. CASE overlapped
    BY <1>0, <2>1, <2>3, <2>4, <2>6 DEF UpgradeInv, OneTeller, OwedInv
  <2> QED
    BY <2>2, <2>5, <2>6
<1>4a. ASSUME NEW w \in Windows, SaveFails(w) PROVE UpgradeInv'
  <2>1. /\ KeepsOthers(w) /\ Keeps(w) /\ win'[w].save = "idle" /\ win'[w].notes = FALSE
        /\ win[w].save \in {"begun", "opened", "written"}
        /\ win[w].save # "opened" => UNCHANGED file
        /\ win[w].to = "tmp" => UNCHANGED file
        /\ told' = IF win[w].notes THEN told + 1 ELSE told
        /\ owed' = IF win[w].notes THEN owed + 1 ELSE owed
        /\ UNCHANGED <<installed, overlapped, crossed>>
    BY <1>4a, CallMoves DEF SaveCall
  <2>2. VersionsInv' /\ NotesInv'
    BY <1>0, <2>1 DEF VersionsInv, NotesInv, KeepsOthers, Keeps
  <2>3. \A v \in Windows : Telling(v)' => Telling(v)
    <3>1. ~Telling(w)'
      BY <2>1 DEF Telling
    <3> QED
      BY <2>1, <3>1, OthersTelling
  <2>4. OneTeller'
    BY <1>0, <2>1, <2>3 DEF OneTeller
  <2>5. OwedInv'
    <3> SUFFICES ASSUME ~overlapped, ~crossed
                 PROVE  told' <= owed' /\ (NotesDue' => told' + 1 <= owed')
      BY <2>1 DEF OwedInv
    <3>1. file' = file
      BY <2>1 DEF SaveInv, OneSaver
    <3>2. NotesDue' => NotesDue
      BY <2>1, <2>3, <3>1 DEF NotesDue, FileTells, UpgradedFrom
    <3>3. CASE win[w].notes
      <4>1. NotesDue
        BY <3>3 DEF NotesDue, Telling
      <4> QED
        BY <1>0, <2>1, <3>3, <4>1 DEF OwedInv
    <3>4. CASE ~win[w].notes
      BY <1>0, <2>1, <3>2, <3>4 DEF OwedInv
    <3> QED
      BY <3>3, <3>4
  <2> QED
    BY <2>2, <2>4, <2>5 DEF UpgradeInv
<1>5. ASSUME NEW w \in Windows, SaveRenames(w) PROVE UpgradeInv'
  <2>1. /\ \A v \in Windows : /\ Keeps(v)
                              /\ v # w => /\ win'[v].save = win[v].save
                                          /\ win'[v].existed = win[v].existed
                                          /\ win'[v].notes = win[v].notes
        /\ win[w].save = "written" /\ win'[w].save = "idle" /\ win'[w].notes = FALSE
        /\ win[w].open
        /\ told' = IF win[w].notes THEN told + 1 ELSE told
        /\ file' = tmp
        /\ UNCHANGED <<installed, owed, overlapped, crossed>>
    BY <1>5, SaveRenamesMoves
  <2>2. VersionsInv' /\ NotesInv'
    BY <1>0, <2>1 DEF VersionsInv, NotesInv, Keeps
  <2>3. ~Telling(w)' /\ \A v \in Windows : v # w => Telling(v)' = Telling(v)
    <3>1. ~Telling(w)'
      BY <2>1 DEF Telling
    <3>2. \A v \in Windows : v # w => Telling(v)' = Telling(v)
      BY <2>1, SameTelling DEF Keeps
    <3> QED
      BY <3>1, <3>2
  <2>4. OneTeller'
    BY <1>0, <2>1, <2>3 DEF OneTeller
  <2>5. OwedInv'
    <3> SUFFICES ASSUME ~overlapped, ~crossed
                 PROVE  told' <= owed' /\ (NotesDue' => told' + 1 <= owed')
      BY <2>1 DEF OwedInv
    <3>1. file' = Whole(win[w].cfg)
      BY <2>1 DEF SaveInv, OneSaver
    <3>2. win[w].cfg.version = installed
      BY <1>0, <2>1 DEF VersionsInv
    <3>3. ~FileTells'
      <4>1. file'.cfg.version = installed
        BY <3>1, <3>2 DEF Whole
      <4> QED
        BY <1>0, <2>1, <4>1 DEF FileTells, UpgradedFrom
    <3>4. NotesDue' => \E v \in Windows : v # w /\ Telling(v)
      BY <2>3, <3>3 DEF NotesDue
    <3>5. CASE win[w].notes
      <4>1. Telling(w) /\ NotesDue
        BY <3>5 DEF NotesDue, Telling
      <4>2. ~NotesDue'
        BY <1>0, <3>4, <4>1 DEF OneTeller
      <4> QED
        BY <1>0, <2>1, <3>5, <4>1, <4>2 DEF OwedInv
    <3>6. CASE ~win[w].notes
      <4>1. NotesDue' => NotesDue
        BY <3>4 DEF NotesDue
      <4> QED
        BY <1>0, <2>1, <3>6, <4>1 DEF OwedInv
    <3> QED
      BY <3>5, <3>6
  <2> QED
    BY <2>2, <2>4, <2>5 DEF UpgradeInv
<1>6. ASSUME NEW w \in Windows, PathWorker(w) \/ FeedReady(w) \/ FeedLost(w) \/ PollTheme(w)
      PROVE  UpgradeInv'
  <2>1. /\ KeepsOthers(w) /\ Keeps(w) /\ win'[w].save = win[w].save
        /\ win'[w].existed = win[w].existed /\ win'[w].notes = win[w].notes
        /\ UNCHANGED <<file, installed, told, owed, overlapped, crossed>>
    BY <1>6, QuietMoves DEF history
  <2>2. VersionsInv' /\ NotesInv'
    BY <1>0, <2>1 DEF VersionsInv, NotesInv, KeepsOthers, Keeps
  <2>3. \A v \in Windows : Telling(v)' = Telling(v)
    BY <2>1, SameTelling, OthersTelling DEF Keeps
  <2> QED
    BY <1>0, <2>1, <2>2, <2>3, NothingNewOwed DEF UpgradeInv
<1>7. CASE WindowsThemeFlips \/ HandEdit \/ Upgrade \/ UNCHANGED vars
  <2>1. UNCHANGED <<win, told, overlapped, crossed>>
    BY <1>7, WorldMoves
  <2>2. NotesInv'
    BY <1>0, <2>1 DEF NotesInv
  <2>3. installed' = installed \/ \A w \in Windows : win[w] = Closed
    BY <1>7 DEF WindowsThemeFlips, HandEdit, Upgrade, vars, TypeInv, ClosedInv
  <2>4. VersionsInv'
    BY <1>0, <2>1, <2>3 DEF VersionsInv, Closed
  <2>5. \A v \in Windows : Telling(v)' => Telling(v)
    <3>1. CASE installed' = installed
      BY <2>1, <3>1, SameTelling
    <3>2. CASE \A w \in Windows : win[w] = Closed
      BY <2>1, <3>2 DEF Telling, Closed
    <3> QED
      BY <2>3, <3>1, <3>2
  <2>6. OneTeller'
    BY <1>0, <2>1, <2>5 DEF OneTeller
  <2>7. OwedInv'
    <3>1. CASE owed' = owed + 1
      BY <1>0, <2>1, <3>1 DEF OwedInv
    <3>2. CASE owed' = owed /\ UNCHANGED <<file, installed>>
      BY <1>0, <2>1, <2>5, <3>2, NothingNewOwed
    <3>3. CASE owed' = owed /\ file.is = "whole" /\ UNCHANGED installed
               /\ \E v \in HandOpacities : file' = Whole([file.cfg EXCEPT !.opacity = v])
      <4>1. file'.is # "missing" /\ file'.cfg.version = file.cfg.version
        <5>1. file.cfg \in [theme: Themes, follow: BOOLEAN, refresh: Rates, opacity: 0..255,
                            cli: BOOLEAN, moved: SUBSET Plain, version: 0..MaxEvent + 1]
          BY DEF TypeInv, TypeOK, FileStates
        <5> QED
          BY <3>3, <5>1 DEF Whole
      <4>2. FileTells' = FileTells
        BY <3>3, <4>1 DEF FileTells, UpgradedFrom
      <4>3. NotesDue' => NotesDue
        BY <2>5, <4>2 DEF NotesDue
      <4> QED
        BY <1>0, <2>1, <3>3, <4>3 DEF OwedInv
    <3> QED
      BY <1>7, <3>1, <3>2, <3>3 DEF WindowsThemeFlips, HandEdit, Upgrade, vars, history
  <2> QED
    BY <2>2, <2>4, <2>6, <2>7 DEF UpgradeInv
<1> QED
  BY <1>1, <1>2, <1>3, <1>4, <1>5, <1>6, <1>7, <1>4a, ControlsMove DEF Next, TypeInv

LEMMA UpgradeStart == Init => UpgradeInv
PROOF
<1> SUFFICES ASSUME Init PROVE UpgradeInv
  OBVIOUS
<1>1. \A w \in Windows : win[w] = Closed
  BY DEF Init
<1>2. VersionsInv /\ NotesInv
  BY <1>1 DEF VersionsInv, NotesInv, Closed
<1>3. \A w \in Windows : ~Telling(w)
  BY <1>1 DEF Telling, Closed
<1>4. told = 0 /\ installed = 1 /\ owed \in {0, 1} /\ (file = Whole(Default) => owed = 1)
  BY DEF Init
<1>5. FileTells => owed = 1
  <2>1. CASE file = Missing
    BY <2>1 DEF FileTells, Missing
  <2>2. CASE file = Whole(Default)
    BY <1>4, <2>2
  <2>3. CASE file = Whole([Default EXCEPT !.version = 1])
    <3>1. file.cfg.version = 1
      BY <2>3 DEF Whole, Default
    <3> QED
      BY <1>4, <3>1 DEF FileTells, UpgradedFrom
  <2> QED
    BY <2>1, <2>2, <2>3 DEF Init
<1>6. OwedInv
  BY <1>3, <1>4, <1>5 DEF OwedInv, NotesDue
<1> QED
  BY <1>2, <1>3, <1>6 DEF UpgradeInv, OneTeller

\* The what's-new notes open once for each upgrade and each version that got lost (a
\* torn file, a read or a save that failed), never again: the launch that shows them
\* stamps the version it saves (record_run).  Two windows that load before either has
\* saved, or that save at once, are the exception.
THEOREM NotesOncePerUpgradeCorrect == Spec => []NotesOncePerUpgrade
PROOF
<1>1. UpgradeInv => NotesOncePerUpgrade
  BY DEF UpgradeInv, OwedInv, NotesOncePerUpgrade
<1> QED
  BY <1>1, TypeHolds, SaveHolds, UpgradeStart, UpgradeStep, PTL DEF Spec
=============================================================================
