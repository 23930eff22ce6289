------------------------- MODULE WindowMode_proofs -------------------------
(***************************************************************************)
(* For any monitors and any number of monitor changes, disturbances and    *)
(* launches: unless a save failed, the mode is on disk between two frames; *)
(* the strip puts back the rectangle the window had, and the full window   *)
(* comes out whole.                                                        *)
(*                                                                         *)
(* Between two frames nothing is queued.  Within one, what the window will *)
(* be is in the queue: the invariant says of each attribute what the last  *)
(* command for it leaves.                                                  *)
(***************************************************************************)
EXTENDS WindowMode, SequenceTheorems, TLAPS

Placed == {r \in Rects : r.kind \in {"home", "screen", "clamped"}}
Commands ==
  [set : {"decorated", "top", "fullscreen"}, to : BOOLEAN]
    \cup [set : {"min"}, to : {"full", "one"}] \cup [set : {"rect"}, to : Placed]
Apps ==
  [cfg : Configs, level : BOOLEAN, full : BOOLEAN, applied : BOOLEAN,
   restore : Rects \cup {NoRect}, placeDue : BOOLEAN,
   refreshed : {"never", "recent", "old"}, settings : BOOLEAN,
   strip : [dev : Monitors, original : SUBSET Overlay] \cup {NoStrip}, quit : BOOLEAN]
Windows ==
  [decorated : BOOLEAN, top : BOOLEAN, full : BOOLEAN, min : {"full", "one"},
   rect : Rects, under : Rects \cup {NoRect}, style : SUBSET Overlay, base : SUBSET Overlay]
Worlds == [app : Apps, os : Windows, disk : Configs, unsaved : BOOLEAN, cmds : Seq(Commands),
           fails : SUBSET Savers]

-----------------------------------------------------------------------------
(* Queues.                                                                 *)

\* A command for one of these attributes is waiting.
Queued(q, attributes) == \E k \in 1..Len(q) : q[k].set \in attributes

\* An attribute that is `now` has the value `last` once the queue is applied.
Ends(q, what, now, last) ==
  /\ ~Queued(q, {what}) => now = last
  /\ \A k \in 1..Len(q) :
       q[k].set = what /\ (\A j \in k + 1 .. Len(q) : q[j].set # what) => q[k].to = last

LEMMA CmdParts == \A what, value : Cmd(what, value).set = what /\ Cmd(what, value).to = value
  BY DEF Cmd

LEMMA SentParts ==
  ASSUME NEW q \in Seq(Commands), NEW cs \in Seq(Commands)
  PROVE  /\ q \o cs \in Seq(Commands)
         /\ Len(q \o cs) = Len(q) + Len(cs) /\ Len(q) \in Nat /\ Len(cs) \in Nat
         /\ \A k \in 1..Len(q) : (q \o cs)[k] = q[k]
         /\ \A k \in 1..Len(cs) : (q \o cs)[Len(q) + k] = cs[k]
         /\ \A k \in 1..Len(q \o cs) : k > Len(q) => (q \o cs)[k] = cs[k - Len(q)]
  BY ConcatProperties, LenProperties

LEMMA QueuedSent ==
  ASSUME NEW q \in Seq(Commands), NEW cs \in Seq(Commands), NEW attributes
  PROVE  Queued(q \o cs, attributes) <=> Queued(q, attributes) \/ Queued(cs, attributes)
PROOF
<1>1. /\ Len(q \o cs) = Len(q) + Len(cs) /\ Len(q) \in Nat /\ Len(cs) \in Nat
      /\ \A k \in 1..Len(q) : (q \o cs)[k] = q[k]
      /\ \A k \in 1..Len(cs) : (q \o cs)[Len(q) + k] = cs[k]
  BY SentParts
<1>2. \A k \in 1..Len(q \o cs) : k \in 1..Len(q) \/ \E j \in 1..Len(cs) : k = Len(q) + j
  <2> TAKE k \in 1..Len(q \o cs)
  <2>1. CASE k > Len(q)
    <3>1. k - Len(q) \in 1..Len(cs) /\ k = Len(q) + (k - Len(q))
      BY <1>1, <2>1
    <3> QED
      BY <3>1
  <2> QED
    BY <1>1, <2>1
<1>3. ASSUME Queued(q \o cs, attributes) PROVE Queued(q, attributes) \/ Queued(cs, attributes)
  <2>1. PICK k \in 1..Len(q \o cs) : (q \o cs)[k].set \in attributes
    BY <1>3 DEF Queued
  <2> QED
    BY <1>1, <1>2, <2>1 DEF Queued
<1>4. ASSUME Queued(q, attributes) PROVE Queued(q \o cs, attributes)
  <2>1. PICK k \in 1..Len(q) : q[k].set \in attributes
    BY <1>4 DEF Queued
  <2>2. k \in 1..Len(q \o cs) /\ (q \o cs)[k] = q[k]
    BY <1>1
  <2> QED
    BY <2>1, <2>2 DEF Queued
<1>5. ASSUME Queued(cs, attributes) PROVE Queued(q \o cs, attributes)
  <2>1. PICK k \in 1..Len(cs) : cs[k].set \in attributes
    BY <1>5 DEF Queued
  <2>2. Len(q) + k \in 1..Len(q \o cs) /\ (q \o cs)[Len(q) + k] = cs[k]
    BY <1>1
  <2> QED
    BY <2>1, <2>2 DEF Queued
<1> QED
  BY <1>3, <1>4, <1>5

\* Commands for other attributes change nothing about an attribute.
LEMMA EndsKept ==
  ASSUME NEW q \in Seq(Commands), NEW cs \in Seq(Commands), NEW what, NEW now, NEW last,
         Ends(q, what, now, last), ~Queued(cs, {what})
  PROVE  Ends(q \o cs, what, now, last)
PROOF
<1>1. /\ Len(q \o cs) = Len(q) + Len(cs) /\ Len(q) \in Nat /\ Len(cs) \in Nat
      /\ \A k \in 1..Len(q) : (q \o cs)[k] = q[k]
      /\ \A k \in 1..Len(q \o cs) : k > Len(q) => (q \o cs)[k] = cs[k - Len(q)]
  BY SentParts
<1>2. ~Queued(q \o cs, {what}) => now = last
  BY QueuedSent DEF Ends
<1>3. ASSUME NEW k \in 1..Len(q \o cs), (q \o cs)[k].set = what,
             \A j \in k + 1 .. Len(q \o cs) : (q \o cs)[j].set # what
      PROVE  (q \o cs)[k].to = last
  <2>1. k \in 1..Len(q)
    <3> SUFFICES ASSUME k > Len(q) PROVE FALSE
      BY <1>1
    <3>1. k - Len(q) \in 1..Len(cs) /\ cs[k - Len(q)].set = what
      BY <1>1, <1>3
    <3> QED
      BY <3>1 DEF Queued
  <2>2. q[k].set = what /\ \A j \in k + 1 .. Len(q) : q[j].set # what
    <3> SUFFICES ASSUME NEW j \in k + 1 .. Len(q) PROVE q[j].set # what
      BY <1>1, <1>3, <2>1
    <3>1. j \in 1..Len(q) /\ j \in k + 1 .. Len(q \o cs)
      BY <1>1
    <3> QED
      BY <1>1, <1>3, <3>1
  <2> QED
    BY <1>1, <2>1, <2>2 DEF Ends
<1> QED
  BY <1>2, <1>3 DEF Ends

\* Later commands for an attribute decide.
LEMMA EndsSent ==
  ASSUME NEW q \in Seq(Commands), NEW cs \in Seq(Commands), NEW what, NEW now, NEW last,
         NEW any, Ends(cs, what, any, last), Queued(cs, {what})
  PROVE  Ends(q \o cs, what, now, last)
PROOF
<1>1. /\ Len(q \o cs) = Len(q) + Len(cs) /\ Len(q) \in Nat /\ Len(cs) \in Nat
      /\ \A k \in 1..Len(q) : (q \o cs)[k] = q[k]
      /\ \A k \in 1..Len(cs) : (q \o cs)[Len(q) + k] = cs[k]
      /\ \A k \in 1..Len(q \o cs) : k > Len(q) => (q \o cs)[k] = cs[k - Len(q)]
  BY SentParts
<1>2. ASSUME NEW k \in 1..Len(q \o cs), (q \o cs)[k].set = what,
             \A j \in k + 1 .. Len(q \o cs) : (q \o cs)[j].set # what
      PROVE  (q \o cs)[k].to = last
  <2>1. PICK j \in 1..Len(cs) : cs[j].set = what
    BY DEF Queued
  <2>2. k > Len(q)
    <3> SUFFICES ASSUME k <= Len(q) PROVE FALSE
      BY <1>1
    <3>1. Len(q) + j \in k + 1 .. Len(q \o cs) /\ (q \o cs)[Len(q) + j].set = what
      BY <1>1, <2>1
    <3> QED
      BY <3>1, <1>2
  <2>3. k - Len(q) \in 1..Len(cs) /\ (q \o cs)[k] = cs[k - Len(q)]
    BY <1>1, <2>2
  <2>4. \A i \in (k - Len(q)) + 1 .. Len(cs) : cs[i].set # what
    <3> TAKE i \in (k - Len(q)) + 1 .. Len(cs)
    <3>1. Len(q) + i \in k + 1 .. Len(q \o cs) /\ i \in 1..Len(cs)
      BY <1>1, <2>3
    <3> QED
      BY <1>1, <1>2, <3>1
  <2> QED
    BY <2>3, <2>4, <1>2 DEF Ends
<1> QED
  BY <1>2, QueuedSent DEF Ends

\* Applying the first command leaves the rest to be applied.
LEMMA EndsApplied ==
  ASSUME NEW q \in Seq(Commands), q # <<>>, NEW what, NEW now, NEW last,
         Ends(q, what, now, last)
  PROVE  Ends(Tail(q), what, IF Head(q).set = what THEN Head(q).to ELSE now, last)
PROOF
<1>1. /\ Len(Tail(q)) = Len(q) - 1 /\ Len(q) \in Nat /\ Len(q) >= 1 /\ Head(q) = q[1]
      /\ \A k \in 1..Len(Tail(q)) : Tail(q)[k] = q[k + 1]
  BY HeadTailProperties, LenProperties, EmptySeq
<1>2. \A k \in 1..Len(q) : k = 1 \/ (k - 1 \in 1..Len(Tail(q)) /\ Tail(q)[k - 1] = q[k])
  BY <1>1
<1>3. ASSUME ~Queued(Tail(q), {what})
      PROVE  (IF Head(q).set = what THEN Head(q).to ELSE now) = last
  <2>1. \A k \in 2..Len(q) : q[k].set # what
    BY <1>1, <1>2, <1>3 DEF Queued
  <2>2. CASE q[1].set = what
    BY <1>1, <2>1, <2>2 DEF Ends
  <2>3. CASE q[1].set # what
    <3>1. ~Queued(q, {what})
      BY <1>1, <2>1, <2>3 DEF Queued
    <3> QED
      BY <1>1, <2>3, <3>1 DEF Ends
  <2> QED
    BY <2>2, <2>3
<1>4. ASSUME NEW k \in 1..Len(Tail(q)), Tail(q)[k].set = what,
             \A j \in k + 1 .. Len(Tail(q)) : Tail(q)[j].set # what
      PROVE  Tail(q)[k].to = last
  <2>1. k + 1 \in 1..Len(q) /\ q[k + 1].set = what
    BY <1>1, <1>4
  <2>2. \A j \in (k + 1) + 1 .. Len(q) : q[j].set # what
    <3> TAKE j \in (k + 1) + 1 .. Len(q)
    <3>1. j - 1 \in k + 1 .. Len(Tail(q)) /\ j - 1 \in 1..Len(Tail(q)) /\ q[j] = Tail(q)[j - 1]
      BY <1>1, <1>2
    <3> QED
      BY <3>1, <1>4
  <2> QED
    BY <1>1, <1>4, <2>1, <2>2 DEF Ends
<1> QED
  BY <1>3, <1>4 DEF Ends

LEMMA QueuedApplied ==
  ASSUME NEW q \in Seq(Commands), q # <<>>, NEW attributes, Queued(q, attributes),
         Head(q).set \notin attributes
  PROVE  Queued(Tail(q), attributes)
PROOF
<1>1. /\ Len(Tail(q)) = Len(q) - 1 /\ Len(q) \in Nat /\ Len(q) >= 1 /\ Head(q) = q[1]
      /\ \A k \in 1..Len(Tail(q)) : Tail(q)[k] = q[k + 1]
  BY HeadTailProperties, LenProperties, EmptySeq
<1>2. PICK k \in 1..Len(q) : q[k].set \in attributes
  BY DEF Queued
<1>3. k - 1 \in 1..Len(Tail(q)) /\ Tail(q)[k - 1] = q[k]
  BY <1>1, <1>2
<1> QED
  BY <1>2, <1>3 DEF Queued

LEMMA EndsEmpty ==
  /\ \A attributes : ~Queued(<<>>, attributes)
  /\ \A what, now, last : Ends(<<>>, what, now, last) <=> now = last
  BY DEF Ends, Queued

-----------------------------------------------------------------------------
(* The invariant, on a world: what the UI thread works on.                 *)

\* The file holds the configuration, unless the last save failed.
Kept(w) == w.unsaved \/ w.disk = w.app.cfg

\* The fields of PerfApp and the saved configuration: in the strip there is a
\* rectangle to put back, out of it nothing of the strip is left.
AppInv(w) ==
  /\ Kept(w)
  /\ w.app.applied => w.app.cfg.mini /\ ~w.app.full /\ w.app.restore \in Placed
  /\ ~w.app.applied => w.app.strip = NoStrip /\ ~w.app.placeDue /\ w.app.restore = NoRect

\* What the window is once the queue is applied.
QueueInv(w) ==
  /\ Ends(w.cmds, "min", w.os.min, IF w.app.applied THEN "one" ELSE "full")
  /\ Ends(w.cmds, "fullscreen", w.os.full, w.app.full)
  /\ ~w.app.applied => w.os.style = w.os.base \/ Queued(w.cmds, {"decorated", "top"})
  /\ ~w.app.applied /\ ~w.app.cfg.mini =>
       /\ Ends(w.cmds, "decorated", w.os.decorated, ~w.app.full)
       /\ \/ Ends(w.cmds, "top", w.os.top, w.app.level)
          \/ Ends(w.cmds, "top", w.os.top, w.app.cfg.onTop)

\* The strip's bar is never what fullscreen covers, and out of the strip it is gone
\* or a rectangle to replace it is waiting.
CoversPlaced(w) ==
  \A k \in 1..Len(w.cmds) : w.cmds[k].set = "fullscreen" /\ w.cmds[k].to =>
    /\ w.os.min = "full" /\ w.os.rect \in Placed
    /\ \A j \in 1..(k - 1) : w.cmds[j].set = "top"
RectInv(w) ==
  /\ w.os.full <=> w.os.under # NoRect
  /\ w.os.under \in Placed \cup {NoRect}
  /\ ~w.app.applied => w.os.rect \in Placed \/ Queued(w.cmds, {"rect"})
  /\ CoversPlaced(w)

WInv(w) == w \in Worlds /\ AppInv(w) /\ QueueInv(w) /\ RectInv(w)

\* Out of the strip no bar is left at all.
Clear(w) == ~w.app.applied => w.os.rect \in Placed

\* r is in the strip by an earlier entry, or entered it from w.
Remembers(w, r) ==
  r.app.applied => r.app.restore = IF w.app.applied THEN w.app.restore ELSE w.os.rect

\* A strip stands on the monitor the configuration names, and that one exists.
OnItsMonitor(w) ==
  w.app.strip # NoStrip => /\ w.app.cfg.monitor = w.app.strip.dev
                           /\ w.app.strip.dev \in monitors

-----------------------------------------------------------------------------
(* The steps of a pass.                                                    *)

\* A save changes the file or fails.
LEMMA SaveOutcome ==
  ASSUME NEW w \in Worlds, NEW saver, NEW r, r = Save(w, saver)
  PROVE  r \in Worlds /\ r.app = w.app /\ r.os = w.os /\ r.cmds = w.cmds /\ Kept(r)
PROOF
<1>1. w.app \in Apps /\ w.app.cfg \in Configs
  BY DEF Worlds, Apps
<1>2. CASE saver \in w.fails
  <2>1. r = [w EXCEPT !.unsaved = TRUE]
    BY <1>2 DEF Save
  <2> QED
    BY <2>1 DEF Worlds, Kept
<1>3. CASE saver \notin w.fails
  <2>1. r = [w EXCEPT !.disk = w.app.cfg, !.unsaved = FALSE]
    BY <1>3 DEF Save
  <2> QED
    BY <1>1, <2>1 DEF Worlds, Kept
<1> QED
  BY <1>2, <1>3

\* What enter_strip and leave_strip send.
Entering(full) ==
  (IF full THEN <<Cmd("fullscreen", FALSE)>> ELSE <<>>)
    \o <<Cmd("decorated", FALSE), Cmd("min", "one"), Cmd("top", TRUE)>>
Leaving(onTop, restore) ==
  <<Cmd("decorated", TRUE), Cmd("min", "full"), Cmd("top", onTop)>>
    \o (IF restore = NoRect THEN <<>> ELSE <<Cmd("rect", restore)>>)

LEMMA CmdTypes ==
  /\ \A to \in BOOLEAN : /\ Cmd("decorated", to) \in Commands /\ Cmd("top", to) \in Commands
                         /\ Cmd("fullscreen", to) \in Commands
  /\ \A to \in {"full", "one"} : Cmd("min", to) \in Commands
  /\ \A to \in Placed : Cmd("rect", to) \in Commands
  BY DEF Cmd, Commands

\* A queue of commands for different attributes sets each of them.
LEMMA OneCommand ==
  ASSUME NEW a \in Commands, NEW cs, cs = <<a>>
  PROVE  /\ cs \in Seq(Commands)
         /\ \A what : Queued(cs, {what}) <=> what = a.set
         /\ \A any : Ends(cs, a.set, any, a.to)
PROOF
<1>1. cs \in Seq(Commands) /\ Len(cs) = 1 /\ cs[1] = a
  OBVIOUS
<1>2. \A k \in 1..Len(cs) : k = 1
  BY <1>1
<1>3. 1 \in 1..Len(cs)
  BY <1>1
<1>4. \A what : Queued(cs, {what}) <=> what = a.set
  BY <1>1, <1>2, <1>3 DEF Queued
<1>5. \A k \in 1..Len(cs) : cs[k].to = a.to
  BY <1>1, <1>2
<1> QED
  BY <1>1, <1>4, <1>5 DEF Ends

LEMMA ThreeCommands ==
  ASSUME NEW a \in Commands, NEW b \in Commands, NEW c \in Commands, NEW cs, cs = <<a, b, c>>,
         a.set # b.set, a.set # c.set, b.set # c.set
  PROVE  /\ cs \in Seq(Commands)
         /\ \A what : Queued(cs, {what}) <=> what \in {a.set, b.set, c.set}
         /\ \A any : /\ Ends(cs, a.set, any, a.to)
                     /\ Ends(cs, b.set, any, b.to)
                     /\ Ends(cs, c.set, any, c.to)
PROOF
<1>1. cs \in Seq(Commands) /\ Len(cs) = 3 /\ cs[1] = a /\ cs[2] = b /\ cs[3] = c
  OBVIOUS
<1>2. \A k \in 1..Len(cs) : k = 1 \/ k = 2 \/ k = 3
  BY <1>1
<1>3. 1 \in 1..Len(cs) /\ 2 \in 1..Len(cs) /\ 3 \in 1..Len(cs)
  BY <1>1
<1>4. \A what : Queued(cs, {what}) <=> what \in {a.set, b.set, c.set}
  BY <1>1, <1>2, <1>3 DEF Queued
<1>5. \A k \in 1..Len(cs) : /\ cs[k].set = a.set => cs[k].to = a.to
                            /\ cs[k].set = b.set => cs[k].to = b.to
                            /\ cs[k].set = c.set => cs[k].to = c.to
  BY <1>1, <1>2
<1> QED
  BY <1>1, <1>4, <1>5 DEF Ends

\* No fullscreen is asked for.
Windowed(q) == \A k \in 1..Len(q) : ~(q[k].set = "fullscreen" /\ q[k].to)

LEMMA WindowedSent ==
  ASSUME NEW q \in Seq(Commands), NEW cs \in Seq(Commands), Windowed(q), Windowed(cs)
  PROVE  Windowed(q \o cs)
PROOF
<1>1. /\ Len(q \o cs) = Len(q) + Len(cs) /\ Len(q) \in Nat /\ Len(cs) \in Nat
      /\ \A k \in 1..Len(q) : (q \o cs)[k] = q[k]
      /\ \A k \in 1..Len(q \o cs) : k > Len(q) => (q \o cs)[k] = cs[k - Len(q)]
  BY SentParts
<1> SUFFICES ASSUME NEW k \in 1..Len(q \o cs)
             PROVE  ~((q \o cs)[k].set = "fullscreen" /\ (q \o cs)[k].to)
  BY DEF Windowed
<1>2. CASE k > Len(q)
  <2>1. k - Len(q) \in 1..Len(cs)
    BY <1>1, <1>2
  <2> QED
    BY <1>1, <1>2, <2>1 DEF Windowed
<1>3. CASE ~(k > Len(q))
  <2>1. k \in 1..Len(q)
    BY <1>1, <1>3
  <2> QED
    BY <1>1, <2>1 DEF Windowed
<1> QED
  BY <1>2, <1>3

\* Other attributes' commands ask for no fullscreen.
LEMMA OthersAreWindowed ==
  ASSUME NEW q \in Seq(Commands), ~Queued(q, {"fullscreen"})
  PROVE  Windowed(q)
  BY DEF Queued, Windowed

LEMMA EnteringSends ==
  ASSUME NEW full \in BOOLEAN, NEW cs, cs = Entering(full)
  PROVE  /\ cs \in Seq(Commands) /\ Windowed(cs)
         /\ Queued(cs, {"min"}) /\ \A any : Ends(cs, "min", any, "one")
         /\ full => Queued(cs, {"fullscreen"}) /\ \A any : Ends(cs, "fullscreen", any, FALSE)
         /\ ~full => ~Queued(cs, {"fullscreen"})
PROOF
<1> DEFINE a == Cmd("fullscreen", FALSE)
           b == Cmd("decorated", FALSE)
           c == Cmd("min", "one")
           d == Cmd("top", TRUE)
           tail == <<b, c, d>>
           head == <<a>>
<1>1. a \in Commands /\ b \in Commands /\ c \in Commands /\ d \in Commands
  BY CmdTypes
<1>2. /\ a.set = "fullscreen" /\ a.to = FALSE /\ b.set = "decorated"
      /\ c.set = "min" /\ c.to = "one" /\ d.set = "top"
  BY CmdParts
<1>3. cs = (IF full THEN head ELSE <<>>) \o tail
  BY DEF Entering
<1>4. /\ tail \in Seq(Commands) /\ Queued(tail, {"min"}) /\ ~Queued(tail, {"fullscreen"})
      /\ \A any : Ends(tail, "min", any, "one")
  <2>0. b.set # c.set /\ b.set # d.set /\ c.set # d.set /\ tail = <<b, c, d>>
    BY <1>2
  <2> HIDE DEF a, b, c, d, tail
  <2>1. tail \in Seq(Commands)
    BY <1>1, <2>0, ThreeCommands
  <2>2. \A what : Queued(tail, {what}) <=> what \in {b.set, c.set, d.set}
    BY <1>1, <2>0, ThreeCommands
  <2>3. \A any : Ends(tail, c.set, any, c.to)
    BY <1>1, <2>0, ThreeCommands
  <2> QED
    BY <1>2, <2>1, <2>2, <2>3
<1>5. /\ head \in Seq(Commands) /\ Queued(head, {"fullscreen"}) /\ ~Queued(head, {"min"})
      /\ \A any : Ends(head, "fullscreen", any, FALSE)
      /\ Windowed(head)
  <2> HIDE DEF a
  <2>1. /\ head \in Seq(Commands)
        /\ \A what : Queued(head, {what}) <=> what = a.set
        /\ \A any : Ends(head, a.set, any, a.to)
    BY <1>1, OneCommand
  <2>2. \A k \in 1..Len(head) : head[k] = a
    OBVIOUS
  <2> QED
    BY <1>2, <2>1, <2>2 DEF Windowed
<1> HIDE DEF a, b, c, d, tail, head
<1>6. Windowed(tail)
  BY <1>4, OthersAreWindowed
<1>7. CASE full
  <2>1. cs = head \o tail
    BY <1>3, <1>7
  <2>2. cs \in Seq(Commands) /\ Windowed(cs)
    BY <1>4, <1>5, <1>6, <2>1, WindowedSent, SentParts
  <2>3. Queued(cs, {"min"}) /\ Queued(cs, {"fullscreen"})
    BY <1>4, <1>5, <2>1, QueuedSent
  <2>4. ASSUME NEW any PROVE Ends(cs, "min", any, "one")
    BY <1>4, <1>5, <2>1, EndsSent
  <2>5. ASSUME NEW any PROVE Ends(cs, "fullscreen", any, FALSE)
    BY <1>4, <1>5, <2>1, EndsKept
  <2> QED
    BY <1>7, <2>2, <2>3, <2>4, <2>5
<1>8. CASE ~full
  <2>1. cs = tail
    BY <1>3, <1>4, <1>8, ConcatEmptySeq
  <2> QED
    BY <1>4, <1>6, <1>8, <2>1
<1> QED
  BY <1>7, <1>8

LEMMA LeavingSends ==
  ASSUME NEW onTop \in BOOLEAN, NEW restore \in Placed, NEW cs, cs = Leaving(onTop, restore)
  PROVE  /\ cs \in Seq(Commands) /\ Windowed(cs)
         /\ Queued(cs, {"min"}) /\ \A any : Ends(cs, "min", any, "full")
         /\ Queued(cs, {"decorated"}) /\ \A any : Ends(cs, "decorated", any, TRUE)
         /\ Queued(cs, {"top"}) /\ \A any : Ends(cs, "top", any, onTop)
         /\ Queued(cs, {"rect"}) /\ ~Queued(cs, {"fullscreen"})
PROOF
<1> DEFINE a == Cmd("decorated", TRUE)
           b == Cmd("min", "full")
           c == Cmd("top", onTop)
           d == Cmd("rect", restore)
           head == <<a, b, c>>
           tail == <<d>>
<1>1. a \in Commands /\ b \in Commands /\ c \in Commands /\ d \in Commands
  BY CmdTypes
<1>2. /\ a.set = "decorated" /\ a.to = TRUE /\ b.set = "min" /\ b.to = "full"
      /\ c.set = "top" /\ c.to = onTop /\ d.set = "rect"
  BY CmdParts
<1>3. cs = head \o tail
  <2>1. restore # NoRect
    BY DEF Placed, NoRect
  <2> QED
    BY <2>1 DEF Leaving
<1>4. /\ head \in Seq(Commands)
      /\ \A what : Queued(head, {what}) <=> what \in {"decorated", "min", "top"}
      /\ \A any : /\ Ends(head, "decorated", any, TRUE) /\ Ends(head, "min", any, "full")
                  /\ Ends(head, "top", any, onTop)
  <2>0. a.set # b.set /\ a.set # c.set /\ b.set # c.set /\ head = <<a, b, c>>
    BY <1>2
  <2> HIDE DEF a, b, c, d, head
  <2>1. head \in Seq(Commands)
    BY <1>1, <2>0, ThreeCommands
  <2>2. \A what : Queued(head, {what}) <=> what \in {a.set, b.set, c.set}
    BY <1>1, <2>0, ThreeCommands
  <2>3. \A any : Ends(head, a.set, any, a.to)
    BY <1>1, <2>0, ThreeCommands
  <2>4. \A any : Ends(head, b.set, any, b.to)
    BY <1>1, <2>0, ThreeCommands
  <2>5. \A any : Ends(head, c.set, any, c.to)
    BY <1>1, <2>0, ThreeCommands
  <2> QED
    BY <1>2, <2>1, <2>2, <2>3, <2>4, <2>5
<1>5. tail \in Seq(Commands) /\ \A what : Queued(tail, {what}) <=> what = "rect"
  <2> HIDE DEF d
  <2>1. tail \in Seq(Commands) /\ \A what : Queued(tail, {what}) <=> what = d.set
    BY <1>1, OneCommand
  <2> QED
    BY <1>2, <2>1
<1> HIDE DEF a, b, c, d, tail, head
<1>6. cs \in Seq(Commands)
  BY <1>3, <1>4, <1>5, SentParts
<1>7. \A what : Queued(cs, {what}) <=> what \in {"decorated", "min", "top", "rect"}
  <2> TAKE what
  <2>1. Queued(cs, {what}) <=> Queued(head, {what}) \/ Queued(tail, {what})
    BY <1>3, <1>4, <1>5, QueuedSent
  <2> QED
    BY <2>1, <1>4, <1>5
<1>8. ASSUME NEW any, NEW what \in {"decorated", "min", "top"}, NEW last,
             Ends(head, what, any, last)
      PROVE  Ends(cs, what, any, last)
  <2>1. ~Queued(tail, {what})
    BY <1>5
  <2> QED
    BY <1>3, <1>4, <1>5, <1>8, <2>1, EndsKept
<1>9. ~Queued(cs, {"fullscreen"}) /\ Windowed(cs)
  <2>1. ~Queued(cs, {"fullscreen"})
    BY <1>7
  <2> QED
    BY <1>6, <2>1, OthersAreWindowed
<1>10. \A any : /\ Ends(cs, "min", any, "full") /\ Ends(cs, "decorated", any, TRUE)
                /\ Ends(cs, "top", any, onTop)
  BY <1>4, <1>8
<1> QED
  BY <1>6, <1>7, <1>9, <1>10

\* A world's queue grows; fullscreen is not among the additions.
LEMMA CoversSent ==
  ASSUME NEW w, w.cmds \in Seq(Commands), CoversPlaced(w), NEW cs \in Seq(Commands),
         Windowed(cs), NEW r, r.cmds = w.cmds \o cs,
         w.os.min = "full" /\ w.os.rect \in Placed => r.os.min = "full" /\ r.os.rect \in Placed
  PROVE  CoversPlaced(r)
PROOF
<1>1. /\ Len(r.cmds) = Len(w.cmds) + Len(cs) /\ Len(w.cmds) \in Nat /\ Len(cs) \in Nat
      /\ \A k \in 1..Len(w.cmds) : r.cmds[k] = w.cmds[k]
      /\ \A k \in 1..Len(r.cmds) : k > Len(w.cmds) => r.cmds[k] = cs[k - Len(w.cmds)]
  BY SentParts
<1> SUFFICES ASSUME NEW k \in 1..Len(r.cmds), r.cmds[k].set = "fullscreen" /\ r.cmds[k].to
             PROVE  /\ r.os.min = "full" /\ r.os.rect \in Placed
                    /\ \A j \in 1..(k - 1) : r.cmds[j].set = "top"
  BY DEF CoversPlaced
<1>2. k \in 1..Len(w.cmds)
  <2> SUFFICES ASSUME k > Len(w.cmds) PROVE FALSE
    BY <1>1
  <2>1. k - Len(w.cmds) \in 1..Len(cs)
    BY <1>1
  <2> QED
    BY <1>1, <2>1 DEF Windowed
<1>3. w.cmds[k].set = "fullscreen" /\ w.cmds[k].to
  BY <1>1, <1>2
<1>4. \A j \in 1..(k - 1) : j \in 1..Len(w.cmds)
  BY <1>1, <1>2
<1>5. \A j \in 1..(k - 1) : r.cmds[j] = w.cmds[j]
  BY <1>1, <1>4
<1> QED
  BY <1>2, <1>3, <1>5 DEF CoversPlaced

-----------------------------------------------------------------------------
(* Into the strip and out of it.                                           *)

LEMMA EnteringKeeps ==
  ASSUME NEW w, WInv(w), Clear(w), ~w.app.applied, NEW r, r = EnterStrip(w)
  PROVE  /\ WInv(r) /\ r.os = w.os /\ r.app.strip = NoStrip
         /\ r.app.applied /\ r.app.restore = w.os.rect /\ ~r.app.settings
PROOF
<1> DEFINE cs == Entering(w.app.full)
           a == [w.app EXCEPT !.restore = w.os.rect, !.settings = FALSE, !.full = FALSE,
                   !.level = TRUE, !.placeDue = TRUE, !.refreshed = "never",
                   !.applied = TRUE, !.cfg.mini = TRUE]
           s == Send([w EXCEPT !.app = a], cs)
<1>1. /\ w \in Worlds /\ w.app \in Apps /\ w.os \in Windows /\ w.cmds \in Seq(Commands)
      /\ w.app.full \in BOOLEAN /\ w.os.rect \in Placed /\ w.app.restore = NoRect
  BY DEF WInv, Worlds, Apps, AppInv, Clear
<1>0. w.app.strip = NoStrip
  BY DEF WInv, AppInv
<1>2. r = Save(s, "intoStrip")
  BY <1>1 DEF EnterStrip, Entering
<1>3. /\ cs \in Seq(Commands) /\ Windowed(cs)
      /\ Queued(cs, {"min"}) /\ \A any : Ends(cs, "min", any, "one")
      /\ w.app.full => Queued(cs, {"fullscreen"}) /\ \A any : Ends(cs, "fullscreen", any, FALSE)
      /\ ~w.app.full => ~Queued(cs, {"fullscreen"})
  BY <1>1, EnteringSends
<1> HIDE DEF cs
<1>4. /\ a \in Apps /\ a.applied /\ a.cfg.mini /\ ~a.full /\ ~a.settings
      /\ a.restore = w.os.rect /\ a.strip = NoStrip
  <2> DEFINE b == w.app
             rect == w.os.rect
             cfg == [w.app.cfg EXCEPT !.mini = TRUE]
  <2>1. rect \in Rects /\ w.app.cfg \in Configs /\ b \in Apps
    BY <1>1 DEF Placed, Apps
  <2>2. cfg \in Configs /\ cfg.mini
    BY <2>1 DEF Configs
  <2>3. a = [b EXCEPT !.restore = rect, !.settings = FALSE, !.full = FALSE, !.level = TRUE,
               !.placeDue = TRUE, !.refreshed = "never", !.applied = TRUE, !.cfg = cfg]
    OBVIOUS
  <2> HIDE DEF a, b, rect, cfg
  <2>4. /\ a \in Apps /\ a.applied = TRUE /\ a.full = FALSE /\ a.settings = FALSE
        /\ a.restore = rect /\ a.cfg = cfg /\ a.strip = b.strip
    BY <2>1, <2>2, <2>3 DEF Apps
  <2> QED
    BY <1>0, <2>2, <2>4 DEF b, rect
<1> HIDE DEF a
<1>5. /\ s \in Worlds /\ s.app = a /\ s.os = w.os /\ s.cmds = w.cmds \o cs
      /\ s.cmds \in Seq(Commands)
  <2>1. s = [w EXCEPT !.app = a, !.cmds = w.cmds \o cs]
    BY <1>1 DEF Send, Worlds
  <2> HIDE DEF s
  <2>2. w.cmds \o cs \in Seq(Commands)
    BY <1>1, <1>3, SentParts
  <2> QED
    BY <1>1, <1>4, <2>1, <2>2 DEF Worlds
<1> HIDE DEF s
<1>6. /\ r \in Worlds /\ r.app = a /\ r.os = w.os /\ r.cmds = w.cmds \o cs
      /\ r.cmds \in Seq(Commands) /\ Kept(r)
  <2>1. r \in Worlds /\ r.app = s.app /\ r.os = s.os /\ r.cmds = s.cmds /\ Kept(r)
    BY <1>2, <1>5, SaveOutcome
  <2> QED
    BY <1>5, <2>1
<1>7. AppInv(r)
  BY <1>1, <1>4, <1>6 DEF AppInv
<1>8. Ends(r.cmds, "min", r.os.min, "one")
  BY <1>1, <1>3, <1>6, EndsSent
<1>9. Ends(r.cmds, "fullscreen", r.os.full, FALSE)
  <2>1. CASE w.app.full
    BY <1>1, <1>3, <1>6, <2>1, EndsSent
  <2>2. CASE ~w.app.full
    <3>1. Ends(w.cmds, "fullscreen", w.os.full, FALSE)
      BY <1>1, <2>2 DEF WInv, QueueInv
    <3> QED
      BY <1>1, <1>3, <1>6, <2>2, <3>1, EndsKept
  <2> QED
    BY <2>1, <2>2
<1>10. QueueInv(r)
  <2>1. r.app.full = FALSE
    BY <1>4, <1>6 DEF Apps
  <2> QED
    BY <1>4, <1>6, <1>8, <1>9, <2>1 DEF QueueInv
<1>11. CoversPlaced(r)
  BY <1>1, <1>3, <1>6, CoversSent DEF WInv, RectInv
<1>12. RectInv(r)
  BY <1>4, <1>6, <1>11 DEF WInv, RectInv
<1> QED
  BY <1>4, <1>6, <1>7, <1>10, <1>12 DEF WInv

LEMMA LeavingKeeps ==
  ASSUME NEW w, WInv(w), w.app.applied, NEW r, r = LeaveStrip(w)
  PROVE  WInv(r) /\ ~r.app.applied
PROOF
<1> DEFINE cs == Leaving(w.app.cfg.onTop, w.app.restore)
           s == Release(w)
           a == [s.app EXCEPT !.placeDue = FALSE, !.refreshed = "never",
                   !.level = w.app.cfg.onTop, !.restore = NoRect, !.applied = FALSE,
                   !.cfg.mini = FALSE]
           v == Send([s EXCEPT !.app = a], cs)
<1>1. /\ w \in Worlds /\ w.app \in Apps /\ w.os \in Windows /\ w.cmds \in Seq(Commands)
      /\ w.app.cfg \in Configs /\ w.app.cfg.onTop \in BOOLEAN
      /\ w.app.restore \in Placed /\ ~w.app.full
  BY DEF WInv, Worlds, Apps, AppInv, Configs
<1>2. /\ s.app = [w.app EXCEPT !.strip = NoStrip] /\ s.cmds = w.cmds
      /\ s \in Worlds /\ s.os \in Windows /\ s.os.rect = w.os.rect /\ s.os.min = w.os.min
      /\ s.os.full = w.os.full /\ s.os.under = w.os.under
  <2>1. CASE w.app.strip = NoStrip
    <3>1. s = w
      BY <2>1 DEF Release
    <3> QED
      BY <1>1, <2>1, <3>1 DEF Apps, Worlds
  <2>2. CASE w.app.strip # NoStrip
    <3>1. s = [w EXCEPT !.os.style = (w.os.style \ Overlay)
                                       \cup (w.app.strip.original \cap Overlay),
                        !.app.strip = NoStrip]
      BY <2>2 DEF Release
    <3> HIDE DEF s
    <3>2. s.app = [w.app EXCEPT !.strip = NoStrip] /\ s.app \in Apps
      BY <1>1, <3>1 DEF Worlds, Apps
    <3>3. /\ s.os = [w.os EXCEPT !.style = (w.os.style \ Overlay)
                                       \cup (w.app.strip.original \cap Overlay)]
          /\ s.os \in Windows
      BY <1>1, <3>1 DEF Worlds, Windows
    <3>4. s.cmds = w.cmds /\ s \in Worlds
      BY <1>1, <3>1, <3>2, <3>3 DEF Worlds
    <3> QED
      BY <1>1, <3>2, <3>3, <3>4 DEF Windows
  <2> QED
    BY <2>1, <2>2
<1>3. s.app.cfg = w.app.cfg /\ s.app.restore = w.app.restore
  BY <1>1, <1>2 DEF Apps
<1>4. r = Save(v, "other")
  BY <1>3 DEF LeaveStrip, Leaving
<1>5. /\ cs \in Seq(Commands) /\ Windowed(cs)
      /\ Queued(cs, {"min"}) /\ \A any : Ends(cs, "min", any, "full")
      /\ Queued(cs, {"decorated"}) /\ \A any : Ends(cs, "decorated", any, TRUE)
      /\ Queued(cs, {"top"}) /\ \A any : Ends(cs, "top", any, w.app.cfg.onTop)
      /\ Queued(cs, {"rect"}) /\ ~Queued(cs, {"fullscreen"})
  BY <1>1, LeavingSends
<1> HIDE DEF cs, s
<1>6. s.app \in Apps /\ s.app.strip = NoStrip /\ s.app.full = w.app.full
  BY <1>1, <1>2 DEF Worlds, Apps
<1>7. /\ a \in Apps /\ ~a.applied /\ ~a.cfg.mini /\ ~a.full
      /\ a.restore = NoRect /\ a.strip = NoStrip /\ ~a.placeDue
      /\ a.level = w.app.cfg.onTop
  <2>1. s.app.cfg \in Configs /\ [s.app.cfg EXCEPT !.mini = FALSE] \in Configs
    BY <1>6 DEF Apps, Configs
  <2>2. a = [s.app EXCEPT !.placeDue = FALSE, !.refreshed = "never",
                !.level = w.app.cfg.onTop, !.restore = NoRect, !.applied = FALSE,
                !.cfg = [s.app.cfg EXCEPT !.mini = FALSE]]
    OBVIOUS
  <2> HIDE DEF a
  <2>3. a \in Apps
    BY <1>1, <1>6, <2>1, <2>2 DEF Apps
  <2>4. /\ a.applied = FALSE /\ a.full = s.app.full /\ a.placeDue = FALSE
        /\ a.restore = NoRect /\ a.strip = s.app.strip
        /\ a.level = w.app.cfg.onTop /\ a.cfg = [s.app.cfg EXCEPT !.mini = FALSE]
    BY <1>6, <2>2 DEF Apps
  <2> QED
    BY <1>1, <1>6, <2>1, <2>3, <2>4 DEF Configs
<1> HIDE DEF a
<1>8. /\ v \in Worlds /\ v.app = a /\ v.os = s.os /\ v.cmds = w.cmds \o cs
      /\ v.cmds \in Seq(Commands)
  <2>1. v = [s EXCEPT !.app = a, !.cmds = w.cmds \o cs]
    BY <1>2 DEF Send, Worlds
  <2> HIDE DEF v
  <2>2. w.cmds \o cs \in Seq(Commands)
    BY <1>1, <1>5, SentParts
  <2> QED
    BY <1>2, <1>7, <2>1, <2>2 DEF Worlds
<1> HIDE DEF v
<1>9. /\ r \in Worlds /\ r.app = a /\ r.os = s.os /\ r.cmds = w.cmds \o cs
      /\ r.cmds \in Seq(Commands) /\ Kept(r)
  <2>1. r \in Worlds /\ r.app = v.app /\ r.os = v.os /\ r.cmds = v.cmds /\ Kept(r)
    BY <1>4, <1>8, SaveOutcome
  <2> QED
    BY <1>8, <2>1
<1>10. AppInv(r)
  BY <1>7, <1>9 DEF AppInv
<1>11. /\ Ends(r.cmds, "min", r.os.min, "full")
       /\ Ends(r.cmds, "decorated", r.os.decorated, TRUE)
       /\ Ends(r.cmds, "top", r.os.top, r.app.level)
  <2>1. Ends(w.cmds \o cs, "min", r.os.min, "full")
    BY <1>1, <1>5, EndsSent
  <2>2. Ends(w.cmds \o cs, "decorated", r.os.decorated, TRUE)
    BY <1>1, <1>5, EndsSent
  <2>3. Ends(w.cmds \o cs, "top", r.os.top, w.app.cfg.onTop)
    BY <1>1, <1>5, EndsSent
  <2> QED
    BY <1>7, <1>9, <2>1, <2>2, <2>3
<1>12. Ends(r.cmds, "fullscreen", r.os.full, FALSE)
  <2>1. Ends(w.cmds, "fullscreen", r.os.full, FALSE)
    <3>1. w.app.full = FALSE
      BY <1>1 DEF Apps
    <3> QED
      BY <1>2, <1>9, <3>1 DEF WInv, QueueInv
  <2>2. Ends(w.cmds \o cs, "fullscreen", r.os.full, FALSE)
    BY <1>1, <1>5, <2>1, EndsKept
  <2> QED
    BY <1>9, <2>2
<1>13. Queued(r.cmds, {"decorated", "top"}) /\ Queued(r.cmds, {"rect"})
  <2>1. Queued(cs, {"decorated", "top"})
    BY <1>5 DEF Queued
  <2> QED
    BY <1>1, <1>5, <1>9, <2>1, QueuedSent
<1>14. QueueInv(r)
  <2>1. r.app.full = FALSE
    BY <1>7, <1>9 DEF Apps
  <2> QED
    BY <1>7, <1>9, <1>11, <1>12, <1>13, <2>1, ~r.app.full = TRUE DEF QueueInv
<1>15. CoversPlaced(r)
  <2>1. CoversPlaced(w) /\ r.os.min = w.os.min /\ r.os.rect = w.os.rect
    BY <1>2, <1>9 DEF WInv, RectInv
  <2> QED
    BY <1>1, <1>5, <1>9, <2>1, CoversSent
<1>16. RectInv(r)
  BY <1>2, <1>9, <1>13, <1>15 DEF WInv, RectInv
<1> QED
  BY <1>7, <1>9, <1>10, <1>14, <1>16 DEF WInv

-----------------------------------------------------------------------------
(* A frame of the strip.                                                   *)

LEMMA PreferredIsPluggedIn ==
  ASSUME monitors \in (SUBSET Monitors) \ {{}}, NEW dev, NEW at
  PROVE  Preferred(dev, at) \in monitors
PROOF
<1>1. \E m \in monitors : TRUE
  OBVIOUS
<1>2. (CHOOSE m \in monitors : TRUE) \in monitors
  BY <1>1
<1> QED
  BY <1>2 DEF Preferred

\* In the strip: the window may be moved onto a band, restyled and put on top.
LEMMA MovedKeeps ==
  ASSUME NEW w, WInv(w), w.app.applied, NEW r, r \in Worlds, r.cmds = w.cmds,
         r.app.applied, r.app.cfg.mini, r.app.full = w.app.full,
         r.app.restore = w.app.restore, Kept(r),
         r.os.min = w.os.min, r.os.full = w.os.full, r.os.under = w.os.under,
         w.os.min = "full" /\ w.os.rect \in Placed => r.os.rect \in Placed
  PROVE  WInv(r)
PROOF
<1>1. AppInv(w) /\ QueueInv(w) /\ RectInv(w)
  BY DEF WInv
<1>2. AppInv(r)
  BY <1>1 DEF AppInv
<1>3. QueueInv(r)
  BY <1>1 DEF QueueInv
<1>4. CoversPlaced(r)
  BY <1>1 DEF CoversPlaced, RectInv
<1>5. RectInv(r)
  BY <1>1, <1>4 DEF RectInv
<1> QED
  BY <1>2, <1>3, <1>5 DEF WInv

\* Of the app, a move of the strip to m changes nothing else, and it moves only
\* a strip whose monitor is gone.
MovedTo(m, a, b) ==
  /\ a = [b EXCEPT !.strip = [b.strip EXCEPT !.dev = m]]
  /\ b.strip.dev \in monitors => m = b.strip.dev

LEMMA RepositionKeeps ==
  ASSUME monitors \in (SUBSET Monitors) \ {{}}, NEW w \in Worlds, NEW r, r = Reposition(w)
  PROVE  /\ r \in Worlds /\ r.cmds = w.cmds /\ r.disk = w.disk /\ r.unsaved = w.unsaved
         /\ \E m \in monitors : MovedTo(m, r.app, w.app)
         /\ r.os.min = w.os.min /\ r.os.full = w.os.full /\ r.os.under = w.os.under
         /\ w.os.min = "full" => r.os.rect \in Placed
PROOF
<1>1. PICK m \in monitors : /\ m = Preferred(w.app.strip.dev, w.os.rect.at)
                            /\ w.app.strip.dev \in monitors => m = w.app.strip.dev
  BY PreferredIsPluggedIn DEF Preferred
<1> DEFINE rect == [kind |-> IF w.os.min = "one" THEN "band" ELSE "clamped", at |-> m]
           strip == [w.app.strip EXCEPT !.dev = m]
<1>2. r = [w EXCEPT !.app.strip.dev = m, !.os.top = TRUE, !.os.rect = rect]
  BY <1>1 DEF Reposition
<1>3. w.app \in Apps /\ w.os \in Windows /\ m \in Monitors
  BY DEF Worlds
<1>4. strip \in [dev : Monitors, original : SUBSET Overlay]
  <2>1. w.app.strip \in [dev : Monitors, original : SUBSET Overlay] \cup {NoStrip}
    BY <1>3 DEF Apps
  <2>2. /\ w.app.strip = [dev |-> w.app.strip.dev, original |-> w.app.strip.original]
        /\ w.app.strip.original \in SUBSET Overlay
    BY <2>1 DEF NoStrip
  <2> QED
    BY <1>3, <2>2
<1>5. rect \in Rects /\ (w.os.min = "full" => rect \in Placed)
  BY <1>3 DEF Rects, Placed
<1> HIDE DEF rect, strip
<1>6. r.app = [w.app EXCEPT !.strip = strip]
  BY <1>2 DEF Worlds, strip
<1>7. r.os = [w.os EXCEPT !.top = TRUE, !.rect = rect]
  BY <1>2 DEF Worlds
<1>8. r.cmds = w.cmds /\ r.disk = w.disk /\ r.unsaved = w.unsaved
  BY <1>2 DEF Worlds
<1>9. r.app \in Apps
  BY <1>3, <1>4, <1>6 DEF Apps
<1>10. r.os \in Windows
  BY <1>3, <1>5, <1>7 DEF Windows
<1>11. r \in Worlds
  BY <1>2, <1>9, <1>10, <1>8 DEF Worlds
<1>12. r.os.min = w.os.min /\ r.os.full = w.os.full /\ r.os.under = w.os.under /\ r.os.rect = rect
  BY <1>3, <1>7 DEF Windows
<1> QED
  BY <1>1, <1>5, <1>6, <1>8, <1>11, <1>12 DEF strip, MovedTo

LEMMA RefreshKeeps ==
  ASSUME monitors \in (SUBSET Monitors) \ {{}}, NEW w \in Worlds, NEW r, r = Refresh(w)
  PROVE  /\ r \in Worlds /\ r.cmds = w.cmds /\ r.disk = w.disk /\ r.unsaved = w.unsaved
         /\ \E m \in monitors : MovedTo(m, r.app, w.app)
         /\ r.os.min = w.os.min /\ r.os.full = w.os.full /\ r.os.under = w.os.under
         /\ w.os.min = "full" => r.os.rect \in Placed
PROOF
<1> DEFINE s == Reposition(w)
<1>1. /\ s \in Worlds /\ s.cmds = w.cmds /\ s.disk = w.disk /\ s.unsaved = w.unsaved
      /\ \E m \in monitors : MovedTo(m, s.app, w.app)
      /\ s.os.min = w.os.min /\ s.os.full = w.os.full /\ s.os.under = w.os.under
      /\ w.os.min = "full" => s.os.rect \in Placed
  BY RepositionKeeps
<1>2. r = [s EXCEPT !.os.style = s.os.style \cup Overlay]
  BY DEF Refresh
<1> HIDE DEF s
<1>3. s.os \in Windows
  BY <1>1 DEF Worlds
<1>4. r.os = [s.os EXCEPT !.style = s.os.style \cup Overlay] /\ r.os \in Windows
  <2>1. r.os = [s.os EXCEPT !.style = s.os.style \cup Overlay]
    BY <1>1, <1>2 DEF Worlds
  <2> QED
    BY <1>3, <2>1 DEF Windows
<1>5. /\ r.app = s.app /\ r.cmds = s.cmds /\ r.disk = s.disk /\ r.unsaved = s.unsaved
      /\ r \in Worlds
  BY <1>1, <1>2, <1>4 DEF Worlds
<1>6. r.os.min = s.os.min /\ r.os.full = s.os.full /\ r.os.under = s.os.under /\ r.os.rect = s.os.rect
  BY <1>3, <1>4 DEF Windows
<1> QED
  BY <1>1, <1>5, <1>6

LEMMA PlacedNow ==
  ASSUME NEW a \in Apps
  PROVE  [a EXCEPT !.placeDue = FALSE] \in Apps
  BY DEF Apps

LEMMA PlaceStripKeeps ==
  ASSUME monitors \in (SUBSET Monitors) \ {{}}, NEW w, WInv(w), w.app.applied,
         NEW r, r = PlaceStrip(w)
  PROVE  WInv(r) /\ r.app.applied /\ r.app.restore = w.app.restore /\ OnItsMonitor(r)
PROOF
<1> DEFINE w1 == [w EXCEPT !.app.placeDue = FALSE]
           strip == [dev |-> Preferred(w1.app.cfg.monitor, w1.os.rect.at),
                     original |-> w1.os.style]
           w2 == [w1 EXCEPT !.app.strip = strip, !.os.style = w1.os.style \cup Overlay]
           a == Refresh(w2)
<1>1. /\ w \in Worlds /\ w.app \in Apps /\ w.os \in Windows /\ AppInv(w)
      /\ w.app.cfg \in Configs
  BY DEF WInv, Worlds, Apps
<1>2. /\ w1.app = [w.app EXCEPT !.placeDue = FALSE] /\ w1.app \in Apps
      /\ w1.os = w.os /\ w1.cmds = w.cmds /\ w1.disk = w.disk /\ w1.unsaved = w.unsaved
      /\ w1 \in Worlds
  <2>1. w1.app = [w.app EXCEPT !.placeDue = FALSE]
    BY <1>1 DEF Worlds
  <2>2. w1.app \in Apps
    BY <1>1, <2>1, PlacedNow
  <2> QED
    BY <1>1, <2>1, <2>2 DEF Worlds
<1> HIDE DEF w1
<1>3. /\ w1.app.cfg = w.app.cfg /\ w1.app.full = w.app.full
      /\ w1.app.applied = w.app.applied /\ w1.app.restore = w.app.restore
  BY <1>1, <1>2 DEF Apps
<1>4. strip \in [dev : Monitors, original : SUBSET Overlay]
  BY <1>1, <1>2, PreferredIsPluggedIn DEF Windows
<1> HIDE DEF strip
<1>5. /\ w2.app = [w1.app EXCEPT !.strip = strip] /\ w2.app \in Apps
      /\ w2.os = [w.os EXCEPT !.style = w.os.style \cup Overlay] /\ w2.os \in Windows
      /\ w2.cmds = w.cmds /\ w2.disk = w.disk /\ w2.unsaved = w.unsaved /\ w2 \in Worlds
  <2>1. w2.app = [w1.app EXCEPT !.strip = strip]
    BY <1>2 DEF Worlds
  <2>2. w2.app \in Apps
    <3> HIDE DEF w2
    <3> QED
      BY <1>2, <1>4, <2>1 DEF Apps
  <2>3. w2.os = [w.os EXCEPT !.style = w.os.style \cup Overlay]
    BY <1>2 DEF Worlds
  <2>4. w2.os \in Windows
    BY <1>1, <2>3 DEF Windows
  <2>5. w2.cmds = w.cmds /\ w2.disk = w.disk /\ w2.unsaved = w.unsaved
    BY <1>2 DEF Worlds
  <2>6. w2 \in Worlds
    BY <1>2, <2>1, <2>2, <2>4 DEF Worlds
  <2> QED
    BY <2>1, <2>2, <2>3, <2>4, <2>5, <2>6
<1> HIDE DEF w2
<1>6. /\ w2.os.min = w.os.min /\ w2.os.full = w.os.full
      /\ w2.os.under = w.os.under /\ w2.os.rect = w.os.rect
  BY <1>1, <1>5 DEF Windows
<1>7. /\ w2.app.cfg = w.app.cfg /\ w2.app.full = w.app.full
      /\ w2.app.applied = w.app.applied /\ w2.app.restore = w.app.restore
  <2>1. /\ w2.app.cfg = w1.app.cfg /\ w2.app.full = w1.app.full
        /\ w2.app.applied = w1.app.applied /\ w2.app.restore = w1.app.restore
    BY <1>2, <1>5 DEF Apps
  <2> QED
    BY <1>3, <2>1
<1>8. /\ a \in Worlds /\ a.cmds = w2.cmds /\ a.disk = w2.disk /\ a.unsaved = w2.unsaved
      /\ \E m \in monitors : MovedTo(m, a.app, w2.app)
      /\ a.os.min = w2.os.min /\ a.os.full = w2.os.full /\ a.os.under = w2.os.under
      /\ w2.os.min = "full" => a.os.rect \in Placed
  BY <1>5, RefreshKeeps
<1>10. a = Attach(w1)
  BY DEF w2, strip, Attach
<1> HIDE DEF a
<1>9. /\ a.app.cfg = w.app.cfg /\ a.app.full = w.app.full
      /\ a.app.applied = w.app.applied /\ a.app.restore = w.app.restore
  <2>1. /\ a.app.cfg = w2.app.cfg /\ a.app.full = w2.app.full
        /\ a.app.applied = w2.app.applied /\ a.app.restore = w2.app.restore
    BY <1>5, <1>8 DEF Apps, MovedTo
  <2> QED
    BY <1>7, <2>1
<1>11. r = IF a.app.cfg.monitor = a.app.strip.dev THEN a
           ELSE Save([a EXCEPT !.app.cfg.monitor = a.app.strip.dev], "intoStrip")
  BY <1>10 DEF PlaceStrip, w1
<1>12. PICK m \in monitors : a.app.strip = [w2.app.strip EXCEPT !.dev = m]
  BY <1>5, <1>8 DEF Apps, MovedTo
<1>13. a.app.strip.dev \in monitors /\ a.app.strip.dev \in Monitors
  BY <1>4, <1>5, <1>12 DEF Apps
<1>0. /\ a.os.min = w.os.min /\ a.os.full = w.os.full /\ a.os.under = w.os.under
      /\ w.os.min = "full" /\ w.os.rect \in Placed => a.os.rect \in Placed
      /\ a.cmds = w.cmds /\ w.app.cfg.mini /\ Kept(a)
  BY <1>1, <1>5, <1>6, <1>8, <1>9 DEF AppInv, Kept
<1>14. CASE a.app.cfg.monitor = a.app.strip.dev
  <2>1. r = a
    BY <1>11, <1>14
  <2>2. WInv(r)
    BY <1>0, <1>8, <1>9, <2>1, MovedKeeps
  <2> QED
    BY <1>9, <1>13, <1>14, <2>1, <2>2 DEF OnItsMonitor
<1>15. CASE a.app.cfg.monitor # a.app.strip.dev
  <2> DEFINE cfg == [a.app.cfg EXCEPT !.monitor = a.app.strip.dev]
             v == [a EXCEPT !.app = [a.app EXCEPT !.cfg = cfg]]
  <2>1. /\ a.app \in Apps /\ cfg \in Configs /\ cfg.mini = w.app.cfg.mini
        /\ cfg.monitor = a.app.strip.dev
    BY <1>1, <1>8, <1>9, <1>13 DEF Worlds, Configs
  <2>2. r = Save(v, "intoStrip")
    BY <1>8, <1>11, <1>15 DEF Worlds
  <2> HIDE DEF cfg
  <2>3. v.app = [a.app EXCEPT !.cfg = cfg] /\ v.os = a.os /\ v.cmds = a.cmds
    BY <1>8 DEF Worlds
  <2>5. v \in Worlds
    <3>1. [a.app EXCEPT !.cfg = cfg] \in Apps
      BY <2>1 DEF Apps
    <3> QED
      BY <1>8, <3>1 DEF Worlds
  <2> HIDE DEF v
  <2>6. /\ v.app.cfg = cfg /\ v.app.full = w.app.full /\ v.app.strip = a.app.strip
        /\ v.app.applied = w.app.applied /\ v.app.restore = w.app.restore
    BY <1>9, <2>1, <2>3 DEF Apps
  <2>7. r \in Worlds /\ r.app = v.app /\ r.os = a.os /\ r.cmds = w.cmds /\ Kept(r)
    BY <1>0, <2>2, <2>3, <2>5, SaveOutcome
  <2>8. /\ r.os.min = w.os.min /\ r.os.full = w.os.full /\ r.os.under = w.os.under
        /\ w.os.min = "full" /\ w.os.rect \in Placed => r.os.rect \in Placed
        /\ r.app.cfg.mini /\ r.app.applied
    BY <1>0, <2>1, <2>6, <2>7
  <2>9. WInv(r)
    BY <2>6, <2>7, <2>8, MovedKeeps
  <2> QED
    BY <1>13, <2>1, <2>6, <2>7, <2>9 DEF OnItsMonitor
<1> QED
  BY <1>14, <1>15

\* A step that touches no field of the invariant's.
SameModes(a, b) ==
  /\ a.cfg = b.cfg /\ a.level = b.level /\ a.full = b.full /\ a.applied = b.applied
  /\ a.restore = b.restore /\ a.strip = b.strip /\ a.placeDue = b.placeDue

LEMMA OtherFieldsKeep ==
  ASSUME NEW w, WInv(w), NEW r, r \in Worlds, SameModes(r.app, w.app),
         r.os = w.os, r.cmds = w.cmds, r.disk = w.disk, r.unsaved = w.unsaved
  PROVE  WInv(r)
PROOF
<1>1. AppInv(w) /\ QueueInv(w) /\ RectInv(w)
  BY DEF WInv
<1>2. AppInv(r)
  BY <1>1 DEF AppInv, Kept, SameModes
<1>3. QueueInv(r)
  BY <1>1 DEF QueueInv, SameModes
<1>4. RectInv(r)
  BY <1>1 DEF RectInv, CoversPlaced, SameModes
<1> QED
  BY <1>2, <1>3, <1>4 DEF WInv

LEMMA RecentKeeps ==
  ASSUME NEW w, WInv(w), NEW r, r = [w EXCEPT !.app = [w.app EXCEPT !.refreshed = "recent"]]
  PROVE  /\ WInv(r) /\ r.os = w.os /\ r.cmds = w.cmds
         /\ r.app.applied = w.app.applied /\ r.app.restore = w.app.restore
         /\ r.app.strip = w.app.strip /\ r.app.cfg = w.app.cfg
PROOF
<1>1. w \in Worlds /\ w.app \in Apps
  BY DEF WInv, Worlds
<1>2. /\ r.app = [w.app EXCEPT !.refreshed = "recent"] /\ r.os = w.os /\ r.cmds = w.cmds
      /\ r.disk = w.disk /\ r.unsaved = w.unsaved
  BY <1>1 DEF Worlds
<1>3. r.app \in Apps /\ SameModes(r.app, w.app)
  BY <1>1, <1>2 DEF Apps, SameModes
<1>4. r \in Worlds
  BY <1>1, <1>3 DEF Worlds
<1> QED
  BY <1>2, <1>3, <1>4, OtherFieldsKeep DEF SameModes

LEMMA QuittingKeeps ==
  ASSUME NEW w, WInv(w), NEW r, r = [w EXCEPT !.app = [w.app EXCEPT !.quit = TRUE]]
  PROVE  /\ WInv(r) /\ r.app.applied = w.app.applied /\ r.app.restore = w.app.restore
         /\ r.app.strip = w.app.strip /\ r.app.cfg = w.app.cfg
PROOF
<1>1. w \in Worlds /\ w.app \in Apps
  BY DEF WInv, Worlds
<1>2. /\ r.app = [w.app EXCEPT !.quit = TRUE] /\ r.os = w.os /\ r.cmds = w.cmds
      /\ r.disk = w.disk /\ r.unsaved = w.unsaved
  BY <1>1 DEF Worlds
<1>3. r.app \in Apps /\ SameModes(r.app, w.app)
  <2>1. [w.app EXCEPT !.quit = TRUE] \in Apps
    BY <1>1 DEF Apps
  <2>2. SameModes([w.app EXCEPT !.quit = TRUE], w.app)
    BY <1>1 DEF Apps, SameModes
  <2> QED
    BY <1>2, <2>1, <2>2
<1>4. r \in Worlds
  BY <1>1, <1>3 DEF Worlds
<1> QED
  BY <1>2, <1>3, <1>4, OtherFieldsKeep DEF SameModes

LEMMA StripFrameKeeps ==
  ASSUME monitors \in (SUBSET Monitors) \ {{}}, NEW w, WInv(w), w.app.applied,
         NEW key, NEW click, NEW fresh, NEW r, r = StripFrame(w, key, click, fresh)
  PROVE  /\ WInv(r) /\ (r.app.applied => r.app.restore = w.app.restore)
         /\ OnItsMonitor(w) => OnItsMonitor(r)
PROOF
<1>0. ASSUME NEW s, WInv(s), s.app.applied, r = LeaveStrip(s)
      PROVE  WInv(r) /\ ~r.app.applied /\ OnItsMonitor(r)
  <2>1. WInv(r) /\ ~r.app.applied
    BY <1>0, LeavingKeeps
  <2> QED
    BY <2>1 DEF WInv, AppInv, OnItsMonitor
<1>1. CASE key = "CtrlM"
  <2>1. r = LeaveStrip(w)
    BY <1>1 DEF StripFrame
  <2> QED
    BY <1>0, <2>1
<1>2. CASE key # "CtrlM"
  <2> DEFINE p == IF w.app.placeDue /\ ~fresh THEN PlaceStrip(w) ELSE w
             s == CASE p.app.refreshed = "recent" -> p
                    [] p.app.refreshed # "recent" /\ p.app.strip = NoStrip ->
                         [p EXCEPT !.app.refreshed = "recent"]
                    [] OTHER -> [Refresh(p) EXCEPT !.app.refreshed = "recent"]
  <2>1. r = CASE click = "expand" -> LeaveStrip(s)
              [] click = "close"  -> [s EXCEPT !.app.quit = TRUE]
              [] OTHER -> s
    BY <1>2 DEF StripFrame
  <2>2. /\ WInv(p) /\ p.app.applied /\ p.app.restore = w.app.restore
        /\ OnItsMonitor(w) => OnItsMonitor(p)
    BY PlaceStripKeeps
  <2> HIDE DEF p
  <2>3. /\ WInv(s) /\ s.app.applied /\ s.app.restore = w.app.restore
        /\ OnItsMonitor(w) => OnItsMonitor(s)
    <3>1. p \in Worlds /\ AppInv(p)
      BY <2>2 DEF WInv
    <3>2. CASE p.app.refreshed = "recent"
      BY <2>2, <3>2
    <3>3. CASE p.app.refreshed # "recent" /\ p.app.strip = NoStrip
      <4>1. s = [p EXCEPT !.app = [p.app EXCEPT !.refreshed = "recent"]]
        BY <3>1, <3>3 DEF Worlds
      <4> HIDE DEF s
      <4> QED
        BY <2>2, <4>1, RecentKeeps DEF OnItsMonitor
    <3>4. CASE p.app.refreshed # "recent" /\ p.app.strip # NoStrip
      <4> DEFINE f == Refresh(p)
      <4>1. s = [f EXCEPT !.app = [f.app EXCEPT !.refreshed = "recent"]]
        BY <3>4
      <4>2. /\ f \in Worlds /\ f.cmds = p.cmds /\ f.disk = p.disk /\ f.unsaved = p.unsaved
            /\ \E m \in monitors : MovedTo(m, f.app, p.app)
            /\ f.os.min = p.os.min /\ f.os.full = p.os.full /\ f.os.under = p.os.under
            /\ p.os.min = "full" => f.os.rect \in Placed
        BY <3>1, RefreshKeeps
      <4> HIDE DEF f, s
      <4>3. /\ f.app.cfg = p.app.cfg /\ f.app.full = p.app.full
            /\ f.app.applied = p.app.applied /\ f.app.restore = p.app.restore
            /\ p.app.strip.dev \in monitors => f.app.strip.dev = p.app.strip.dev
        <5>1. p.app \in Apps /\ p.app.strip \in [dev : Monitors, original : SUBSET Overlay]
          BY <3>1, <3>4 DEF Worlds, Apps
        <5>2. PICK m \in monitors : MovedTo(m, f.app, p.app)
          BY <4>2
        <5>3. f.app = [p.app EXCEPT !.strip = [p.app.strip EXCEPT !.dev = m]]
          BY <5>2 DEF MovedTo
        <5>4. f.app.strip = [p.app.strip EXCEPT !.dev = m] /\ f.app.strip.dev = m
          BY <5>1, <5>3 DEF Apps
        <5> QED
          BY <5>1, <5>2, <5>3, <5>4 DEF Apps, MovedTo
      <4>4. Kept(f) /\ f.app.cfg.mini /\ f.app.applied
        BY <2>2, <3>1, <4>2, <4>3 DEF AppInv, Kept
      <4>5. WInv(f)
        BY <2>2, <4>2, <4>3, <4>4, MovedKeeps
      <4>6. OnItsMonitor(p) => OnItsMonitor(f)
        BY <3>4, <4>3 DEF OnItsMonitor
      <4>7. /\ WInv(s) /\ s.app.applied = f.app.applied /\ s.app.restore = f.app.restore
            /\ s.app.strip = f.app.strip /\ s.app.cfg = f.app.cfg
        BY <4>1, <4>5, RecentKeeps
      <4> QED
        BY <2>2, <4>3, <4>4, <4>6, <4>7 DEF OnItsMonitor
    <3> QED
      BY <3>2, <3>3, <3>4
  <2> HIDE DEF s
  <2>4. CASE click = "expand"
    <3>1. r = LeaveStrip(s)
      BY <2>1, <2>4
    <3> QED
      BY <1>0, <2>3, <3>1
  <2>5. CASE click = "close"
    <3>1. r = [s EXCEPT !.app = [s.app EXCEPT !.quit = TRUE]]
      BY <2>1, <2>5
    <3> QED
      <4>1. /\ WInv(r) /\ r.app.applied = s.app.applied /\ r.app.restore = s.app.restore
            /\ r.app.strip = s.app.strip /\ r.app.cfg = s.app.cfg
        BY <2>3, <3>1, QuittingKeeps
      <4> QED
        BY <2>3, <4>1 DEF OnItsMonitor
  <2>6. CASE click \notin {"expand", "close"}
    BY <2>1, <2>3, <2>6
  <2> QED
    BY <2>4, <2>5, <2>6
<1> QED
  BY <1>1, <1>2

-----------------------------------------------------------------------------
(* A frame of the full window.                                             *)

LEMMA TwoCommands ==
  ASSUME NEW a \in Commands, NEW b \in Commands, NEW cs, cs = <<a, b>>, a.set # b.set
  PROVE  /\ cs \in Seq(Commands) /\ Len(cs) = 2 /\ cs[1] = a /\ cs[2] = b
         /\ \A what : Queued(cs, {what}) <=> what \in {a.set, b.set}
         /\ \A any : Ends(cs, a.set, any, a.to) /\ Ends(cs, b.set, any, b.to)
PROOF
<1>1. cs \in Seq(Commands) /\ Len(cs) = 2 /\ cs[1] = a /\ cs[2] = b
  OBVIOUS
<1>2. \A k \in 1..Len(cs) : k = 1 \/ k = 2
  BY <1>1
<1>3. 1 \in 1..Len(cs) /\ 2 \in 1..Len(cs)
  BY <1>1
<1>4. \A what : Queued(cs, {what}) <=> what \in {a.set, b.set}
  BY <1>1, <1>2, <1>3 DEF Queued
<1>5. \A k \in 1..Len(cs) : /\ cs[k].set = a.set => cs[k].to = a.to
                            /\ cs[k].set = b.set => cs[k].to = b.to
  BY <1>1, <1>2
<1> QED
  BY <1>1, <1>4, <1>5 DEF Ends

\* The level the window will have is the one the app believes it has.
TopIsLevel(w) == ~w.app.applied => Ends(w.cmds, "top", w.os.top, w.app.level)

\* Nothing but levels is on its way.
OnlyLevels(q) == \A k \in 1..Len(q) : q[k].set = "top"

LEMMA SyncKeeps ==
  ASSUME NEW w, WInv(w), ~w.app.cfg.mini, NEW r, r = SyncWindowLevel(w)
  PROVE  /\ WInv(r) /\ TopIsLevel(r) /\ r.os = w.os /\ ~r.app.cfg.mini /\ ~r.app.applied
         /\ w.cmds = <<>> => OnlyLevels(r.cmds)
PROOF
<1>1. /\ w \in Worlds /\ w.app \in Apps /\ w.os \in Windows /\ w.cmds \in Seq(Commands)
      /\ AppInv(w) /\ QueueInv(w) /\ RectInv(w) /\ ~w.app.applied
  BY DEF WInv, Worlds, AppInv
<1>2. CASE w.app.cfg.onTop = w.app.level
  <2>1. r = w
    BY <1>2 DEF SyncWindowLevel
  <2>2. Ends(w.cmds, "top", w.os.top, w.app.level)
    BY <1>1, <1>2 DEF QueueInv
  <2>3. w.cmds = <<>> => OnlyLevels(w.cmds)
    BY DEF OnlyLevels
  <2> QED
    BY <1>1, <2>1, <2>2, <2>3 DEF TopIsLevel
<1>3. CASE w.app.cfg.onTop # w.app.level
  <2> DEFINE top == w.app.cfg.onTop
             a == Cmd("top", top)
             cs == <<a>>
  <2>1. top \in BOOLEAN
    BY <1>1 DEF Apps, Configs
  <2>2. a \in Commands /\ a.set = "top" /\ a.to = top
    BY <2>1, CmdTypes, CmdParts
  <2>3. r = [w EXCEPT !.app = [w.app EXCEPT !.level = top], !.cmds = w.cmds \o cs]
    BY <1>1, <1>3 DEF SyncWindowLevel, Send, Worlds
  <2> HIDE DEF a, top
  <2>4. /\ cs \in Seq(Commands) /\ \A what : Queued(cs, {what}) <=> what = a.set
        /\ \A any : Ends(cs, a.set, any, a.to)
    BY <2>2, OneCommand
  <2>5. cs[1].set = "top" /\ Len(cs) = 1
    BY <2>2
  <2> HIDE DEF cs
  <2>6. /\ r.app = [w.app EXCEPT !.level = top] /\ r.cmds = w.cmds \o cs
        /\ r.os = w.os /\ r.disk = w.disk /\ r.unsaved = w.unsaved
    BY <1>1, <2>3 DEF Worlds
  <2>7. r.app \in Apps
    BY <1>1, <2>1, <2>6 DEF Apps
  <2>8. /\ r.app.cfg = w.app.cfg /\ r.app.level = top /\ r.app.full = w.app.full
        /\ r.app.applied = w.app.applied /\ r.app.restore = w.app.restore
        /\ r.app.strip = w.app.strip /\ r.app.placeDue = w.app.placeDue
    BY <1>1, <2>6 DEF Apps
  <2>9. r.cmds \in Seq(Commands)
    BY <1>1, <2>4, <2>6, SentParts
  <2>10. r \in Worlds
    BY <1>1, <2>3, <2>7, <2>9, <2>6 DEF Worlds
  <2>11. AppInv(r)
    BY <1>1, <2>6, <2>8 DEF AppInv, Kept
  <2>12. /\ Ends(w.cmds, "min", w.os.min, "full")
         /\ Ends(w.cmds, "fullscreen", w.os.full, w.app.full)
         /\ Ends(w.cmds, "decorated", w.os.decorated, ~w.app.full)
         /\ w.os.style = w.os.base \/ Queued(w.cmds, {"decorated", "top"})
    BY <1>1 DEF QueueInv
  <2>13. /\ ~Queued(cs, {"min"}) /\ ~Queued(cs, {"fullscreen"}) /\ ~Queued(cs, {"decorated"})
         /\ Queued(cs, {"top"})
    BY <2>2, <2>4
  <2>14. Ends(r.cmds, "min", r.os.min, "full")
    BY <1>1, <2>4, <2>6, <2>12, <2>13, EndsKept
  <2>15. Ends(r.cmds, "fullscreen", r.os.full, r.app.full)
    BY <1>1, <2>4, <2>6, <2>8, <2>12, <2>13, EndsKept
  <2>16. Ends(r.cmds, "decorated", r.os.decorated, ~r.app.full)
    BY <1>1, <2>4, <2>6, <2>8, <2>12, <2>13, EndsKept
  <2>17. Ends(r.cmds, "top", r.os.top, r.app.level)
    <3>1. \A any : Ends(cs, "top", any, top)
      BY <2>2, <2>4
    <3>2. Ends(w.cmds \o cs, "top", r.os.top, top)
      BY <1>1, <2>4, <2>13, <3>1, EndsSent
    <3> QED
      BY <2>6, <2>8, <3>2
  <2>18. r.os.style = r.os.base \/ Queued(r.cmds, {"decorated", "top"})
    BY <1>1, <2>4, <2>6, <2>12, QueuedSent
  <2>19. QueueInv(r)
    BY <1>1, <2>8, <2>14, <2>15, <2>16, <2>17, <2>18 DEF QueueInv
  <2>20. Windowed(cs)
    BY <2>4, <2>13, OthersAreWindowed
  <2>21. CoversPlaced(r)
    <3>1. CoversPlaced(w)
      BY <1>1 DEF RectInv
    <3> QED
      BY <1>1, <2>4, <2>6, <2>20, <3>1, CoversSent
  <2>22. w.os.rect \in Placed \/ Queued(r.cmds, {"rect"})
    <3>1. w.os.rect \in Placed \/ Queued(w.cmds, {"rect"})
      BY <1>1 DEF RectInv
    <3> QED
      BY <1>1, <2>4, <2>6, <3>1, QueuedSent
  <2>23. RectInv(r)
    BY <1>1, <2>6, <2>21, <2>22 DEF RectInv
  <2>24. w.cmds = <<>> => OnlyLevels(r.cmds)
    <3> SUFFICES ASSUME w.cmds = <<>> PROVE OnlyLevels(r.cmds)
      OBVIOUS
    <3>1. r.cmds = cs
      BY <2>4, <2>6, ConcatEmptySeq
    <3>2. \A k \in 1..Len(cs) : k = 1
      BY <2>5
    <3> QED
      BY <2>5, <3>1, <3>2 DEF OnlyLevels
  <2> QED
    BY <1>1, <2>6, <2>8, <2>10, <2>11, <2>17, <2>19, <2>23, <2>24 DEF WInv, TopIsLevel
<1> QED
  BY <1>2, <1>3

LEMMA FullscreenKeeps ==
  ASSUME NEW w, WInv(w), TopIsLevel(w), Clear(w), ~w.app.cfg.mini, ~w.app.applied,
         NEW key, key = "F11" => OnlyLevels(w.cmds),
         NEW r, r = FullscreenKey(w, key)
  PROVE  /\ WInv(r) /\ TopIsLevel(r) /\ r.os = w.os /\ ~r.app.cfg.mini /\ ~r.app.applied
PROOF
<1>1. CASE key # "F11"
  BY <1>1 DEF FullscreenKey
<1>2. CASE key = "F11"
  <2> DEFINE a == Cmd("fullscreen", ~w.app.full)
             b == Cmd("decorated", w.app.full)
             cs == <<a, b>>
  <2>1. /\ w \in Worlds /\ w.app \in Apps /\ w.os \in Windows /\ w.cmds \in Seq(Commands)
        /\ AppInv(w) /\ QueueInv(w) /\ RectInv(w) /\ w.app.full \in BOOLEAN
    BY DEF WInv, Worlds, Apps
  <2>2. /\ a \in Commands /\ a.set = "fullscreen" /\ a.to = ~w.app.full
        /\ b \in Commands /\ b.set = "decorated" /\ b.to = w.app.full /\ a.set # b.set
    <3>1. (~w.app.full) \in BOOLEAN
      OBVIOUS
    <3>2. a \in Commands /\ b \in Commands
      BY <2>1, <3>1, CmdTypes
    <3>3. a.set = "fullscreen" /\ a.to = ~w.app.full
      BY CmdParts
    <3>4. b.set = "decorated" /\ b.to = w.app.full
      BY CmdParts
    <3> QED
      BY <3>2, <3>3, <3>4
  <2>3. r = [w EXCEPT !.app = [w.app EXCEPT !.full = ~w.app.full], !.cmds = w.cmds \o cs]
    BY <1>2, <2>1 DEF FullscreenKey, Send, Worlds
  <2> HIDE DEF a, b
  <2>4. cs \in Seq(Commands) /\ Len(cs) = 2 /\ cs[1] = a /\ cs[2] = b
    BY <2>2, TwoCommands
  <2>5. \A what : Queued(cs, {what}) <=> what \in {a.set, b.set}
    BY <2>2, TwoCommands
  <2>6. \A any : Ends(cs, a.set, any, a.to) /\ Ends(cs, b.set, any, b.to)
    BY <2>2, TwoCommands
  <2> HIDE DEF cs
  <2>7. /\ r.app = [w.app EXCEPT !.full = ~w.app.full] /\ r.cmds = w.cmds \o cs
        /\ r.os = w.os /\ r.disk = w.disk /\ r.unsaved = w.unsaved
    BY <2>1, <2>3 DEF Worlds
  <2>8. r.app \in Apps
    BY <2>1, <2>7 DEF Apps
  <2>9. /\ r.app.cfg = w.app.cfg /\ r.app.level = w.app.level /\ r.app.full = ~w.app.full
        /\ r.app.applied = w.app.applied /\ r.app.restore = w.app.restore
        /\ r.app.strip = w.app.strip /\ r.app.placeDue = w.app.placeDue
    BY <2>1, <2>7 DEF Apps
  <2>10. r.cmds \in Seq(Commands)
    BY <2>1, <2>4, <2>7, SentParts
  <2>11. r \in Worlds
    BY <2>1, <2>3, <2>8, <2>10, <2>7 DEF Worlds
  <2>12. AppInv(r)
    BY <2>1, <2>7, <2>9 DEF AppInv, Kept
  <2>13. Ends(w.cmds, "min", w.os.min, "full") /\ Ends(w.cmds, "top", w.os.top, w.app.level)
    BY <2>1 DEF QueueInv, TopIsLevel
  <2>14. /\ ~Queued(cs, {"min"}) /\ ~Queued(cs, {"top"})
         /\ Queued(cs, {"fullscreen"}) /\ Queued(cs, {"decorated"})
         /\ \A any : Ends(cs, "fullscreen", any, ~w.app.full) /\ Ends(cs, "decorated", any, w.app.full)
    BY <2>2, <2>5, <2>6
  <2>15. Ends(r.cmds, "min", r.os.min, "full")
    BY <2>1, <2>4, <2>7, <2>13, <2>14, EndsKept
  <2>16. Ends(r.cmds, "top", r.os.top, r.app.level)
    BY <2>1, <2>4, <2>7, <2>9, <2>13, <2>14, EndsKept
  <2>17. Ends(r.cmds, "fullscreen", r.os.full, r.app.full)
    <3>1. Ends(w.cmds \o cs, "fullscreen", r.os.full, ~w.app.full)
      BY <2>1, <2>4, <2>14, EndsSent
    <3> QED
      BY <2>7, <2>9, <3>1
  <2>18. Ends(r.cmds, "decorated", r.os.decorated, ~r.app.full)
    <3>1. Ends(w.cmds \o cs, "decorated", r.os.decorated, w.app.full)
      BY <2>1, <2>4, <2>14, EndsSent
    <3>2. w.app.full = ~r.app.full
      BY <2>1, <2>9
    <3> QED
      BY <2>7, <3>1, <3>2
  <2>19. Queued(r.cmds, {"decorated", "top"})
    <3>1. Queued(cs, {"decorated", "top"})
      BY <2>14 DEF Queued
    <3> QED
      BY <2>1, <2>4, <2>7, <3>1, QueuedSent
  <2>20. QueueInv(r)
    BY <2>9, <2>15, <2>16, <2>17, <2>18, <2>19 DEF QueueInv
  <2>21. w.os.min = "full" /\ w.os.rect \in Placed
    <3>1. ~Queued(w.cmds, {"min"})
      BY <1>2 DEF OnlyLevels, Queued
    <3> QED
      BY <2>13, <3>1 DEF Ends, Clear
  <2>22. CoversPlaced(r)
    <3>1. /\ Len(r.cmds) = Len(w.cmds) + 2 /\ Len(w.cmds) \in Nat
          /\ \A k \in 1..Len(w.cmds) : r.cmds[k] = w.cmds[k]
          /\ r.cmds[Len(w.cmds) + 2] = cs[2]
      <4>1. Len(w.cmds \o cs) = Len(w.cmds) + Len(cs) /\ Len(w.cmds) \in Nat
        BY <2>1, <2>4, SentParts
      <4>2. \A k \in 1..Len(w.cmds) : (w.cmds \o cs)[k] = w.cmds[k]
        BY <2>1, <2>4, SentParts
      <4>3. \A k \in 1..Len(cs) : (w.cmds \o cs)[Len(w.cmds) + k] = cs[k]
        BY <2>1, <2>4, SentParts
      <4>4. 2 \in 1..Len(cs)
        BY <2>4
      <4> QED
        BY <2>4, <2>7, <4>1, <4>2, <4>3, <4>4
    <3>2. \A k \in 1..Len(w.cmds) : r.cmds[k].set = "top"
      BY <1>2, <3>1 DEF OnlyLevels
    <3>3. r.cmds[Len(w.cmds) + 2].set = "decorated"
      BY <2>2, <2>4, <3>1
    <3> SUFFICES ASSUME NEW k \in 1..Len(r.cmds), r.cmds[k].set = "fullscreen" /\ r.cmds[k].to
                 PROVE  \A j \in 1..(k - 1) : r.cmds[j].set = "top"
      BY <2>7, <2>21 DEF CoversPlaced
    <3>4. k # Len(w.cmds) + 2
      BY <3>3
    <3>5. \A j \in 1..(k - 1) : j \in 1..Len(w.cmds)
      BY <3>1, <3>4
    <3> QED
      BY <3>2, <3>5
  <2>23. RectInv(r)
    BY <2>1, <2>7, <2>21, <2>22 DEF RectInv
  <2> QED
    BY <2>7, <2>9, <2>11, <2>12, <2>16, <2>20, <2>23 DEF WInv, TopIsLevel
<1> QED
  BY <1>1, <1>2

\* What a click leaves: the window as it was, unless the strip was entered.
Clicked(w, r) ==
  /\ WInv(r) /\ r.os = w.os /\ TopIsLevel(r)
  /\ r.app.applied => r.app.restore = IF w.app.applied THEN w.app.restore ELSE w.os.rect
  /\ r.app.strip = w.app.strip

LEMMA EnteringClicked ==
  ASSUME NEW w, WInv(w), Clear(w), TopIsLevel(w), NEW r, r = EnterStrip(w)
  PROVE  Clicked(w, r) /\ (~w.app.applied => ~r.app.settings)
PROOF
<1>1. CASE w.app.applied
  <2>1. r = w
    BY <1>1 DEF EnterStrip
  <2> QED
    BY <1>1, <2>1 DEF Clicked
<1>2. CASE ~w.app.applied
  <2>1. w.app.strip = NoStrip
    BY <1>2 DEF WInv, AppInv
  <2> QED
    BY <1>2, <2>1, EnteringKeeps DEF Clicked, TopIsLevel
<1> QED
  BY <1>1, <1>2

\* A switch that changes the configuration, saved.
LEMMA SwitchKeeps ==
  ASSUME NEW w, WInv(w), TopIsLevel(w), NEW cfg \in Configs,
         \/ cfg.mini = w.app.cfg.mini
         \/ cfg.mini /\ ~w.app.applied,
         NEW r, r = Save([w EXCEPT !.app = [w.app EXCEPT !.cfg = cfg]], "other")
  PROVE  /\ WInv(r) /\ TopIsLevel(r) /\ r.os = w.os /\ r.app.applied = w.app.applied
         /\ r.app.restore = w.app.restore /\ r.app.strip = w.app.strip
PROOF
<1> DEFINE v == [w EXCEPT !.app = [w.app EXCEPT !.cfg = cfg]]
<1>1. w \in Worlds /\ w.app \in Apps /\ AppInv(w) /\ QueueInv(w) /\ RectInv(w)
  BY DEF WInv, Worlds
<1>2. v.app = [w.app EXCEPT !.cfg = cfg] /\ v.os = w.os /\ v.cmds = w.cmds /\ v \in Worlds
  <2>1. [w.app EXCEPT !.cfg = cfg] \in Apps
    BY <1>1 DEF Apps
  <2> QED
    BY <1>1, <2>1 DEF Worlds
<1>3. r = Save(v, "other")
  OBVIOUS
<1> HIDE DEF v
<1>4. r \in Worlds /\ r.app = v.app /\ r.os = w.os /\ r.cmds = w.cmds /\ Kept(r)
  BY <1>2, <1>3, SaveOutcome
<1>5. /\ r.app.cfg = cfg /\ r.app.level = w.app.level /\ r.app.full = w.app.full
      /\ r.app.applied = w.app.applied /\ r.app.restore = w.app.restore
      /\ r.app.strip = w.app.strip /\ r.app.placeDue = w.app.placeDue
  BY <1>1, <1>2, <1>4 DEF Apps
<1>6. AppInv(r)
  BY <1>1, <1>4, <1>5 DEF AppInv
<1>7. QueueInv(r)
  BY <1>1, <1>4, <1>5 DEF QueueInv, TopIsLevel
<1>8. RectInv(r)
  BY <1>1, <1>4, <1>5 DEF RectInv, CoversPlaced
<1>9. TopIsLevel(r)
  BY <1>4, <1>5 DEF TopIsLevel
<1> QED
  BY <1>4, <1>5, <1>6, <1>7, <1>8, <1>9 DEF WInv

LEMMA OnTopClicked ==
  ASSUME NEW w, WInv(w), TopIsLevel(w), NEW onTop \in BOOLEAN,
         NEW r, r = Save([w EXCEPT !.app.cfg.onTop = onTop], "other")
  PROVE  Clicked(w, r)
PROOF
<1> DEFINE cfg == [w.app.cfg EXCEPT !.onTop = onTop]
<1>1. w \in Worlds /\ w.app.cfg \in Configs
  BY DEF WInv, Worlds, Apps
<1>2. cfg \in Configs /\ cfg.mini = w.app.cfg.mini
  BY <1>1 DEF Configs
<1>3. r = Save([w EXCEPT !.app = [w.app EXCEPT !.cfg = cfg]], "other")
  OBVIOUS
<1> HIDE DEF cfg
<1>4. /\ WInv(r) /\ TopIsLevel(r) /\ r.os = w.os /\ r.app.applied = w.app.applied
      /\ r.app.restore = w.app.restore /\ r.app.strip = w.app.strip
  BY <1>2, <1>3, SwitchKeeps
<1> QED
  BY <1>4 DEF Clicked

LEMMA SettingsClicked ==
  ASSUME NEW w, WInv(w), TopIsLevel(w), NEW open \in BOOLEAN,
         NEW r, r = [w EXCEPT !.app = [w.app EXCEPT !.settings = open]]
  PROVE  Clicked(w, r)
PROOF
<1>1. w \in Worlds /\ w.app \in Apps
  BY DEF WInv, Worlds
<1>2. /\ r.app = [w.app EXCEPT !.settings = open] /\ r.os = w.os /\ r.cmds = w.cmds
      /\ r.disk = w.disk /\ r.unsaved = w.unsaved
  BY <1>1 DEF Worlds
<1>3. r.app \in Apps
  BY <1>1, <1>2 DEF Apps
<1>4. SameModes(r.app, w.app)
  BY <1>1, <1>2 DEF Apps, SameModes
<1>5. r \in Worlds
  BY <1>1, <1>3 DEF Worlds
<1>6. WInv(r)
  BY <1>2, <1>4, <1>5, OtherFieldsKeep
<1> QED
  BY <1>2, <1>4, <1>6 DEF SameModes, Clicked, TopIsLevel

LEMMA TitleBarClicked ==
  ASSUME NEW w, WInv(w), Clear(w), TopIsLevel(w), NEW click, NEW r, r = TitleBar(w, click)
  PROVE  Clicked(w, r)
PROOF
<1>1. /\ w \in Worlds /\ w.app \in Apps /\ w.app.cfg \in Configs
      /\ w.app.cfg.onTop \in BOOLEAN /\ w.app.settings \in BOOLEAN
  BY DEF WInv, Worlds, Apps, Configs
<1>2. CASE click = "gear"
  <2> DEFINE open == ~w.app.settings
  <2>1. r = [w EXCEPT !.app = [w.app EXCEPT !.settings = open]] /\ open \in BOOLEAN
    BY <1>2, <1>1 DEF TitleBar
  <2> HIDE DEF open
  <2> QED
    BY <2>1, SettingsClicked
<1>3. CASE click = "pin"
  <2> DEFINE onTop == ~w.app.cfg.onTop
  <2>1. r = Save([w EXCEPT !.app.cfg.onTop = onTop], "other") /\ onTop \in BOOLEAN
    BY <1>3 DEF TitleBar
  <2> HIDE DEF onTop
  <2> QED
    BY <2>1, OnTopClicked
<1>4. CASE click = "mini"
  <2>1. r = EnterStrip(w)
    BY <1>4 DEF TitleBar
  <2> QED
    BY <2>1, EnteringClicked
<1>5. CASE click \notin {"gear", "pin", "mini"}
  <2>1. r = w
    BY <1>5 DEF TitleBar
  <2> QED
    BY <2>1 DEF Clicked
<1> QED
  BY <1>2, <1>3, <1>4, <1>5

\* The switch that enters the strip is reached from the full window only: the
\* settings window is closed by the strip.
LEMMA SettingsModalClicked ==
  ASSUME NEW w, WInv(w), Clear(w), TopIsLevel(w), NEW click,
         click = "miniSwitch" /\ w.app.settings => ~w.app.cfg.mini,
         NEW r, r = SettingsModal(w, click)
  PROVE  Clicked(w, r)
PROOF
<1>1. /\ w \in Worlds /\ w.app \in Apps /\ w.app.cfg \in Configs
      /\ AppInv(w) /\ QueueInv(w) /\ RectInv(w)
  BY DEF WInv, Worlds, Apps
<1>2. CASE ~w.app.settings \/ click \notin {"onTopSwitch", "miniSwitch", "closeSettings"}
  <2>1. r = w
    BY <1>2 DEF SettingsModal
  <2> QED
    BY <2>1 DEF Clicked
<1>3. CASE w.app.settings /\ click = "onTopSwitch"
  <2> DEFINE onTop == ~w.app.cfg.onTop
  <2>1. r = Save([w EXCEPT !.app.cfg.onTop = onTop], "other") /\ onTop \in BOOLEAN
    BY <1>3 DEF SettingsModal
  <2> HIDE DEF onTop
  <2> QED
    BY <2>1, OnTopClicked
<1>4. CASE w.app.settings /\ click = "closeSettings"
  <2>1. r = [w EXCEPT !.app = [w.app EXCEPT !.settings = FALSE]]
    BY <1>1, <1>4 DEF SettingsModal, Worlds
  <2> QED
    BY <2>1, SettingsClicked
<1>5. CASE w.app.settings /\ click = "miniSwitch"
  <2> DEFINE cfg == [w.app.cfg EXCEPT !.mini = TRUE]
             s == Save([w EXCEPT !.app = [w.app EXCEPT !.cfg = cfg]], "other")
  <2>1. ~w.app.cfg.mini /\ ~w.app.applied
    BY <1>1, <1>5 DEF AppInv
  <2>2. r = EnterStrip(s)
    BY <1>5, <2>1 DEF SettingsModal
  <2>3. cfg \in Configs /\ cfg.mini
    BY <1>1 DEF Configs
  <2>4. /\ WInv(s) /\ TopIsLevel(s) /\ s.os = w.os /\ s.app.applied = w.app.applied
        /\ s.app.restore = w.app.restore /\ s.app.strip = w.app.strip
    <3> HIDE DEF cfg
    <3> QED
      BY <2>1, <2>3, SwitchKeeps
  <2> HIDE DEF s
  <2>5. Clicked(s, r)
    BY <2>1, <2>2, <2>4, EnteringClicked DEF Clear
  <2> QED
    BY <2>1, <2>4, <2>5 DEF Clicked
<1> QED
  BY <1>2, <1>3, <1>4, <1>5

LEMMA FullFrameKeeps ==
  ASSUME NEW w, WInv(w), Clear(w), ~w.app.cfg.mini, NEW key, NEW click,
         key = "F11" => w.cmds = <<>>, NEW r, r = FullFrame(w, key, click)
  PROVE  /\ WInv(r) /\ r.os = w.os /\ Clear(r) /\ r.app.strip = NoStrip
         /\ r.app.applied => r.app.restore = w.os.rect
PROOF
<1> DEFINE s == SyncWindowLevel(w)
           f == FullscreenKey(s, key)
           h == IF key = "CtrlM" THEN EnterStrip(f) ELSE f
           t == TitleBar(h, click)
<1>1. r = SettingsModal(t, click)
  BY DEF FullFrame
<1>2. ~w.app.applied /\ w.os.rect \in Placed
  BY DEF WInv, AppInv, Clear
<1>3. /\ WInv(s) /\ TopIsLevel(s) /\ s.os = w.os /\ ~s.app.cfg.mini /\ ~s.app.applied
      /\ w.cmds = <<>> => OnlyLevels(s.cmds)
  BY SyncKeeps
<1> HIDE DEF s
<1>4. Clear(s) /\ (key = "F11" => OnlyLevels(s.cmds))
  BY <1>2, <1>3 DEF Clear
<1>5. WInv(f) /\ TopIsLevel(f) /\ f.os = w.os /\ ~f.app.cfg.mini /\ ~f.app.applied
  BY <1>3, <1>4, FullscreenKeeps
<1> HIDE DEF f
<1>6. Clear(f) /\ f.app.strip = NoStrip
  BY <1>2, <1>5 DEF Clear, WInv, AppInv
<1>7. Clicked(f, h) /\ (click = "miniSwitch" /\ h.app.settings => ~h.app.cfg.mini)
  <2>1. CASE key = "CtrlM"
    BY <1>5, <1>6, <2>1, EnteringClicked
  <2>2. CASE key # "CtrlM"
    BY <1>5, <2>2 DEF Clicked
  <2> QED
    BY <2>1, <2>2
<1> HIDE DEF h
<1>8. /\ WInv(h) /\ TopIsLevel(h) /\ h.os = w.os /\ Clear(h) /\ h.app.strip = NoStrip
      /\ h.app.applied => h.app.restore = w.os.rect
  BY <1>2, <1>5, <1>6, <1>7 DEF Clicked, Clear
<1>9. Clicked(h, t)
  BY <1>8, TitleBarClicked
<1>10. click = "miniSwitch" /\ t.app.settings => ~t.app.cfg.mini
  <2>1. click = "miniSwitch" => t = h
    BY DEF TitleBar
  <2> QED
    BY <1>7, <2>1
<1> HIDE DEF t
<1>11. /\ WInv(t) /\ TopIsLevel(t) /\ t.os = w.os /\ Clear(t) /\ t.app.strip = NoStrip
       /\ t.app.applied => t.app.restore = w.os.rect
  BY <1>2, <1>8, <1>9 DEF Clicked, Clear
<1>12. Clicked(t, r)
  BY <1>1, <1>10, <1>11, SettingsModalClicked
<1> QED
  BY <1>2, <1>11, <1>12 DEF Clicked, Clear

-----------------------------------------------------------------------------
(* The inductive invariant and the steps of the specification.             *)

IInv ==
  /\ TypeOK /\ WInv(World)
  /\ rerun => Clear(World)
  /\ app.applied => entered = app.restore
  /\ ~pushed => OnItsMonitor(World)

LEMMA WorldParts ==
  /\ World.app = app /\ World.os = os /\ World.disk = disk /\ World.cmds = cmds
  /\ World.unsaved = unsaved
  /\ World'.app = app' /\ World'.os = os' /\ World'.disk = disk' /\ World'.cmds = cmds'
  /\ World'.unsaved = unsaved'
  BY DEF World, WorldWith

\* What is left of the type invariant once the world is typed.
Around ==
  /\ run \in {"glow", "wgpu", "exited"} /\ rerun \in BOOLEAN /\ pushed \in BOOLEAN
  /\ monitors \in (SUBSET Monitors) \ {{}} /\ entered \in Rects \cup {NoRect}

\* The variables a world is made of have their types.
Typed ==
  /\ app \in Apps /\ os \in Windows /\ disk \in Configs /\ unsaved \in BOOLEAN
  /\ cmds \in Seq(Commands)

LEMMA WorldTypes ==
  /\ Around /\ Typed => TypeOK
  /\ World \in Worlds <=> Typed
  /\ \A fails \in SUBSET Savers : Typed => WorldWith(fails) \in Worlds
PROOF
<1>1. Around /\ Typed => TypeOK
  BY DEF TypeOK, Around, Typed, Apps, Windows
<1>2. World \in Worlds => Typed
  BY WorldParts DEF Worlds, Typed
<1>3. \A fails \in SUBSET Savers : Typed => WorldWith(fails) \in Worlds
  BY DEF WorldWith, Worlds, Typed
<1>4. Typed => World \in Worlds
  BY <1>3 DEF World
<1> QED
  BY <1>1, <1>2, <1>3, <1>4

\* Between two frames there is nothing in the queue and no bar in the full window.
LEMMA SteadyIsClear ==
  ASSUME WInv(World), cmds = <<>>
  PROVE  Clear(World)
  BY WorldParts, EndsEmpty DEF WInv, RectInv, Clear

\* A window at its start.
LEMMA FreshWindow ==
  ASSUME NEW cfg \in Configs, NEW m \in Monitors, NEW base \in SUBSET Overlay,
         NEW w, w = [app |-> Started(cfg), os |-> Created(cfg, m, base), disk |-> cfg,
                     unsaved |-> FALSE, cmds |-> <<>>, fails |-> {}]
  PROVE  WInv(w) /\ Clear(w) /\ ~w.app.applied /\ OnItsMonitor(w)
PROOF
<1> DEFINE a == Started(cfg)
           o == Created(cfg, m, base)
<1>1. /\ a \in Apps /\ a.cfg = cfg /\ a.level = FALSE /\ a.full = FALSE /\ a.applied = FALSE
      /\ a.restore = NoRect /\ a.placeDue = FALSE /\ a.strip = NoStrip
  BY DEF Started, Apps
<1>2. Home(m) \in Placed
  BY DEF Home, Placed, Rects
<1>3. cfg.mini \in BOOLEAN /\ cfg.onTop \in BOOLEAN
  BY DEF Configs
<1>4. /\ o \in Windows /\ o.min = "full" /\ o.rect = Home(m) /\ o.full = FALSE /\ o.under = NoRect
      /\ o.style = o.base /\ o.decorated = ~cfg.mini /\ o.top = (cfg.onTop \/ cfg.mini)
  BY <1>2, <1>3 DEF Created, Windows, Placed
<1> HIDE DEF a, o
<1>5. w.app = a /\ w.os = o /\ w.disk = cfg /\ w.cmds = <<>>
  BY DEF a, o
<1>6. <<>> \in Seq(Commands)
  OBVIOUS
<1>7. w \in Worlds
  BY <1>1, <1>4, <1>6 DEF Worlds, a, o, Savers
<1>8. AppInv(w)
  BY <1>1, <1>5 DEF AppInv, Kept
<1>9. QueueInv(w)
  <2>1. /\ Ends(<<>>, "min", o.min, "full") /\ Ends(<<>>, "fullscreen", o.full, FALSE)
    BY <1>4, EndsEmpty
  <2>2. ~cfg.mini => Ends(<<>>, "decorated", o.decorated, TRUE) /\ Ends(<<>>, "top", o.top, cfg.onTop)
    BY <1>3, <1>4, EndsEmpty
  <2>3. (~a.full) = TRUE
    BY <1>1
  <2> QED
    BY <1>1, <1>4, <1>5, <2>1, <2>2, <2>3 DEF QueueInv
<1>10. RectInv(w)
  <2>1. CoversPlaced(w)
    BY <1>5 DEF CoversPlaced
  <2> QED
    BY <1>2, <1>4, <1>5, <2>1 DEF RectInv
<1> QED
  BY <1>1, <1>2, <1>4, <1>5, <1>7, <1>8, <1>9, <1>10 DEF WInv, Clear, OnItsMonitor

LEMMA InitInv == Init => IInv
PROOF
<1> SUFFICES ASSUME Init PROVE IInv
  OBVIOUS
<1>1. PICK m \in monitors : os = Created(disk, m, {"appwindow"})
  BY DEF Init
<1>2. m \in Monitors /\ {"appwindow"} \in SUBSET Overlay /\ disk \in Configs
  BY <1>1 DEF Init, Overlay
<1>3. World = [app |-> Started(disk), os |-> Created(disk, m, {"appwindow"}), disk |-> disk,
               unsaved |-> FALSE, cmds |-> <<>>, fails |-> {}]
  BY <1>1 DEF Init, World, WorldWith
<1>4. WInv(World) /\ ~World.app.applied /\ OnItsMonitor(World)
  BY <1>2, <1>3, FreshWindow
<1>5. Around
  BY MonitorsAssumption DEF Init, Around
<1>6. TypeOK
  BY <1>4, <1>5, WorldTypes DEF WInv
<1>7. ~rerun /\ ~app.applied
  BY <1>4, WorldParts DEF Init
<1> QED
  BY <1>4, <1>6, <1>7 DEF IInv

\* A step that leaves the world a good one.
LEMMA StepInv ==
  ASSUME Around', WInv(World)', rerun' => Clear(World)', app'.applied => entered' = app'.restore,
         ~pushed' => OnItsMonitor(World)'
  PROVE  IInv'
PROOF
<1>1. World' \in Worlds
  BY DEF WInv
<1>2. app' \in Apps /\ os' \in Windows /\ disk' \in Configs /\ unsaved' \in BOOLEAN
  BY <1>1, WorldParts DEF Worlds
<1>3. TypeOK'
  BY <1>2 DEF TypeOK, Around, Apps, Windows
<1> QED
  BY <1>3 DEF IInv

LEMMA IInvParts ==
  ASSUME IInv
  PROVE  /\ Around /\ WInv(World) /\ World \in Worlds /\ AppInv(World) /\ QueueInv(World)
         /\ RectInv(World) /\ app \in Apps /\ os \in Windows /\ disk \in Configs
         /\ unsaved \in BOOLEAN /\ cmds \in Seq(Commands) /\ Typed
PROOF
<1>1. Around
  BY DEF IInv, TypeOK, Around
<1> QED
  BY <1>1, WorldTypes DEF IInv, WInv, Typed

\* Which saves fail matters to no part of the invariant.
LEMMA FailsKeep ==
  ASSUME NEW w, WInv(w), NEW r, r \in Worlds, r.app = w.app, r.os = w.os, r.cmds = w.cmds,
         r.disk = w.disk, r.unsaved = w.unsaved
  PROVE  WInv(r)
  BY OtherFieldsKeep DEF SameModes

LEMMA PassInv ==
  ASSUME IInv, NEW key, NEW click, NEW zoomed \in BOOLEAN, Pass(key, click, zoomed)
  PROVE  IInv'
PROOF
<1> DEFINE fresh == app.cfg.mini /\ ~app.applied
           W(fails) == WorldWith(fails)
           w1(fails) == IF fresh THEN EnterStrip(W(fails)) ELSE W(fails)
           w2(fails) == IF w1(fails).app.cfg.mini THEN StripFrame(w1(fails), key, click, fresh)
                        ELSE FullFrame(w1(fails), key, click)
<1>1. PICK fails \in SUBSET Savers :
        /\ Becomes(w2(fails)) /\ rerun' = (zoomed /\ ~rerun /\ ~w1(fails).app.cfg.mini)
        /\ entered' = IF ~w2(fails).app.applied THEN NoRect
                      ELSE IF app.applied THEN entered ELSE os.rect
        /\ pushed' = (pushed /\ w2(fails).app.strip # NoStrip)
  BY DEF Pass
<1>2. /\ UNCHANGED <<run, monitors>>
      /\ rerun \/ cmds = <<>>
      /\ rerun => key = None
  BY DEF Pass, Steady
<1> DEFINE u == WorldWith(fails)
           v == w1(fails)
           r == w2(fails)
<1>3. /\ Around /\ WInv(World) /\ Typed /\ monitors \in (SUBSET Monitors) \ {{}}
      /\ entered \in Rects \cup {NoRect} /\ os.rect \in Rects
  BY IInvParts DEF Around, Windows
<1>4. /\ u.app = app /\ u.os = os /\ u.cmds = cmds /\ u.disk = disk /\ u.unsaved = unsaved
      /\ WInv(u) /\ Clear(u) /\ (~pushed => OnItsMonitor(u))
  <2>1. /\ u.app = app /\ u.os = os /\ u.cmds = cmds /\ u.disk = disk /\ u.unsaved = unsaved
    BY DEF WorldWith
  <2>2. u \in Worlds
    BY <1>3, WorldTypes
  <2> HIDE DEF u
  <2>3. WInv(u)
    BY <1>3, <2>1, <2>2, WorldParts, FailsKeep
  <2>4. Clear(World)
    BY <1>2, <1>3, SteadyIsClear DEF IInv
  <2> QED
    BY <2>1, <2>3, <2>4, WorldParts DEF IInv, Clear, OnItsMonitor
<1> HIDE DEF u
<1>5. /\ WInv(v) /\ v.os = os /\ Clear(v) /\ (v.app.cfg.mini <=> v.app.applied)
      /\ v.app.applied => v.app.restore = IF app.applied THEN app.restore ELSE os.rect
      /\ ~v.app.applied => v.cmds = cmds /\ ~app.applied
      /\ ~pushed => OnItsMonitor(v)
  <2>1. CASE fresh
    <3>1. v = EnterStrip(u) /\ ~u.app.applied
      BY <1>4, <2>1 DEF u
    <3> HIDE DEF v
    <3>2. /\ WInv(v) /\ v.os = u.os /\ v.app.applied /\ v.app.restore = u.os.rect
          /\ v.app.strip = NoStrip
      BY <1>4, <3>1, EnteringKeeps
    <3> QED
      BY <1>4, <2>1, <3>2 DEF WInv, AppInv, Clear, OnItsMonitor
  <2>2. CASE ~fresh
    <3>1. v = u
      BY <2>2 DEF u
    <3> HIDE DEF v
    <3> QED
      BY <1>4, <2>2, <3>1 DEF WInv, AppInv
  <2> QED
    BY <2>1, <2>2
<1>6. r = IF v.app.cfg.mini THEN StripFrame(v, key, click, fresh) ELSE FullFrame(v, key, click)
  OBVIOUS
<1>7. /\ Becomes(r) /\ rerun' = (zoomed /\ ~rerun /\ ~v.app.cfg.mini)
      /\ entered' = IF ~r.app.applied THEN NoRect ELSE IF app.applied THEN entered ELSE os.rect
      /\ pushed' = (pushed /\ r.app.strip # NoStrip)
  BY <1>1
<1> HIDE DEF v, r, fresh
<1>8. ASSUME WInv(r) PROVE WInv(World') /\ (Clear(r) => Clear(World'))
                           /\ (OnItsMonitor(r) => OnItsMonitor(World)')
  <2>1. /\ World'.app = r.app /\ World'.os = r.os /\ World'.cmds = r.cmds
        /\ World'.disk = r.disk /\ World'.unsaved = r.unsaved
    BY <1>7, WorldParts DEF Becomes
  <2>2. World' \in Worlds
    <3>1. /\ app' \in Apps /\ os' \in Windows /\ disk' \in Configs /\ unsaved' \in BOOLEAN
          /\ cmds' \in Seq(Commands)
      BY <1>7, <1>8 DEF Becomes, WInv, Worlds
    <3> QED
      BY <3>1 DEF World, WorldWith, Worlds
  <2>3. WInv(World')
    BY <1>8, <2>1, <2>2, FailsKeep
  <2> QED
    BY <1>2, <2>1, <2>3 DEF Clear, OnItsMonitor
<1>9. CASE v.app.cfg.mini
  <2>1. r = StripFrame(v, key, click, fresh)
    BY <1>6, <1>9
  <2>2. /\ WInv(r) /\ (r.app.applied => r.app.restore = v.app.restore)
        /\ ~pushed => OnItsMonitor(r)
    BY <1>3, <1>5, <1>9, <2>1, StripFrameKeeps
  <2>3. ~rerun'
    BY <1>7, <1>9
  <2>4. app'.applied => entered' = app'.restore
    BY <1>5, <1>7, <1>9, <2>2 DEF Becomes, IInv
  <2>5. Around'
    BY <1>2, <1>3, <1>7, <2>3 DEF Around
  <2>6. ~pushed' => OnItsMonitor(r)
    BY <1>7, <2>2 DEF OnItsMonitor
  <2> QED
    BY <1>8, <2>2, <2>3, <2>4, <2>5, <2>6, StepInv
<1>10. CASE ~v.app.cfg.mini
  <2>1. r = FullFrame(v, key, click)
    BY <1>6, <1>10
  <2>2. key = "F11" => v.cmds = <<>>
    BY <1>2, <1>5, <1>10 DEF None
  <2>3. /\ WInv(r) /\ r.os = v.os /\ Clear(r) /\ (r.app.applied => r.app.restore = v.os.rect)
        /\ r.app.strip = NoStrip
    BY <1>5, <1>10, <2>1, <2>2, FullFrameKeeps
  <2>4. rerun' \in BOOLEAN
    BY <1>3, <1>7 DEF Around
  <2>5. app'.applied => entered' = app'.restore
    BY <1>5, <1>7, <1>10, <2>3 DEF Becomes
  <2>6. Around'
    BY <1>2, <1>3, <1>7, <2>4 DEF Around
  <2>7. OnItsMonitor(r)
    BY <2>3 DEF OnItsMonitor
  <2> QED
    BY <1>8, <2>3, <2>5, <2>6, <2>7, StepInv
<1> QED
  BY <1>9, <1>10

\* With a fullscreen still waiting, the command before it was a level.
LEMMA AppliedCovers ==
  ASSUME NEW w, w.cmds \in Seq(Commands), w.cmds # <<>>, CoversPlaced(w),
         NEW r, r.cmds = Tail(w.cmds),
         Head(w.cmds).set = "top" => r.os.min = w.os.min /\ r.os.rect = w.os.rect
  PROVE  CoversPlaced(r)
PROOF
<1> DEFINE q == w.cmds
<1>1. /\ Len(r.cmds) = Len(q) - 1 /\ Len(q) \in Nat /\ Len(q) >= 1 /\ Head(q) = q[1]
      /\ \A k \in 1..Len(r.cmds) : r.cmds[k] = q[k + 1]
  BY HeadTailProperties, LenProperties, EmptySeq
<1> SUFFICES ASSUME NEW k \in 1..Len(r.cmds), r.cmds[k].set = "fullscreen" /\ r.cmds[k].to
             PROVE  /\ r.os.min = "full" /\ r.os.rect \in Placed
                    /\ \A j \in 1..(k - 1) : r.cmds[j].set = "top"
  BY DEF CoversPlaced
<1>2. k + 1 \in 1..Len(q) /\ q[k + 1].set = "fullscreen" /\ q[k + 1].to /\ (k + 1) - 1 = k
  BY <1>1
<1>3. w.os.min = "full" /\ w.os.rect \in Placed /\ \A j \in 1..k : q[j].set = "top"
  BY <1>2 DEF CoversPlaced
<1>4. q[1].set = "top"
  BY <1>3
<1>5. \A j \in 1..(k - 1) : j + 1 \in 1..k /\ r.cmds[j] = q[j + 1]
  BY <1>1
<1> QED
  BY <1>1, <1>3, <1>4, <1>5

\* One command of the queue reaches the window: what is left of the queue still
\* leaves every attribute as before.
LEMMA AppliedKeeps ==
  ASSUME NEW w, WInv(w), w.cmds # <<>>,
         NEW o, o = ApplyOne(w.os, Head(w.cmds)),
         NEW r, r = [app |-> w.app, os |-> o, disk |-> w.disk, unsaved |-> w.unsaved,
                     cmds |-> Tail(w.cmds), fails |-> w.fails]
  PROVE  WInv(r)
PROOF
<1> DEFINE c == Head(w.cmds)
           u == w.os
           q == w.cmds
<1>1. /\ w \in Worlds /\ w.app \in Apps /\ u \in Windows /\ q \in Seq(Commands) /\ q # <<>>
      /\ AppInv(w) /\ QueueInv(w) /\ RectInv(w) /\ Kept(w)
  BY DEF WInv, Worlds, AppInv
<1>2. c \in Commands /\ Tail(q) \in Seq(Commands) /\ c = q[1] /\ 1 \in 1..Len(q)
  BY <1>1, HeadTailProperties, EmptySeq, LenProperties
<1>3. /\ u.rect \in Rects /\ u.under \in Placed \cup {NoRect} /\ (u.full <=> u.under # NoRect)
      /\ u.full \in BOOLEAN
  BY <1>1 DEF RectInv, Windows
<1> HIDE DEF c, u, q
<1>4. o = ApplyOne(u, c)
  BY DEF c, u
<1>5. \A rect \in Placed : rect \in Rects /\ [kind |-> "screen", at |-> rect.at] \in Placed
  BY DEF Placed, Rects
\* What one command does to the window.
<1>6. /\ o \in Windows /\ o.base = u.base
      /\ o.decorated = (IF c.set = "decorated" THEN c.to ELSE u.decorated)
      /\ o.top = (IF c.set = "top" THEN c.to ELSE u.top)
      /\ o.min = (IF c.set = "min" THEN c.to ELSE u.min)
      /\ o.full = (IF c.set = "fullscreen" THEN c.to ELSE u.full)
      /\ o.style = u.style \/ o.style = o.base
      /\ c.set \in {"decorated", "top"} => o.style = o.base
      /\ o.under \in Placed \cup {NoRect} /\ (o.full <=> o.under # NoRect)
      /\ u.rect \in Placed => o.rect \in Placed
      /\ c.set = "rect" => o.rect \in Placed
      /\ c.set = "top" => o.rect = u.rect /\ o.min = u.min
  <2>1. CASE c.set = "decorated"
    <3>1. o = [u EXCEPT !.decorated = c.to, !.style = u.base] /\ c.to \in BOOLEAN
      BY <1>2, <1>4, <2>1 DEF ApplyOne, Commands
    <3> QED
      BY <1>1, <1>3, <2>1, <3>1 DEF Windows
  <2>2. CASE c.set = "top"
    <3>1. o = [u EXCEPT !.top = c.to, !.style = u.base] /\ c.to \in BOOLEAN
      BY <1>2, <1>4, <2>2 DEF ApplyOne, Commands
    <3> QED
      BY <1>1, <1>3, <2>2, <3>1 DEF Windows
  <2>3. CASE c.set = "rect"
    <3>1. o = [u EXCEPT !.rect = c.to] /\ c.to \in Placed
      BY <1>2, <1>4, <2>3 DEF ApplyOne, Commands
    <3>2. c.to \in Rects
      BY <1>5, <3>1
    <3> QED
      BY <1>1, <1>3, <2>3, <3>1, <3>2 DEF Windows
  <2>4. CASE c.set = "min"
    <3> DEFINE rect == [u.rect EXCEPT !.kind = IF c.to = "full" /\ u.rect.kind \in {"band", "stray"}
                                               THEN "clamped" ELSE u.rect.kind]
    <3>1. o = [u EXCEPT !.min = c.to, !.rect = rect] /\ c.to \in {"full", "one"}
      BY <1>1, <1>2, <1>4, <2>4 DEF ApplyOne, Commands, Windows
    <3>2. rect \in Rects /\ (u.rect \in Placed => rect \in Placed)
      BY <1>3 DEF Rects, Placed
    <3> HIDE DEF rect
    <3> QED
      BY <1>1, <1>3, <2>4, <3>1, <3>2 DEF Windows
  <2>5. CASE c.set = "fullscreen"
    <3>0. c.to \in BOOLEAN
      BY <1>2, <2>5 DEF Commands
    <3>1. CASE c.to = u.full
      <4>1. o = u
        BY <1>4, <2>5, <3>1 DEF ApplyOne
      <4> QED
        BY <1>1, <1>3, <2>5, <3>1, <4>1
    <3>2. CASE c.to # u.full /\ c.to
      <4>1. u.rect \in Placed
        <5>1. q[1].set = "fullscreen" /\ q[1].to
          BY <1>2, <2>5, <3>2
        <5> QED
          BY <1>1, <1>2, <5>1 DEF RectInv, CoversPlaced, q, u
      <4> DEFINE rect == [kind |-> "screen", at |-> u.rect.at]
      <4>2. o = [u EXCEPT !.full = TRUE, !.under = u.rect, !.style = u.base, !.rect = rect]
        BY <1>4, <2>5, <3>2 DEF ApplyOne
      <4>3. rect \in Placed /\ rect \in Rects /\ u.rect # NoRect
        BY <1>5, <4>1 DEF Placed, NoRect
      <4> HIDE DEF rect
      <4> QED
        BY <1>1, <1>3, <2>5, <3>2, <4>1, <4>2, <4>3 DEF Windows
    <3>3. CASE c.to # u.full /\ ~c.to
      <4>1. u.under \in Placed /\ u.under \in Rects
        BY <1>3, <1>5, <3>0, <3>3
      <4>2. o = [u EXCEPT !.full = FALSE, !.rect = u.under, !.under = NoRect, !.style = u.base]
        BY <1>4, <2>5, <3>3 DEF ApplyOne
      <4> QED
        BY <1>1, <1>3, <2>5, <3>0, <3>3, <4>1, <4>2 DEF Windows
    <3> QED
      BY <3>1, <3>2, <3>3
  <2> QED
    BY <1>2, <2>1, <2>2, <2>3, <2>4, <2>5 DEF Commands
<1>7. r.app = w.app /\ r.disk = w.disk /\ r.unsaved = w.unsaved /\ r.os = o /\ r.cmds = Tail(q)
  BY <1>1 DEF Worlds, q
<1>8. r \in Worlds
  BY <1>1, <1>2, <1>6, <1>7 DEF Worlds
<1>9. AppInv(r)
  BY <1>1, <1>7 DEF AppInv, Kept
<1>10. ASSUME NEW what, NEW now, NEW last, Ends(q, what, now, last)
       PROVE  Ends(Tail(q), what, IF c.set = what THEN c.to ELSE now, last)
  BY <1>1, <1>10, EndsApplied DEF c, q
<1>11. ASSUME NEW attributes, Queued(q, attributes), c.set \notin attributes
       PROVE  Queued(Tail(q), attributes)
  BY <1>1, <1>11, QueuedApplied DEF c, q
<1>12. QueueInv(r)
  <2>1. Ends(Tail(q), "min", o.min, IF w.app.applied THEN "one" ELSE "full")
    BY <1>1, <1>6, <1>10 DEF QueueInv, q, u
  <2>2. Ends(Tail(q), "fullscreen", o.full, w.app.full)
    BY <1>1, <1>6, <1>10 DEF QueueInv, q, u
  <2>3. ~w.app.applied => o.style = o.base \/ Queued(Tail(q), {"decorated", "top"})
    BY <1>1, <1>6, <1>11 DEF QueueInv, q, u
  <2>4. \A last : Ends(q, "decorated", u.decorated, last) => Ends(Tail(q), "decorated", o.decorated, last)
    BY <1>6, <1>10
  <2>5. \A last : Ends(q, "top", u.top, last) => Ends(Tail(q), "top", o.top, last)
    BY <1>6, <1>10
  <2> QED
    BY <1>1, <1>7, <2>1, <2>2, <2>3, <2>4, <2>5 DEF QueueInv, q, u
<1>13. CoversPlaced(r)
  <2>1. CoversPlaced(w)
    BY <1>1 DEF RectInv
  <2>2. c.set = "top" => r.os.min = w.os.min /\ r.os.rect = w.os.rect
    BY <1>6, <1>7 DEF u
  <2>3. r.cmds = Tail(w.cmds) /\ w.cmds \in Seq(Commands) /\ w.cmds # <<>>
    BY <1>1, <1>7 DEF q
  <2> QED
    BY <2>1, <2>2, <2>3, AppliedCovers DEF c
<1>14. ~w.app.applied => o.rect \in Placed \/ Queued(Tail(q), {"rect"})
  <2>1. ~w.app.applied => u.rect \in Placed \/ Queued(q, {"rect"})
    BY <1>1 DEF RectInv, q, u
  <2> QED
    BY <1>6, <1>11, <2>1
<1>15. RectInv(r)
  BY <1>6, <1>7, <1>13, <1>14 DEF RectInv
<1> QED
  BY <1>8, <1>9, <1>12, <1>15 DEF WInv

LEMMA ApplyCommandInv == ASSUME IInv, ApplyCommand PROVE IInv'
PROOF
<1>1. WInv(World) /\ World \in Worlds /\ Around
  BY IInvParts
<1>2. /\ cmds # <<>> /\ ~rerun /\ os' = ApplyOne(os, Head(cmds)) /\ cmds' = Tail(cmds)
      /\ UNCHANGED <<run, app, rerun, disk, unsaved, monitors, entered, pushed>>
  BY DEF ApplyCommand
<1>3. World' = [app |-> World.app, os |-> os', disk |-> World.disk, unsaved |-> World.unsaved,
                cmds |-> Tail(World.cmds), fails |-> World.fails]
  BY <1>2 DEF World, WorldWith
<1>4. WInv(World')
  BY <1>1, <1>2, <1>3, WorldParts, AppliedKeeps
<1>5. Around' /\ ~rerun' /\ (app'.applied => entered' = app'.restore)
  BY <1>1, <1>2 DEF Around, IInv
<1>6. ~pushed' => OnItsMonitor(World)'
  BY <1>2, WorldParts DEF IInv, OnItsMonitor
<1> QED
  BY <1>4, <1>5, <1>6, StepInv

\* The window changes from outside, with nothing queued.
LEMMA OutsideInv ==
  ASSUME IInv, cmds = <<>>, rerun = FALSE, os' \in Windows, Around',
         UNCHANGED <<app, cmds, rerun, disk, unsaved, entered>>,
         ~pushed' => OnItsMonitor(World)',
         os'.min = os.min, os'.full = os.full, os'.decorated = os.decorated, os'.base = os.base,
         ~app.applied => os'.top = os.top /\ os'.style = os.style,
         os.rect \in Placed => os'.rect \in Placed,
         os'.under \in Placed \cup {NoRect}, os'.under = NoRect <=> os.under = NoRect
  PROVE  IInv'
PROOF
<1>1. /\ WInv(World) /\ World \in Worlds /\ AppInv(World) /\ QueueInv(World) /\ RectInv(World)
      /\ app \in Apps /\ disk \in Configs /\ unsaved \in BOOLEAN /\ cmds \in Seq(Commands)
  BY IInvParts
<1>2. /\ World'.app = app /\ World'.os = os' /\ World'.disk = disk /\ World'.cmds = cmds
      /\ World'.unsaved = unsaved
  BY WorldParts
<1>3. World' \in Worlds
  BY <1>1 DEF World, WorldWith, Worlds
<1>4. AppInv(World)'
  BY <1>1, <1>2, WorldParts DEF AppInv, Kept
<1>5. QueueInv(World)'
  <2>1. /\ Ends(cmds, "min", os'.min, IF app.applied THEN "one" ELSE "full")
        /\ Ends(cmds, "fullscreen", os'.full, app.full)
    BY <1>1, WorldParts DEF QueueInv
  <2>2. ~app.applied => os'.style = os'.base
    BY <1>1, WorldParts, EndsEmpty DEF QueueInv
  <2>3. ~app.applied /\ ~app.cfg.mini =>
          /\ Ends(cmds, "decorated", os'.decorated, ~app.full)
          /\ \/ Ends(cmds, "top", os'.top, app.level)
             \/ Ends(cmds, "top", os'.top, app.cfg.onTop)
    BY <1>1, WorldParts DEF QueueInv
  <2> QED
    BY <1>2, <2>1, <2>2, <2>3 DEF QueueInv
<1>6. RectInv(World)'
  <2>1. CoversPlaced(World)'
    BY <1>2 DEF CoversPlaced
  <2>2. (os.full <=> os.under # NoRect) /\ (~app.applied => os.rect \in Placed)
    BY <1>1, WorldParts, EndsEmpty DEF RectInv
  <2> QED
    BY <1>2, <2>1, <2>2 DEF RectInv
<1>7. WInv(World)' /\ ~rerun'
  BY <1>3, <1>4, <1>5, <1>6 DEF WInv
<1>8. app'.applied => entered' = app'.restore
  BY DEF IInv
<1> QED
  BY <1>7, <1>8, StepInv

LEMMA UserMovesInv == ASSUME IInv, UserMoves PROVE IInv'
PROOF
<1>1. PICK m \in monitors : os' = [os EXCEPT !.rect = Home(m)]
  BY DEF UserMoves
<1>2. /\ cmds = <<>> /\ ~rerun
      /\ UNCHANGED <<run, app, cmds, rerun, disk, unsaved, monitors, entered, pushed>>
  BY DEF UserMoves, Steady
<1>3. Around /\ os \in Windows /\ RectInv(World)
  BY IInvParts
<1>4. Home(m) \in Placed /\ Home(m) \in Rects
  BY <1>3 DEF Around, Home, Placed, Rects
<1>5. /\ os' \in Windows /\ os'.min = os.min /\ os'.full = os.full
      /\ os'.decorated = os.decorated /\ os'.base = os.base /\ os'.top = os.top
      /\ os'.style = os.style /\ os'.rect = Home(m) /\ os'.under = os.under
  BY <1>1, <1>3, <1>4 DEF Windows
<1>6. os.under \in Placed \cup {NoRect}
  BY <1>3, WorldParts DEF RectInv
<1>7. Around' /\ rerun = FALSE
  BY <1>2, <1>3 DEF Around
<1>8. ~pushed' => OnItsMonitor(World)'
  BY <1>2, WorldParts DEF IInv, OnItsMonitor
<1> QED
  BY <1>2, <1>4, <1>5, <1>6, <1>7, <1>8, OutsideInv

LEMMA MonitorGoesInv == ASSUME IInv, MonitorGoes PROVE IInv'
PROOF
<1>1. PICK m \in monitors :
        /\ monitors # {m} /\ monitors' = monitors \ {m}
        /\ pushed' = (pushed \/ app.strip.dev = m)
        /\ IF os.rect.at # m THEN UNCHANGED os
           ELSE \E n \in monitors' :
                  os' = [os EXCEPT !.rect = [kind |-> IF @.kind = "band" THEN "stray" ELSE @.kind,
                                             at |-> n],
                                   !.under = IF @ = NoRect THEN @ ELSE [kind |-> @.kind, at |-> n]]
  BY DEF MonitorGoes
<1>2. /\ cmds = <<>> /\ ~rerun
      /\ UNCHANGED <<run, app, cmds, rerun, disk, unsaved, entered>>
  BY DEF MonitorGoes
<1>3. Around /\ os \in Windows /\ RectInv(World)
  BY IInvParts
<1>4. os.under \in Placed \cup {NoRect} /\ os.rect \in Rects
  BY <1>3, WorldParts DEF RectInv, Windows
<1>5. Around' /\ rerun = FALSE
  BY <1>1, <1>2, <1>3 DEF Around
<1>8. ~pushed' => OnItsMonitor(World)'
  BY <1>1, <1>2, WorldParts DEF IInv, OnItsMonitor
<1>6. CASE os.rect.at # m
  BY <1>1, <1>2, <1>3, <1>4, <1>5, <1>6, <1>8, OutsideInv
<1>7. CASE os.rect.at = m
  <2> DEFINE kind == IF os.rect.kind = "band" THEN "stray" ELSE os.rect.kind
  <2>1. PICK n \in monitors' :
          os' = [os EXCEPT !.rect = [kind |-> kind, at |-> n],
                           !.under = IF os.under = NoRect THEN os.under
                                     ELSE [kind |-> os.under.kind, at |-> n]]
    BY <1>1, <1>7
  <2> DEFINE rect == [kind |-> kind, at |-> n]
             under == IF os.under = NoRect THEN os.under ELSE [kind |-> os.under.kind, at |-> n]
  <2>2. n \in Monitors
    BY <1>5, <2>1 DEF Around
  <2>3. rect \in Rects /\ (os.rect \in Placed => rect \in Placed)
    BY <1>4, <2>2 DEF Rects, Placed
  <2>4. under \in Placed \cup {NoRect} /\ (under = NoRect <=> os.under = NoRect)
    <3>1. CASE os.under = NoRect
      BY <3>1
    <3>2. CASE os.under # NoRect
      <4>1. [kind |-> os.under.kind, at |-> n] \in Placed
        BY <1>4, <2>2, <3>2 DEF Placed, Rects
      <4> QED
        BY <3>2, <4>1 DEF Placed, NoRect
    <3> QED
      BY <3>1, <3>2
  <2>5. under \in Rects \cup {NoRect}
    BY <2>4 DEF Placed
  <2>6. os' = [os EXCEPT !.rect = rect, !.under = under]
    BY <2>1
  <2> HIDE DEF rect, under
  <2>7. /\ os' \in Windows /\ os'.min = os.min /\ os'.full = os.full
        /\ os'.decorated = os.decorated /\ os'.base = os.base /\ os'.top = os.top
        /\ os'.style = os.style /\ os'.rect = rect /\ os'.under = under
    BY <1>3, <2>3, <2>5, <2>6 DEF Windows
  <2> QED
    BY <1>2, <1>5, <1>8, <2>3, <2>4, <2>7, OutsideInv
<1> QED
  BY <1>6, <1>7

LEMMA MonitorComesInv == ASSUME IInv, MonitorComes PROVE IInv'
PROOF
<1>1. /\ UNCHANGED <<run, app, os, cmds, rerun, disk, unsaved, entered, pushed>>
      /\ \E m \in Monitors \ monitors : monitors' = monitors \cup {m}
  BY DEF MonitorComes
<1>2. Around /\ WInv(World) /\ World' = World
  BY <1>1, IInvParts DEF World, WorldWith
<1>3. Around'
  BY <1>1, <1>2 DEF Around
<1>4. (rerun' => Clear(World')) /\ (app'.applied => entered' = app'.restore)
  BY <1>1, <1>2 DEF IInv
<1>5. ~pushed' => OnItsMonitor(World)'
  BY <1>1, WorldParts DEF IInv, OnItsMonitor
<1> QED
  BY <1>2, <1>3, <1>4, <1>5, StepInv

LEMMA DisturbInv == ASSUME IInv, Disturb PROVE IInv'
PROOF
<1>1. /\ cmds = <<>> /\ ~rerun /\ app.strip # NoStrip
      /\ os' = [os EXCEPT !.style = os.base] \/ os' = [os EXCEPT !.top = FALSE]
      /\ UNCHANGED <<run, app, cmds, rerun, disk, unsaved, monitors, entered, pushed>>
  BY DEF Disturb, Steady
<1>2. Around /\ os \in Windows /\ RectInv(World) /\ AppInv(World)
  BY IInvParts
<1>3. app.applied
  BY <1>1, <1>2, WorldParts DEF AppInv
<1>4. /\ os' \in Windows /\ os'.min = os.min /\ os'.full = os.full
      /\ os'.decorated = os.decorated /\ os'.base = os.base
      /\ os'.rect = os.rect /\ os'.under = os.under
  <2>1. CASE os' = [os EXCEPT !.style = os.base]
    BY <1>2, <2>1 DEF Windows
  <2>2. CASE os' = [os EXCEPT !.top = FALSE]
    BY <1>2, <2>2 DEF Windows
  <2> QED
    BY <1>1, <2>1, <2>2
<1>5. os.under \in Placed \cup {NoRect}
  BY <1>2, WorldParts DEF RectInv
<1>6. Around' /\ rerun = FALSE
  BY <1>1, <1>2 DEF Around
<1>7. ~pushed' => OnItsMonitor(World)'
  BY <1>1, WorldParts DEF IInv, OnItsMonitor
<1> QED
  BY <1>1, <1>3, <1>4, <1>5, <1>6, <1>7, OutsideInv

LEMMA SecondPassesInv == ASSUME IInv, SecondPasses PROVE IInv'
PROOF
<1>1. /\ app' = [app EXCEPT !.refreshed = "old"]
      /\ UNCHANGED <<run, os, cmds, rerun, disk, unsaved, monitors, entered, pushed>>
  BY DEF SecondPasses
<1>2. /\ Around /\ WInv(World) /\ app \in Apps /\ os \in Windows /\ disk \in Configs
      /\ unsaved \in BOOLEAN /\ cmds \in Seq(Commands)
  BY IInvParts
<1>3. app' \in Apps /\ SameModes(app', app)
  BY <1>1, <1>2 DEF Apps, SameModes
<1>4. World' \in Worlds
  BY <1>1, <1>2, <1>3 DEF World, WorldWith, Worlds
<1>5. /\ SameModes(World'.app, World.app) /\ World'.os = World.os /\ World'.cmds = World.cmds
      /\ World'.disk = World.disk /\ World'.unsaved = World.unsaved
  BY <1>1, <1>3, WorldParts
<1>6. WInv(World')
  BY <1>2, <1>4, <1>5, OtherFieldsKeep
<1>7. Around' /\ (rerun' => Clear(World')) /\ (app'.applied => entered' = app'.restore)
  BY <1>1, <1>2, <1>3, <1>5 DEF Around, IInv, Clear, SameModes
<1>8. ~pushed' => OnItsMonitor(World)'
  BY <1>1, <1>3, WorldParts DEF IInv, OnItsMonitor, SameModes
<1> QED
  BY <1>6, <1>7, <1>8, StepInv

\* A window is made, or made ready to be made again.
LEMMA FreshInv ==
  ASSUME IInv, NEW m \in monitors, app' = Started(disk), os' = Created(disk, m, os.base),
         cmds' = <<>>, rerun' = FALSE, entered' = NoRect, UNCHANGED <<disk, monitors>>,
         unsaved' = FALSE, pushed' = FALSE,
         run' \in {"glow", "wgpu", "exited"}
  PROVE  IInv'
PROOF
<1>1. Around /\ os \in Windows /\ disk \in Configs
  BY IInvParts
<1>2. m \in Monitors /\ os.base \in SUBSET Overlay
  BY <1>1 DEF Around, Windows
<1>3. World' = [app |-> Started(disk), os |-> Created(disk, m, os.base), disk |-> disk,
                unsaved |-> FALSE, cmds |-> <<>>, fails |-> {}]
  BY DEF World, WorldWith
<1>4. WInv(World') /\ ~World'.app.applied
  BY <1>1, <1>2, <1>3, FreshWindow
<1>5. Around' /\ ~app'.applied
  BY <1>1, <1>4, WorldParts DEF Around
<1>6. OnItsMonitor(World)'
  BY <1>4, WorldParts DEF WInv, AppInv, OnItsMonitor
<1> QED
  BY <1>4, <1>5, <1>6, StepInv

LEMMA ExitInv == ASSUME IInv, Exit PROVE IInv'
PROOF
<1> DEFINE m == CHOOSE m \in monitors : TRUE
<1>1. m \in monitors
  <2>1. \E n \in monitors : TRUE
    BY IInvParts DEF Around
  <2> QED
    BY <2>1
<1>2. /\ run' = "exited" /\ app' = Started(disk) /\ cmds' = <<>> /\ entered' = NoRect
      /\ os' = Created(disk, m, os.base) /\ UNCHANGED <<rerun, disk, monitors>> /\ rerun = FALSE
      /\ unsaved' = FALSE /\ pushed' = FALSE
  BY IInvParts DEF Exit, Around
<1> HIDE DEF m
<1> QED
  BY <1>1, <1>2, FreshInv

LEMMA RunAppInv ==
  ASSUME IInv, NEW renderer \in {"glow", "wgpu"}, RunApp(renderer), UNCHANGED <<disk, monitors>>
  PROVE  IInv'
PROOF
<1>1. PICK m \in monitors : os' = Created(disk, m, os.base)
  BY DEF RunApp
<1> QED
  BY <1>1, FreshInv DEF RunApp

LEMMA NextInv == IInv /\ [Next]_vars => IInv'
PROOF
<1> SUFFICES ASSUME IInv, [Next]_vars PROVE IInv'
  OBVIOUS
<1>1. CASE Frame
  BY <1>1, PassInv DEF Frame
<1>2. CASE ApplyCommand
  BY <1>2, ApplyCommandInv
<1>3. CASE SecondPasses
  BY <1>3, SecondPassesInv
<1>4. CASE Close
  BY <1>4, ExitInv DEF Close
<1>5. CASE Kill
  BY <1>5, ExitInv DEF Kill
<1>6. CASE FallBack
  BY <1>6, RunAppInv DEF FallBack
<1>7. CASE Launch
  BY <1>7, RunAppInv DEF Launch
<1>8. CASE UserMoves
  BY <1>8, UserMovesInv
<1>9. CASE MonitorGoes
  BY <1>9, MonitorGoesInv
<1>10. CASE MonitorComes
  BY <1>10, MonitorComesInv
<1>11. CASE Disturb
  BY <1>11, DisturbInv
<1>12. CASE UNCHANGED vars
  <2>1. UNCHANGED <<run, app, os, cmds, rerun, disk, unsaved, monitors, entered, pushed>>
    BY <1>12 DEF vars
  <2>2. World' = World /\ Around' /\ WInv(World)
    BY <2>1, IInvParts DEF World, WorldWith, Around
  <2>3. (rerun' => Clear(World')) /\ (app'.applied => entered' = app'.restore)
    BY <2>1, <2>2 DEF IInv
  <2>4. ~pushed' => OnItsMonitor(World)'
    BY <2>1, WorldParts DEF IInv, OnItsMonitor
  <2> QED
    BY <2>2, <2>3, <2>4, StepInv
<1> QED
  BY <1>1, <1>2, <1>3, <1>4, <1>5, <1>6, <1>7, <1>8, <1>9, <1>10, <1>11, <1>12 DEF Next

-----------------------------------------------------------------------------
(* The theorems.                                                           *)

\* Types: of the window, of the app's fields and of what is remembered.
THEOREM TypeCorrect == Spec => []TypeOK
PROOF
<1>1. IInv => TypeOK
  BY DEF IInv
<1> QED
  BY InitInv, NextInv, <1>1, PTL DEF Spec

\* Between two frames the saved file holds the mode the window is in, the level
\* the user chose and the monitor the strip was placed on, which is the one it
\* stands on until that monitor goes away: no handler of app.rs changes the
\* config and leaves without save_config, and only a save that failed is lost.
THEOREM ModeIsOnDiskCorrect == Spec => []ModeIsOnDisk
PROOF
<1>1. ASSUME IInv, Steady, ~unsaved
      PROVE  /\ disk = app.cfg
             /\ app.applied => disk.mini
             /\ app.strip # NoStrip /\ ~pushed => disk.monitor = app.strip.dev
  <2>1. AppInv(World) /\ (~pushed => OnItsMonitor(World))
    BY <1>1, IInvParts DEF IInv
  <2>2. disk = app.cfg /\ (app.applied => disk.mini)
    BY <1>1, <2>1, WorldParts DEF AppInv, Kept
  <2> QED
    BY <2>1, <2>2, WorldParts DEF OnItsMonitor
<1>2. IInv => ModeIsOnDisk
  BY <1>1 DEF ModeIsOnDisk
<1> QED
  BY InitInv, NextInv, <1>2, PTL DEF Spec

\* strip_restore holds the rectangle of the window this stay in the strip began
\* from, whatever monitors, passes and disturbances came between.
THEOREM RestoresWhereItWasCorrect == Spec => []RestoresWhereItWas
PROOF
<1>1. IInv => RestoresWhereItWas
  BY IInvParts, WorldParts DEF IInv, AppInv, RestoresWhereItWas, Placed
<1> QED
  BY InitInv, NextInv, <1>1, PTL DEF Spec

\* The full window is whole between two frames: what leave_strip, enter_strip,
\* F11 and the level switches queued has put every attribute where it belongs.
THEOREM FullWindowIsWholeCorrect == Spec => []FullWindowIsWhole
PROOF
<1>1. ASSUME IInv PROVE FullWindowIsWhole
  <2> SUFFICES ASSUME cmds = <<>>, ~app.cfg.mini PROVE
        /\ app.strip = NoStrip /\ ~app.applied /\ ~app.placeDue
        /\ os.min = "full" /\ os.style = os.base
        /\ app.full = os.full /\ os.decorated = ~os.full
        /\ os.top \in {app.level, app.cfg.onTop}
        /\ os.rect.kind \in {"home", "screen", "clamped"}
    BY DEF FullWindowIsWhole, Steady
  <2>1. AppInv(World) /\ QueueInv(World) /\ RectInv(World)
    BY <1>1, IInvParts
  <2>2. app.strip = NoStrip /\ ~app.applied /\ ~app.placeDue
    BY <2>1, WorldParts DEF AppInv
  <2>3. os.min = "full" /\ os.full = app.full /\ os.style = os.base
    BY <2>1, <2>2, WorldParts, EndsEmpty DEF QueueInv
  <2>4. os.decorated = ~app.full /\ (os.top = app.level \/ os.top = app.cfg.onTop)
    BY <2>1, <2>2, WorldParts, EndsEmpty DEF QueueInv
  <2>5. os.rect \in Placed
    BY <2>1, <2>2, WorldParts, EndsEmpty DEF RectInv
  <2> QED
    BY <2>2, <2>3, <2>4, <2>5 DEF Placed
<1> QED
  BY InitInv, NextInv, <1>1, PTL DEF Spec
=============================================================================
