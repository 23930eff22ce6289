-------------------------------- MODULE Cli ---------------------------------
(***************************************************************************)
(* perfwindow-cli (cli/mod.rs, args.rs, live.rs, term.rs): parse, check    *)
(* the switch, connect as the window does, wait until every sensor         *)
(* category has loaded, then print one report, print one per sample        *)
(* (--watch), or keep a live dashboard until the user leaves.              *)
(*                                                                         *)
(* The main thread looks at the shared SensorState every 100 ms while the  *)
(* reader thread overwrites it, so it may skip samples and see one twice.  *)
(* The connect worker, the service (which may die, or hang without a       *)
(* word), the user's keys, the output pipe and the clock interleave.       *)
(***************************************************************************)
EXTENDS Integers, Sequences, SequencesExt

CONSTANTS
  Tokens,      \* command-line arguments tried
  MaxArgs,     \* bound on their number
  Stages,      \* sensor categories the service loads
  MaxSample,   \* bound on samples the service sends
  PerSecond    \* samples that share one seconds-resolution `ts`

ASSUME CliAssumption ==
  /\ {MaxArgs, Stages, MaxSample} \subseteq Nat /\ PerSecond \in Nat \ {0}

Flags == {"--json", "--once", "--no-color", "--watch", "--help", "--version", "--bogus"}
Seconds == {"1", "60"}                      \* whole numbers of seconds in WATCH_RANGE_S
NoSample == [n |-> 0, partial |-> TRUE]
Options == [json: BOOLEAN, watch: BOOLEAN, once: BOOLEAN]
Plain == [json |-> FALSE, watch |-> FALSE, once |-> FALSE]

VARIABLES
  args, opts,  \* the command line and what parse made of it
  env,         \* stdin and stdout a terminal, stderr a terminal, config.cli_enabled
  stage,       \* where run() is
  code,        \* exit code; 99: none yet; 130: killed by Ctrl+C
  pipe,        \* "none", "open", "shut"
  prompted,    \* history: the Windows prompt was announced
  shared,      \* SensorState: alive, latest, categories left to load (-1: no progress
               \* line); samples sent and the first whole one are history
  stamped,     \* the service sends ts_ms
  late,        \* LOAD_TIMEOUT has passed since `started`
  held,        \* the sample the loop holds: `sample`, or model.snapshot
  stale,       \* the dashboard's frame is older than its model or terminal
  raw,         \* the terminal is in the dashboard's screen
  statusLine,  \* the status line on stderr: enabled, something shown
  put          \* history: the last two samples printed, or drawn and different

cliVars == <<args, opts, env, stage, code, pipe, prompted, shared, stamped, late, held,
             stale, raw, statusLine, put>>
main == <<args, opts, env, stage, code, pipe, prompted, late, held, stale, raw, statusLine, put>>

CliTypeOK ==
  /\ opts \in Options /\ code \in {0, 2, 3, 4, 99, 130}
  /\ stage \in {"parse", "gate", "connect", "first", "second", "print", "again",
                "open", "dash", "ended"}
  /\ pipe \in {"none", "open", "shut"}
  /\ env \in [tty: BOOLEAN, errTty: BOOLEAN, allowed: BOOLEAN]
  /\ {prompted, stamped, late, stale, raw} \subseteq BOOLEAN
  /\ statusLine \in [on: BOOLEAN, shown: BOOLEAN]
  /\ shared.alive \in BOOLEAN /\ shared.loading \in -1..Stages

-----------------------------------------------------------------------------
(* parse: one pass over the arguments.  `wants` is a --watch that may still *)
(* take the next argument as its seconds.                                   *)
Begun == [stop |-> "no", opts |-> Plain, wants |-> FALSE]
Take(acc, t) ==
  LET a == [acc EXCEPT !.wants = FALSE] IN
  IF acc.stop # "no" THEN acc ELSE
  CASE acc.wants /\ t \in Seconds   -> a
    [] t = "--json"                 -> [a EXCEPT !.opts.json = TRUE]
    [] t = "--once"                 -> [a EXCEPT !.opts.once = TRUE]
    [] t = "--no-color"             -> a
    [] t = "--watch"                -> [a EXCEPT !.opts.watch = TRUE, !.wants = TRUE]
    [] t \in {"--help", "--version"} -> [a EXCEPT !.stop = "help"]
    [] OTHER                        -> [a EXCEPT !.stop = "bad"]
Parsed(s) ==
  LET r == FoldLeft(Take, Begun, s) IN
  IF r.stop = "no" /\ r.opts.once /\ r.opts.watch THEN [r EXCEPT !.stop = "bad"] ELSE r

OpensDashboard == env.tty /\ opts = Plain

\* is_complete and is_new_sample, on the locked state.
Complete ==
  /\ shared.latest # NoSample /\ ~shared.latest.partial
  /\ shared.loading \in {-1, 0}
IsNew(last, s) ==
  \/ last = NoSample
  \/ IF stamped THEN s.n # last.n ELSE (s.n \div PerSecond) # (last.n \div PerSecond)
Fresh == Complete /\ IsNew(held, shared.latest)

CliInit ==
  /\ args \in SeqOf(Tokens, MaxArgs) /\ opts = Plain
  /\ env \in [tty: BOOLEAN, errTty: BOOLEAN, allowed: BOOLEAN]
  /\ stage = "parse" /\ code = 99 /\ pipe = "none" /\ prompted = FALSE
  /\ stamped \in BOOLEAN
  /\ shared = [alive |-> TRUE, latest |-> NoSample, loading |-> -1, sent |-> 0,
               firstWhole |-> 0]
  /\ late = FALSE /\ held = NoSample /\ stale = FALSE /\ raw = FALSE
  /\ statusLine = [on |-> env.errTty, shown |-> FALSE] /\ put = <<>>

-----------------------------------------------------------------------------
(* run(): one action per step of the main thread.                           *)
Done == [on |-> FALSE, shown |-> FALSE]               \* Status::finish
Show == statusLine' = [statusLine EXCEPT !.shown = statusLine.on]   \* Status::show

Ends(c) ==
  /\ stage' = "ended" /\ code' = c
  /\ pipe' = IF pipe = "open" THEN "shut" ELSE pipe
  /\ statusLine' = IF c = 4 THEN Done ELSE statusLine
  /\ held' = NoSample

ParseArgs ==
  /\ stage = "parse"
  /\ LET r == Parsed(args) IN
     /\ opts' = IF r.stop = "no" THEN r.opts ELSE Plain
     /\ CASE r.stop = "no"   -> stage' = "gate" /\ UNCHANGED <<code, pipe, statusLine, held>>
          [] r.stop = "help" -> Ends(0)
          [] OTHER           -> Ends(2)
  /\ args' = <<>>
  /\ UNCHANGED <<env, prompted, shared, stamped, late, stale, raw, put>>

Gate ==
  /\ stage = "gate"
  /\ IF env.allowed THEN stage' = "connect" /\ UNCHANGED <<code, pipe, statusLine, held>>
     ELSE Ends(3)
  /\ UNCHANGED <<args, opts, env, prompted, shared, stamped, late, stale, raw, put>>

\* The events of spawn_connect, in any order its worker may send them.
ConnectPhase ==
  /\ stage = "connect"
  /\ \/ Show /\ UNCHANGED prompted
     \/ Show /\ prompted' = TRUE
  /\ UNCHANGED <<args, opts, env, stage, code, pipe, shared, stamped, late, held, stale, raw, put>>

ConnectFails ==          \* a Failed phase, or a worker that is gone
  /\ stage = "connect" /\ Ends(4)
  /\ UNCHANGED <<args, opts, env, prompted, shared, stamped, late, stale, raw, put>>

ConnectReady ==
  /\ stage = "connect"
  /\ pipe' = "open" /\ stage' = "first"
  /\ UNCHANGED <<args, opts, env, code, prompted, shared, stamped, late, held, stale, raw,
                 statusLine, put>>

(* next_sample: one look at the shared state.                               *)
Printed == put' = IF Len(put) < 2 THEN Append(put, held) ELSE <<put[2], held>>
Drawn == IF put # <<>> /\ Last(put) = held THEN UNCHANGED put ELSE Printed

\* Mutant: one sample is enough for a report.
FoundAtOnce == IF stage = "first" /\ OpensDashboard THEN "open" ELSE "print"

Found ==
  CASE stage = "first" /\ OpensDashboard -> "open"
    [] stage = "first" /\ ~OpensDashboard /\ ~opts.watch -> "second"
    [] OTHER -> "print"

\* Mutant: the deadline is only looked at after the first sample.
GivesUpLate == ~Complete /\ late /\ stage # "first"

GivesUp == ~Complete /\ late

Waiting == stage \in {"first", "second", "again"}
Look ==
  /\ Waiting
  /\ IF ~shared.alive \/ GivesUp THEN Ends(4)
     ELSE IF Fresh
     THEN /\ held' = shared.latest /\ stage' = Found
          /\ statusLine' = IF stage' = "second" THEN statusLine ELSE Done
          /\ UNCHANGED <<code, pipe>>
     ELSE Show /\ UNCHANGED <<stage, code, pipe, held>>
  /\ UNCHANGED <<args, opts, env, prompted, shared, stamped, late, stale, raw, put>>

\* print_report; a pipe nobody reads any more fails the write.
PrintReport ==
  /\ stage = "print" /\ Printed
  /\ IF opts.watch THEN stage' = "again" /\ UNCHANGED <<code, pipe, statusLine, held>> ELSE Ends(0)
  /\ UNCHANGED <<args, opts, env, prompted, shared, stamped, late, stale, raw>>

PrintFails ==
  /\ stage = "print" /\ Ends(4)
  /\ UNCHANGED <<args, opts, env, prompted, shared, stamped, late, stale, raw, put>>

-----------------------------------------------------------------------------
(* live::run and watch: draw when stale, take a key, look at the state.     *)
OpenDashboard ==
  /\ stage = "open"
  /\ \/ /\ stage' = "dash" /\ raw' = TRUE /\ stale' = TRUE
        /\ UNCHANGED <<code, pipe, statusLine, held>>
     \/ Ends(4) /\ UNCHANGED <<raw, stale>>
  /\ UNCHANGED <<args, opts, env, prompted, shared, stamped, late, put>>

\* Mutant: only a clean end restores the terminal.
LeaveRaw(c) == Ends(c) /\ raw' = (c # 0) /\ stale' = FALSE

\* ratatui::restore runs however watch() ends.
Leave(c) == Ends(c) /\ raw' = FALSE /\ stale' = FALSE

Draw ==
  /\ stage = "dash" /\ stale
  /\ \/ stale' = FALSE /\ Drawn /\ UNCHANGED <<stage, code, pipe, statusLine, held, raw>>
     \/ Leave(4) /\ UNCHANGED put
  /\ UNCHANGED <<args, opts, env, prompted, shared, stamped, late>>

DashStep(event) ==
  /\ stage = "dash" /\ ~stale
  /\ CASE event = "quit"  -> Leave(0)
       [] event = "error" \/ (event # "quit" /\ ~shared.alive) -> Leave(4)
       [] OTHER ->
            /\ stale' = (event = "resize" \/ Fresh)
            /\ held' = IF Fresh THEN shared.latest ELSE held
            /\ UNCHANGED <<stage, code, pipe, statusLine, raw>>
  /\ UNCHANGED <<args, opts, env, prompted, shared, stamped, late, put>>

Dashboard == OpenDashboard \/ Draw \/ \E e \in {"none", "quit", "resize", "error"} : DashStep(e)

\* Ctrl+C outside the dashboard, where it is a key, ends the process.
Interrupt ==
  /\ stage \notin {"ended", "dash"}
  /\ stage' = "ended" /\ code' = 130
  /\ pipe' = IF pipe = "open" THEN "shut" ELSE pipe        \* the handles close
  /\ statusLine' = Done /\ held' = NoSample
  /\ UNCHANGED <<args, opts, env, prompted, shared, stamped, late, stale, raw, put>>

(* The reader thread applies the service's lines: per category a progress   *)
(* line naming it and a partial sample, a last line, then whole samples.    *)
(* A service older than the progress lines starts with whole samples.       *)
ProgressLine ==
  /\ pipe = "open" /\ shared.alive
  /\ \/ shared.loading = -1 /\ shared.sent = 0 /\ shared' = [shared EXCEPT !.loading = Stages]
     \/ shared.loading > 0 /\ shared' = [shared EXCEPT !.loading = @ - 1]
  /\ UNCHANGED <<main, stamped>>

SampleLine ==
  LET whole == shared.loading \in {-1, 0} IN
  /\ pipe = "open" /\ shared.alive /\ shared.sent < MaxSample
  /\ shared' = [shared EXCEPT
       !.sent = @ + 1, !.latest = [n |-> shared.sent + 1, partial |-> ~whole],
       !.firstWhole = IF whole /\ @ = 0 THEN shared.sent + 1 ELSE @]
  /\ UNCHANGED <<main, stamped>>

ServiceDies ==
  /\ pipe = "open" /\ shared.alive
  /\ shared' = [shared EXCEPT !.alive = FALSE]
  /\ UNCHANGED <<main, stamped>>

NinetySecondsPass ==
  /\ stage \in {"first", "second"} /\ ~late /\ late' = TRUE
  /\ UNCHANGED <<args, opts, env, stage, code, pipe, prompted, shared, stamped, held, stale,
                 raw, statusLine, put>>

CliNext ==
  \/ ParseArgs \/ Gate \/ ConnectPhase \/ ConnectFails \/ ConnectReady \/ Look
  \/ PrintReport \/ PrintFails \/ Dashboard \/ Interrupt
  \/ ProgressLine \/ SampleLine \/ ServiceDies \/ NinetySecondsPass

CliSpec == CliInit /\ [][CliNext]_cliVars
Fairness == WF_cliVars(Look) /\ WF_cliVars(NinetySecondsPass)
CliFairSpec == CliSpec /\ Fairness

-----------------------------------------------------------------------------
(* Nothing is printed or drawn from a sample taken while a category was     *)
(* still loading, no report repeats one, whatever the reader thread         *)
(* overwrote between two looks (is_complete, is_new_sample), and the rates   *)
(* of a single report have settled: its sample comes after another whole    *)
(* one (report_loop's second next_sample).                                  *)
SamplesAreSettled ==
  /\ \A i \in DOMAIN put : ~put[i].partial
  /\ Len(put) = 2 => put[1].n < put[2].n
  /\ (code = 0 /\ put # <<>> /\ ~opts.watch /\ (opts.once \/ opts.json \/ ~env.tty))
       => put[1].n > shared.firstWhole

(* However a run ends, the pipe is closed, the terminal is out of the       *)
(* dashboard's screen, no status line is left; the Windows prompt was only  *)
(* met with good arguments and the switch on, and 0 means it did its work.  *)
EndsClean ==
  stage = "ended" =>
    /\ pipe # "open" /\ ~raw
    /\ code \in {2, 3} => ~prompted /\ pipe = "none"
    /\ code = 0 /\ pipe = "shut" => put # <<>>
    /\ code = 0 => ~statusLine.shown

(* Waiting for sensors that never finish loading ends: with the sensors     *)
(* loaded, with an error after LOAD_TIMEOUT, or by the user.                *)
LoadingEnds == (stage \in {"first", "second"} /\ ~Complete) ~> (Complete \/ stage = "ended")
=============================================================================
