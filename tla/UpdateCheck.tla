---------------------------- MODULE UpdateCheck ----------------------------
(***************************************************************************)
(* Looking for a newer release: the check of a process start, which may    *)
(* answer from the cache, and the manual checks of the settings window     *)
(* (update/check.rs).  Each runs on a thread of its own; they share the    *)
(* UpdateState the UI reads and the cache file with its temporary sibling  *)
(* (update/cache.rs).                                                      *)
(*                                                                         *)
(* Releases are numbered; a release is newer than the program when its     *)
(* number is higher.  Time passes in ticks between checks.                 *)
(***************************************************************************)
EXTENDS Integers

CONSTANTS
  Newest,      \* bound: the highest release
  TTL,         \* ticks a cached answer stays fresh
  ManualMax,   \* bound: manual checks of one process
  MaxRestarts, \* bound: processes that follow the first
  MaxSteps     \* bound: backward steps of the clock

ASSUME BoundsAssumption == {Newest, TTL, ManualMax, MaxRestarts, MaxSteps} \subseteq Nat

VARIABLES
  released, \* the release the server calls the latest
  version,  \* CARGO_PKG_VERSION
  state,    \* the shared UpdateState
  pc,       \* where each check stands
  answer,   \* the release or the cached answer a check is going to use
  cache,    \* update-cache.json
  tmp,      \* update-cache.json.tmp
  handle,   \* the file a check's write goes to
  answered, \* history: ticks since the last answer of the server that was not lost
  steps,    \* backward steps of the clock (bounds the model)
  stepped,  \* history: one since that answer
  overlapped, \* history: two checks have run at once
  restarts  \* processes started so far (bounds the model)

vars == <<released, version, state, pc, answer, cache, tmp, handle, answered, steps,
          stepped, overlapped, restarts>>

AtStart == 0  \* the check at start; the others are manual
Checks  == AtStart .. ManualMax

\* An answer with its checked_at, as an age; -1 is a time in the future.
Ages    == -1 .. TTL + 1
Answers == [tag : 0 .. Newest, age : Ages]

NoAnswer == [tag |-> 0, age |-> -1]

\* A file is missing, cut short, or holds an answer.
NoFile   == [kind |-> "none", tag |-> 0, age |-> -1]
Torn     == [kind |-> "torn", tag |-> 0, age |-> -1]
Whole(a) == [kind |-> "whole", tag |-> a.tag, age |-> a.age]
Files    == [kind : {"whole"}, tag : 0 .. Newest, age : Ages] \cup {NoFile, Torn}

Idle         == [kind |-> "Idle", tag |-> 0]
Checking     == [kind |-> "Checking", tag |-> 0]
Failed       == [kind |-> "Failed", tag |-> 0]
NoUpdate     == [kind |-> "NoUpdate", tag |-> 0]
Available(t) == [kind |-> "Available", tag |-> t]
States       == [kind : {"Available"}, tag : 0 .. Newest]
                  \cup {Idle, Checking, Failed, NoUpdate}

files == <<cache, tmp, handle>>
world == <<released, version, steps, restarts>>
past  == <<answered, stepped, overlapped>>

Init ==
  /\ released \in 0 .. Newest /\ version = 0
  /\ state = Idle
  /\ pc = [c \in Checks |-> "none"] /\ answer = [c \in Checks |-> NoAnswer]
  /\ cache = NoFile /\ tmp = NoFile
  /\ handle = [c \in Checks |-> "none"]
  /\ answered = TTL + 1 /\ steps = 0 /\ stepped = FALSE /\ overlapped = FALSE
  /\ restarts = 0

-----------------------------------------------------------------------------
(* One check.                                                              *)

Goto(c, from, to) == pc[c] = from /\ pc' = [pc EXCEPT ![c] = to]
Use(c, a) == answer' = [answer EXCEPT ![c] = [tag |-> a.tag, age |-> a.age]]

Underway(c) == pc[c] \notin {"none", "done"}

\* run_check begins by publishing that it runs.
Begin(c) ==
  /\ Goto(c, "none", IF c = AtStart THEN "look" ELSE "fetch")
  /\ state' = Checking
  /\ overlapped' = (overlapped \/ \E d \in Checks : Underway(d))
  /\ UNCHANGED <<answer, files, world, answered, stepped>>

\* Cache::load: anything but a whole answer counts as no cache.
Loads == cache.kind = "whole"

\* Cache::is_stale, where a time in the future is stale as well.
IsStale == cache.age > TTL \/ cache.age < 0

Look(c) ==
  /\ \/ /\ Loads /\ ~IsStale
        /\ Goto(c, "look", "publish") /\ Use(c, cache)
     \/ /\ ~Loads \/ IsStale
        /\ Goto(c, "look", "fetch") /\ UNCHANGED answer
  /\ UNCHANGED <<state, files, world, past>>

\* Mutant: only an answer worth a banner is saved.
SavesNewer(t) == IF t > version THEN "save" ELSE "publish"

\* What follows a usable release: its answer is saved, newer or not.
AfterFetch(t) == "save"

\* The server answers with its latest release, refuses, or fails in another way;
\* only the automatic check passes over a refusal.
Fetch(c) ==
  /\ \/ /\ Goto(c, "fetch", AfterFetch(released))
        /\ Use(c, [tag |-> released, age |-> 0])
        /\ answered' = 0 /\ stepped' = FALSE /\ UNCHANGED overlapped
     \/ /\ Goto(c, "fetch", IF c = AtStart THEN "limited" ELSE "fail")
        /\ UNCHANGED <<answer, past>>
     \/ Goto(c, "fetch", "fail") /\ UNCHANGED <<answer, past>>
  /\ UNCHANGED <<state, files, world>>

\* Rate-limited: the last answer, of any age, or none.
Reload(c) ==
  /\ \/ Loads /\ Goto(c, "limited", "publish") /\ Use(c, cache)
     \/ ~Loads /\ Goto(c, "limited", "quiet") /\ UNCHANGED answer
  /\ UNCHANGED <<state, files, world, past>>

\* A check that can save nothing publishes all the same.
SaveFails(c) ==
  /\ Goto(c, "save", "publish")
  /\ answered' = TTL + 1
  /\ UNCHANGED <<state, answer, files, world, stepped, overlapped>>

\* Mutant: the cache itself is opened.
OpenCache(c) ==
  /\ Goto(c, "save", "write")
  /\ cache' = Torn /\ handle' = [handle EXCEPT ![c] = "cache"]
  /\ UNCHANGED <<state, answer, tmp, world, past>>

\* atomic_write opens the temporary file, which empties it,
OpenTmp(c) ==
  /\ Goto(c, "save", "write")
  /\ tmp' = Torn /\ handle' = [handle EXCEPT ![c] = "tmp"]
  /\ UNCHANGED <<state, answer, cache, world, past>>

\* writes to it, under whatever name it has by now,
WriteTmp(c) ==
  /\ Goto(c, "write", "rename")
  /\ tmp'   = IF handle[c] = "tmp" THEN Whole(answer[c]) ELSE tmp
  /\ cache' = IF handle[c] = "cache" THEN Whole(answer[c]) ELSE cache
  /\ handle' = [handle EXCEPT ![c] = "none"]
  /\ UNCHANGED <<state, answer, world, past>>

\* and renames what has the temporary name to the cache.
Rename(c) ==
  /\ Goto(c, "rename", "publish")
  /\ IF tmp.kind = "none" THEN UNCHANGED files
     ELSE /\ cache' = tmp /\ tmp' = NoFile
          /\ handle' = [d \in Checks |-> CASE handle[d] = "tmp" -> "cache"
                                           [] handle[d] = "cache" -> "lost"
                                           [] OTHER -> handle[d]]
  /\ UNCHANGED <<state, answer, world, past>>

\* An answer is offered only if it is newer than this program.
Result(a) == IF a.tag > version THEN Available(a.tag) ELSE NoUpdate

Publish(c) ==
  /\ Goto(c, "publish", "done")
  /\ state' = Result(answer[c])
  /\ UNCHANGED <<answer, files, world, past>>

PublishFailure(c) ==
  /\ Goto(c, "fail", "done")
  /\ state' = Failed
  /\ UNCHANGED <<answer, files, world, past>>

\* Mutant: quiet means to publish nothing at all.
SaysNothing(c) ==
  /\ Goto(c, "quiet", "done")
  /\ UNCHANGED <<state, answer, files, world, past>>

\* Neither a banner nor a failure.
StayQuiet(c) ==
  /\ Goto(c, "quiet", "done")
  /\ state' = Idle
  /\ UNCHANGED <<answer, files, world, past>>

Check(c) ==
  \/ Look(c) \/ Fetch(c) \/ Reload(c)
  \/ SaveFails(c) \/ OpenTmp(c) \/ WriteTmp(c) \/ Rename(c)
  \/ Publish(c) \/ PublishFailure(c) \/ StayQuiet(c)

-----------------------------------------------------------------------------
(* Around the checks.                                                      *)

Resting == \A c \in Checks : ~Underway(c)

ReleasePublished ==
  /\ released < Newest /\ released' = released + 1
  /\ UNCHANGED <<version, steps, restarts, state, pc, answer, files, past>>

Older(n) == IF n > TTL THEN n ELSE n + 1
Aged(f)  == IF f.kind = "whole" THEN [f EXCEPT !.age = Older(@)] ELSE f

\* Hours against the seconds of a check: no time passes during one.
Tick ==
  /\ Resting
  /\ cache' = Aged(cache) /\ tmp' = Aged(tmp) /\ answered' = Older(answered)
  /\ UNCHANGED <<handle, stepped, overlapped, world, state, pc, answer>>

\* The clock is set back behind the time of the cached answer.
ClockStepsBack ==
  /\ Resting /\ steps < MaxSteps /\ steps' = steps + 1
  /\ cache' = IF cache.kind = "whole" THEN [cache EXCEPT !.age = -1] ELSE cache
  /\ stepped' = TRUE
  /\ UNCHANGED <<tmp, handle, answered, overlapped, released, version, restarts, state, pc, answer>>

\* The process ends anywhere, and is started again, perhaps updated.
Restart ==
  /\ restarts < MaxRestarts /\ restarts' = restarts + 1
  /\ version' \in version .. released
  /\ state' = Idle
  /\ pc' = [c \in Checks |-> "none"] /\ answer' = [c \in Checks |-> NoAnswer]
  /\ handle' = [c \in Checks |-> "none"]
  /\ answered' = IF \E c \in Checks : pc[c] \in {"save", "write", "rename"}
                 THEN TTL + 1 ELSE answered
  /\ UNCHANGED <<released, steps, cache, tmp, stepped, overlapped>>

Next ==
  \/ \E c \in Checks : Begin(c) \/ Check(c)
  \/ ReleasePublished \/ Tick \/ ClockStepsBack \/ Restart

Spec == Init /\ [][Next]_vars

-----------------------------------------------------------------------------

\* Types, and: no check writes to a file after it has closed it.
TypeOK ==
  /\ released \in 0 .. Newest /\ version \in 0 .. released
  /\ state \in States
  /\ pc \in [Checks -> {"none", "look", "fetch", "limited", "save", "write", "rename",
                        "publish", "fail", "quiet", "done"}]
  /\ answer \in [Checks -> Answers]
  /\ cache \in Files /\ tmp \in Files
  /\ handle \in [Checks -> {"none", "tmp", "cache", "lost"}]
  /\ answered \in 0 .. TTL + 1
  /\ steps \in 0 .. MaxSteps /\ {stepped, overlapped} \subseteq BOOLEAN
  /\ restarts \in 0 .. MaxRestarts
  /\ \A c \in Checks : handle[c] # "none" <=> pc[c] = "write"

\* No release is offered that is not newer than the program, also from a cache that
\* an older program wrote (publish_cached compares again).
NeverOffersOld == state.kind = "Available" => state.tag > version

\* "Checking now" always has a check behind it that has not published yet, whichever
\* check spoke last.
CheckingHasCheck ==
  state = Checking => \E c \in Checks : Underway(c)

\* Where checks do not overlap, the check at start asks the server only when it gave
\* no answer within the TTL, newer or not, that could be saved, unless the clock was
\* set back (check.rs:97-99).
FetchIsDue ==
  [][pc[AtStart] = "look" /\ pc'[AtStart] = "fetch"
       => answered > TTL \/ stepped \/ overlapped]_vars

\* "A torn write leaves any previous file intact" (cache.rs:88-89).
CacheIsWhole == cache # Torn

\* It does, wherever the processes end, unless two checks ran at once.
TornByOverlap == overlapped \/ CacheIsWhole
=============================================================================
