------------------------- MODULE Update_proofs -------------------------
(***************************************************************************)
(* For any number of releases, checks and restarts: types, what an offer   *)
(* and "checking now" mean, and that checks that do not overlap keep the   *)
(* cache whole.  For any number of attempts: what their workers, the modal *)
(* and the installer never do.  The check and the download share no state  *)
(* here; each part is about the behaviours of its own module.              *)
(***************************************************************************)
EXTENDS UpdateCheck, UpdateDownload, TLAPS

Active == {"look", "fetch", "limited", "save", "write", "rename", "publish", "fail",
           "quiet"}
PCs == Active \cup {"none", "done"}

LEMMA Numbers == {Newest, TTL, ManualMax, MaxRestarts, MaxSteps} \subseteq Int
                 /\ 0 <= Newest /\ 0 <= TTL /\ 0 <= MaxRestarts /\ 0 <= MaxSteps
<1>1. \A n \in {Newest, TTL, ManualMax, MaxRestarts, MaxSteps} : n \in Nat
  BY BoundsAssumption
<1> QED BY <1>1

\* The constant files, and what makes a file of an answer and back.
LEMMA FileTypes ==
  /\ NoFile \in Files /\ Torn \in Files /\ NoFile.kind = "none" /\ Torn.kind = "torn"
  /\ \A a \in Answers : Whole(a) \in Files /\ Whole(a).kind = "whole"
  /\ \A f \in Files : f.kind = "whole" => f.tag \in 0 .. Newest /\ f.age \in Ages
  /\ \A f \in Files : f.kind = "none" => f = NoFile
  /\ \A f \in Files : f.kind = "torn" <=> f = Torn
  /\ 0 \in Ages /\ -1 \in Ages /\ NoAnswer \in Answers
  BY Numbers DEF Files, NoFile, Torn, Whole, Answers, Ages, NoAnswer

LEMMA AgedType ==
  ASSUME NEW f \in Files
  PROVE  Aged(f) \in Files /\ (f.kind = "whole" => Aged(f).kind = "whole")
         /\ (f.kind # "whole" => Aged(f) = f)
<1>1. \A n \in Ages : Older(n) \in Ages
  BY Numbers DEF Older, Ages
<1>2. CASE f.kind = "whole"
  <2>1. f \in [kind : {"whole"}, tag : 0 .. Newest, age : Ages]
    BY <1>2, FileTypes DEF Files, NoFile, Torn
  <2>2. Aged(f) = [f EXCEPT !.age = Older(f.age)]
    BY <1>2 DEF Aged
  <2>3. Aged(f) \in [kind : {"whole"}, tag : 0 .. Newest, age : Ages]
    BY <1>1, <2>1, <2>2
  <2> QED BY <1>2, <2>3 DEF Files
<1>3. CASE f.kind # "whole"
  BY <1>3 DEF Aged
<1> QED BY <1>2, <1>3

LEMMA BackType ==
  ASSUME NEW f \in Files, f.kind = "whole"
  PROVE  [f EXCEPT !.age = -1] \in Files /\ [f EXCEPT !.age = -1].kind = "whole"
<1>1. f \in [kind : {"whole"}, tag : 0 .. Newest, age : Ages]
  BY DEF Files, NoFile, Torn
<1>2. [f EXCEPT !.age = -1] \in [kind : {"whole"}, tag : 0 .. Newest, age : Ages]
  BY <1>1, FileTypes
<1> QED BY <1>2 DEF Files

\* Where the checks stand, and which of them write.
Standing ==
  /\ pc \in [Checks -> PCs] /\ handle \in [Checks -> {"none", "tmp", "cache", "lost"}]
  /\ \A c \in Checks : handle[c] # "none" <=> pc[c] = "write"

\* What the other variables hold.
Holding ==
  /\ released \in 0 .. Newest /\ version \in 0 .. released
  /\ state \in States /\ answer \in [Checks -> Answers]
  /\ cache \in Files /\ tmp \in Files
  /\ answered \in 0 .. TTL + 1
  /\ steps \in 0 .. MaxSteps /\ stepped \in BOOLEAN /\ overlapped \in BOOLEAN
  /\ restarts \in 0 .. MaxRestarts

LEMMA TypeSplit == TypeOK <=> Standing /\ Holding
  BY DEF TypeOK, Standing, Holding, PCs, Active

-----------------------------------------------------------------------------

LEMMA GotoStanding ==
  ASSUME Standing, NEW c \in Checks, NEW from \in PCs, NEW to \in PCs,
         Goto(c, from, to), from # "write", to # "write", UNCHANGED handle
  PROVE  Standing'
  BY DEF Standing, Goto

LEMMA StandingStep ==
  ASSUME TypeOK, [Next]_vars
  PROVE  Standing'
<1> USE TypeSplit
<1>1. ASSUME NEW c \in Checks, Begin(c) PROVE Standing'
  BY <1>1, GotoStanding DEF Begin, PCs, Active, files
<1>2. ASSUME NEW c \in Checks, Check(c) PROVE Standing'
  <2> USE DEF PCs, Active
  <2>1. CASE Look(c)
    BY <2>1, GotoStanding DEF Look, files
  <2>2. CASE Fetch(c)
    BY <2>2, GotoStanding DEF Fetch, AfterFetch, files
  <2>3. CASE Reload(c)
    BY <2>3, GotoStanding DEF Reload, files
  <2>4. CASE SaveFails(c)
    BY <2>4, GotoStanding DEF SaveFails, files
  <2>5. CASE OpenTmp(c)
    BY <2>5 DEF OpenTmp, Goto, Standing
  <2>6. CASE WriteTmp(c)
    BY <2>6 DEF WriteTmp, Goto, Standing
  <2>7. CASE Rename(c)
    <3>1. CASE UNCHANGED handle
      BY <2>7, <3>1, GotoStanding DEF Rename
    <3>2. CASE handle' = [d \in Checks |-> CASE handle[d] = "tmp" -> "cache"
                                            [] handle[d] = "cache" -> "lost"
                                            [] OTHER -> handle[d]]
      <4>1. /\ handle' \in [Checks -> {"none", "tmp", "cache", "lost"}]
            /\ \A d \in Checks : handle'[d] = "none" <=> handle[d] = "none"
        BY <3>2 DEF Standing
      <4>2. pc' \in [Checks -> PCs] /\ \A d \in Checks : pc'[d] = "write" <=> pc[d] = "write"
        BY <2>7 DEF Rename, Goto, Standing
      <4> QED BY <4>1, <4>2 DEF Standing
    <3> QED BY <2>7, <3>1, <3>2 DEF Rename, files
  <2>8. CASE Publish(c)
    BY <2>8, GotoStanding DEF Publish, files
  <2>9. CASE PublishFailure(c)
    BY <2>9, GotoStanding DEF PublishFailure, files
  <2>10. CASE StayQuiet(c)
    BY <2>10, GotoStanding DEF StayQuiet, files
  <2> QED
    BY <1>2, <2>1, <2>2, <2>3, <2>4, <2>5, <2>6, <2>7, <2>8, <2>9, <2>10 DEF Check
<1>3. CASE Restart
  BY <1>3 DEF Restart, Standing, PCs
<1>4. CASE UNCHANGED <<pc, handle>>
  BY <1>4 DEF Standing
<1> QED
  BY <1>1, <1>2, <1>3, <1>4
     DEF Next, ReleasePublished, Tick, ClockStepsBack, files, vars

LEMMA UseType ==
  ASSUME Holding, NEW c \in Checks, NEW a, a.tag \in 0 .. Newest, a.age \in Ages, Use(c, a)
  PROVE  answer' \in [Checks -> Answers]
  BY DEF Holding, Use, Answers

LEMMA HoldingStep ==
  ASSUME TypeOK, [Next]_vars
  PROVE  Holding'
<1> USE TypeSplit, FileTypes
<1>1. ASSUME NEW c \in Checks, Begin(c) PROVE Holding'
  BY <1>1 DEF Begin, Holding, States, files, world, past
<1>2. 0 \in 0 .. TTL + 1 /\ TTL + 1 \in 0 .. TTL + 1
  BY Numbers
<1>3. ASSUME NEW c \in Checks, Check(c) PROVE Holding'
  <2>1. CASE Look(c)
    <3>1. answer' \in [Checks -> Answers]
      BY <2>1, UseType DEF Look, Loads, Holding
    <3> QED BY <2>1, <3>1 DEF Look, Holding, files, world, past
  <2>2. CASE Fetch(c)
    <3>1. Use(c, [tag |-> released, age |-> 0]) => answer' \in [Checks -> Answers]
      BY UseType DEF Holding
    <3>2. answer' \in [Checks -> Answers] /\ answered' \in 0 .. TTL + 1
          /\ stepped' \in BOOLEAN /\ overlapped' \in BOOLEAN
      BY <1>2, <2>2, <3>1 DEF Fetch, Holding, past
    <3> QED BY <2>2, <3>2 DEF Fetch, Holding, files, world
  <2>3. CASE Reload(c)
    <3>1. answer' \in [Checks -> Answers]
      BY <2>3, UseType DEF Reload, Loads, Holding
    <3> QED BY <2>3, <3>1 DEF Reload, Holding, files, world, past
  <2>4. CASE SaveFails(c)
    BY <1>2, <2>4 DEF SaveFails, Holding, files, world
  <2>5. CASE OpenTmp(c)
    BY <2>5 DEF OpenTmp, Holding, world, past
  <2>6. CASE WriteTmp(c)
    <3>1. tmp' \in Files /\ cache' \in Files
      BY <2>6 DEF WriteTmp, Holding
    <3> QED BY <2>6, <3>1 DEF WriteTmp, Holding, world, past
  <2>7. CASE Rename(c)
    <3>1. tmp' \in Files /\ cache' \in Files
      BY <2>7 DEF Rename, Holding, files
    <3> QED BY <2>7, <3>1 DEF Rename, Holding, world, past
  <2>8. CASE Publish(c)
    <3>1. answer[c].tag \in 0 .. Newest
      BY DEF Holding, Answers
    <3>2. Result(answer[c]) \in States
      BY <3>1 DEF Result, States, Available
    <3> QED BY <2>8, <3>2 DEF Publish, Holding, files, world, past
  <2>9. CASE PublishFailure(c)
    BY <2>9 DEF PublishFailure, Holding, States, files, world, past
  <2>10. CASE StayQuiet(c)
    BY <2>10 DEF StayQuiet, Holding, States, files, world, past
  <2> QED
    BY <1>3, <2>1, <2>2, <2>3, <2>4, <2>5, <2>6, <2>7, <2>8, <2>9, <2>10 DEF Check
<1>4. CASE ReleasePublished
  <2>1. released' \in 0 .. Newest /\ version' \in 0 .. released'
    BY <1>4, Numbers DEF ReleasePublished, Holding
  <2> QED BY <1>4, <2>1 DEF ReleasePublished, Holding, files, past
<1>5. CASE Tick
  <2>1. cache' \in Files /\ tmp' \in Files
    BY <1>5, AgedType DEF Tick, Holding
  <2>2. answered' \in 0 .. TTL + 1
    BY <1>5, Numbers DEF Tick, Holding, Older
  <2> QED BY <1>5, <2>1, <2>2 DEF Tick, Holding, world
<1>6. CASE ClockStepsBack
  <2>1. steps' \in 0 .. MaxSteps
    BY <1>6, Numbers DEF ClockStepsBack, Holding
  <2>2. cache' \in Files
    BY <1>6, BackType DEF ClockStepsBack, Holding
  <2> QED BY <1>6, <2>1, <2>2 DEF ClockStepsBack, Holding
<1>7. CASE Restart
  <2>1. restarts' \in 0 .. MaxRestarts /\ version' \in 0 .. released'
    BY <1>7, Numbers DEF Restart, Holding
  <2>2. answer' \in [Checks -> Answers] /\ answered' \in 0 .. TTL + 1
    BY <1>2, <1>7 DEF Restart, Holding
  <2> QED BY <1>7, <2>1, <2>2 DEF Restart, Holding, States
<1>8. CASE UNCHANGED vars
  BY <1>8 DEF vars, Holding
<1> QED BY <1>1, <1>3, <1>4, <1>5, <1>6, <1>7, <1>8 DEF Next

LEMMA InitType == Init => TypeOK
<1> SUFFICES ASSUME Init PROVE Standing /\ Holding
  BY TypeSplit
<1>1. Standing
  BY DEF Init, Standing, PCs
<1>2. 0 \in 0 .. TTL + 1 /\ TTL + 1 \in 0 .. TTL + 1 /\ 0 \in 0 .. MaxSteps
      /\ 0 \in 0 .. MaxRestarts /\ 0 \in 0 .. released
  BY Numbers DEF Init
<1>3. /\ version \in 0 .. released /\ answered \in 0 .. TTL + 1
      /\ steps \in 0 .. MaxSteps /\ restarts \in 0 .. MaxRestarts
  BY <1>2 DEF Init
<1>4. released \in 0 .. Newest /\ stepped \in BOOLEAN /\ overlapped \in BOOLEAN /\ state \in States
  BY DEF Init, States
<1>5. answer \in [Checks -> Answers] /\ cache \in Files /\ tmp \in Files
  BY FileTypes DEF Init
<1> QED BY <1>1, <1>3, <1>4, <1>5 DEF Holding

\* TypeOK: every variable keeps its type, and exactly the checks that write have
\* the temporary file or what became of it open.
THEOREM TypeCorrect == Spec => []TypeOK
<1>1. TypeOK /\ [Next]_vars => TypeOK'
  <2>1. Standing' /\ Holding' => TypeOK'
    BY DEF TypeOK, Standing, Holding, PCs, Active
  <2> QED BY <2>1, StandingStep, HoldingStep
<1> QED BY <1>1, InitType, PTL DEF Spec

-----------------------------------------------------------------------------

\* A check goes from one place to another, the others stay.
LEMMA GotoMoves ==
  ASSUME Standing, NEW c \in Checks, NEW from, NEW to, Goto(c, from, to)
  PROVE  pc[c] = from /\ pc'[c] = to /\ \A d \in Checks : d # c => pc'[d] = pc[d]
  BY DEF Standing, Goto

\* NeverOffersOld: no release is offered that is not newer than the program.
THEOREM NeverOffersOldCorrect == Spec => []NeverOffersOld
<1>1. Init => NeverOffersOld
  BY DEF Init, NeverOffersOld, Idle
<1>2. NeverOffersOld /\ [Next]_vars => NeverOffersOld'
  <2> SUFFICES ASSUME NeverOffersOld, [Next]_vars PROVE NeverOffersOld'
    OBVIOUS
  <2>1. CASE UNCHANGED <<state, version>>
    BY <2>1 DEF NeverOffersOld
  <2>2. ASSUME NEW c \in Checks, Publish(c) PROVE NeverOffersOld'
    BY <2>2 DEF Publish, Result, Available, NoUpdate, NeverOffersOld, world
  <2>3. CASE state' \in {Idle, Checking, Failed}
    BY <2>3 DEF NeverOffersOld, Idle, Checking, Failed
  <2>4. ASSUME NEW c \in Checks, Begin(c) \/ Check(c), ~Publish(c)
        PROVE  UNCHANGED <<state, version>> \/ state' \in {Idle, Checking, Failed}
    BY <2>4
       DEF Begin, Check, Look, Fetch, Reload, SaveFails, OpenTmp, WriteTmp, Rename,
           PublishFailure, StayQuiet, world
  <2>5. ReleasePublished \/ Tick \/ ClockStepsBack \/ Restart \/ UNCHANGED vars
        => UNCHANGED <<state, version>> \/ state' = Idle
    BY DEF ReleasePublished, Tick, ClockStepsBack, Restart, world, vars
  <2> QED BY <2>1, <2>2, <2>3, <2>4, <2>5 DEF Next
<1> QED BY <1>1, <1>2, PTL DEF Spec

\* CheckingHasCheck: "checking now" has a check behind it that will publish.
THEOREM CheckingHasCheckCorrect == Spec => []CheckingHasCheck
<1>1. Init => CheckingHasCheck
  BY DEF Init, CheckingHasCheck, Idle, Checking
<1>2. TypeOK /\ CheckingHasCheck /\ [Next]_vars => CheckingHasCheck'
  <2> SUFFICES ASSUME Standing, CheckingHasCheck, [Next]_vars PROVE CheckingHasCheck'
    BY TypeSplit
  <2>1. ASSUME state' # Checking PROVE CheckingHasCheck'
    BY <2>1 DEF CheckingHasCheck, Underway
  <2>2. ASSUME UNCHANGED <<state, pc>> PROVE CheckingHasCheck'
    BY <2>2 DEF CheckingHasCheck, Underway
  <2>3. ASSUME NEW c \in Checks, pc'[c] \in Active PROVE CheckingHasCheck'
    BY <2>3 DEF CheckingHasCheck, Underway, Active
  <2>4. ASSUME NEW c \in Checks, Begin(c) PROVE pc'[c] \in Active
    BY <2>4, GotoMoves DEF Begin, Active
  <2>5. ASSUME NEW c \in Checks, Check(c) PROVE pc'[c] \in Active \/ state' # Checking
    <3>1. Look(c) \/ Fetch(c) \/ Reload(c) \/ SaveFails(c) => pc'[c] \in Active
      BY GotoMoves DEF Look, Fetch, AfterFetch, Reload, SaveFails, Active
    <3>2. OpenTmp(c) \/ WriteTmp(c) \/ Rename(c) => pc'[c] \in Active
      BY GotoMoves DEF OpenTmp, WriteTmp, Rename, Active
    <3>3. Publish(c) \/ PublishFailure(c) \/ StayQuiet(c) => state' # Checking
      BY DEF Publish, Result, PublishFailure, StayQuiet, Idle, Checking, Failed,
             NoUpdate, Available
    <3> QED BY <2>5, <3>1, <3>2, <3>3 DEF Check
  <2>6. ReleasePublished \/ Tick \/ ClockStepsBack \/ Restart \/ UNCHANGED vars
        => UNCHANGED <<state, pc>> \/ state' # Checking
    BY DEF ReleasePublished, Tick, ClockStepsBack, Restart, Idle, Checking, vars
  <2> QED BY <2>1, <2>2, <2>3, <2>4, <2>5, <2>6 DEF Next
<1> QED BY <1>1, <1>2, TypeCorrect, PTL DEF Spec

-----------------------------------------------------------------------------

\* Where checks have not overlapped: one is under way at most, an open file is the
\* temporary one, and what is renamed is whole.
Lone ==
  /\ CacheIsWhole
  /\ \A c, d \in Checks : Underway(c) /\ Underway(d) => c = d
  /\ \A c \in Checks : handle[c] \in {"none", "tmp"}
  /\ \A c \in Checks : pc[c] = "rename" => tmp.kind # "torn"

\* A step of the check that is under way, to a place where it still is or is done.
LEMMA LoneGoto ==
  ASSUME Standing, Lone, NEW c \in Checks, NEW from \in Active, NEW to, Goto(c, from, to)
  PROVE  /\ \A d \in Checks : d # c => ~Underway(d) /\ handle[d] = "none"
         /\ \A d \in Checks : d # c => pc'[d] # "rename"
         /\ (\A d, e \in Checks : Underway(d) /\ Underway(e) => d = e)'
<1>1. pc[c] = from /\ \A d \in Checks : d # c => pc'[d] = pc[d]
  BY GotoMoves
<1>2. Underway(c)
  BY <1>1 DEF Underway, Active
<1>3. \A d \in Checks : d # c => ~Underway(d)
  BY <1>2 DEF Lone
<1>4. \A d \in Checks : d # c => pc[d] \in {"none", "done"} /\ pc'[d] = pc[d]
  BY <1>1, <1>3 DEF Underway
<1>5. \A d \in Checks : d # c => handle[d] = "none" /\ pc'[d] # "rename"
  BY <1>4 DEF Standing
<1>6. (\A d, e \in Checks : Underway(d) /\ Underway(e) => d = e)'
  BY <1>4 DEF Underway
<1> QED BY <1>3, <1>5, <1>6

LEMMA LoneStep ==
  ASSUME TypeOK, Lone, NEW c \in Checks, Check(c)
  PROVE  Lone'
<1> USE FileTypes
<1>0. Standing /\ Holding
  BY TypeSplit
<1>1. CASE Look(c) \/ Fetch(c) \/ Reload(c) \/ SaveFails(c)
           \/ Publish(c) \/ PublishFailure(c) \/ StayQuiet(c)
  <2>1. PICK from \in Active, to \in PCs : Goto(c, from, to) /\ to # "rename"
    BY <1>1 DEF Look, Fetch, AfterFetch, Reload, SaveFails, Publish, PublishFailure,
                StayQuiet, Active, PCs
  <2>2. UNCHANGED files
    BY <1>1 DEF Look, Fetch, Reload, SaveFails, Publish, PublishFailure, StayQuiet
  <2>3. \A d \in Checks : pc'[d] # "rename"
    BY <1>0, <2>1, LoneGoto, GotoMoves
  <2>4. (\A d, e \in Checks : Underway(d) /\ Underway(e) => d = e)'
    BY <1>0, <2>1, LoneGoto
  <2> QED BY <2>2, <2>3, <2>4 DEF Lone, CacheIsWhole, files
<1>2. CASE OpenTmp(c)
  <2>1. Goto(c, "save", "write") /\ cache' = cache
        /\ handle' = [handle EXCEPT ![c] = "tmp"]
    BY <1>2 DEF OpenTmp
  <2>2. pc'[c] = "write"
    BY <1>0, <2>1, GotoMoves
  <2>3. \A d \in Checks : pc'[d] # "rename"
    BY <1>0, <2>1, <2>2, LoneGoto DEF Active
  <2>4. (\A d, e \in Checks : Underway(d) /\ Underway(e) => d = e)'
    BY <1>0, <2>1, LoneGoto DEF Active
  <2>5. \A d \in Checks : handle'[d] \in {"none", "tmp"}
    BY <1>0, <2>1 DEF Lone, Standing
  <2> QED BY <2>1, <2>3, <2>4, <2>5 DEF Lone, CacheIsWhole
<1>3. CASE WriteTmp(c)
  <2>1. Goto(c, "write", "rename") /\ handle' = [handle EXCEPT ![c] = "none"]
    BY <1>3 DEF WriteTmp
  <2>2. handle[c] = "tmp" /\ answer[c] \in Answers
    BY <1>0, <2>1 DEF Goto, Standing, Lone, Holding
  <2>3. tmp'.kind = "whole" /\ cache' = cache
    BY <1>3, <2>2 DEF WriteTmp
  <2>4. (\A d, e \in Checks : Underway(d) /\ Underway(e) => d = e)'
    BY <1>0, <2>1, LoneGoto DEF Active
  <2>5. \A d \in Checks : handle'[d] \in {"none", "tmp"}
    BY <1>0, <2>1 DEF Lone, Standing
  <2> QED BY <2>3, <2>4, <2>5 DEF Lone, CacheIsWhole
<1>4. CASE Rename(c)
  <2>1. Goto(c, "rename", "publish")
    BY <1>4 DEF Rename
  <2>2. \A d \in Checks : handle[d] = "none"
    BY <1>0, <2>1, LoneGoto DEF Goto, Standing, Active
  <2>3. cache' # Torn /\ \A d \in Checks : handle'[d] = "none"
    BY <1>0, <1>4, <2>1, <2>2 DEF Rename, Goto, Lone, CacheIsWhole, Holding, files
  <2>4. \A d \in Checks : pc'[d] # "rename"
    BY <1>0, <2>1, LoneGoto, GotoMoves DEF Active
  <2>5. (\A d, e \in Checks : Underway(d) /\ Underway(e) => d = e)'
    BY <1>0, <2>1, LoneGoto DEF Active
  <2> QED BY <2>3, <2>4, <2>5 DEF Lone, CacheIsWhole
<1> QED BY <1>1, <1>2, <1>3, <1>4 DEF Check

LEMMA Overlapping ==
  ASSUME TypeOK, [Next]_vars, overlapped
  PROVE  overlapped'
  BY DEF Next, Begin, Check, Look, Fetch, Reload, SaveFails, OpenTmp, WriteTmp, Rename,
         Publish, PublishFailure, StayQuiet, ReleasePublished, Tick, ClockStepsBack,
         Restart, past, vars

LEMMA LoneHolds == Spec => [](overlapped \/ Lone)
<1> DEFINE Inv == overlapped \/ Lone
<1>1. Init => Inv
  BY FileTypes DEF Init, Lone, CacheIsWhole, Underway
<1>2. TypeOK /\ Inv /\ [Next]_vars => Inv'
  <2> SUFFICES ASSUME TypeOK, Lone, ~overlapped, [Next]_vars PROVE Inv'
    BY Overlapping
  <2>0. Standing /\ Holding
    BY TypeSplit
  <2>1. ASSUME NEW c \in Checks, Begin(c) PROVE Inv'
    <3>1. CASE \E d \in Checks : Underway(d)
      BY <2>1, <3>1 DEF Begin
    <3>2. CASE \A d \in Checks : ~Underway(d)
      <4>1. Goto(c, "none", IF c = AtStart THEN "look" ELSE "fetch") /\ UNCHANGED files
        BY <2>1 DEF Begin
      <4>2. \A d \in Checks : pc'[d] # "rename" /\ (d # c => ~Underway(d)')
        BY <2>0, <3>2, <4>1, GotoMoves DEF Underway
      <4> QED BY <4>1, <4>2 DEF Lone, CacheIsWhole, files
    <3> QED BY <3>1, <3>2
  <2>2. ASSUME NEW c \in Checks, Check(c) PROVE Inv'
    BY <2>2, LoneStep
  <2>3. CASE ReleasePublished \/ UNCHANGED vars
    BY <2>3 DEF ReleasePublished, vars, files, Lone, CacheIsWhole, Underway
  <2>4. CASE Tick
    <3>1. /\ cache' # Torn
          /\ tmp.kind # "torn" => tmp'.kind # "torn"
      BY <2>0, <2>4, AgedType, FileTypes DEF Tick, Lone, CacheIsWhole, Holding
    <3> QED BY <2>4, <3>1 DEF Tick, Lone, CacheIsWhole, Underway
  <2>5. CASE ClockStepsBack
    <3>1. cache' # Torn
      BY <2>0, <2>5, BackType, FileTypes DEF ClockStepsBack, Lone, CacheIsWhole, Holding
    <3> QED BY <2>5, <3>1 DEF ClockStepsBack, Lone, CacheIsWhole, Underway
  <2>6. CASE Restart
    BY <2>6 DEF Restart, Lone, CacheIsWhole, Underway
  <2> QED BY <2>1, <2>2, <2>3, <2>4, <2>5, <2>6 DEF Next
<1> QED BY <1>1, <1>2, TypeCorrect, PTL DEF Spec

\* TornByOverlap: as long as no two checks ran at once the cache is never cut short,
\* wherever the processes end, also in the middle of a write.
THEOREM TornByOverlapCorrect == Spec => []TornByOverlap
<1>1. (overlapped \/ Lone) => TornByOverlap
  BY DEF Lone, TornByOverlap
<1> QED BY <1>1, LoneHolds, PTL
-----------------------------------------------------------------------------

\* Where a check has the answer of the server and has not put it into the cache.
Saving == {"save", "write", "rename"}

\* It is as fresh as the last answer, and what a rename would move holds it.
Fresh(c) ==
  /\ answer[c].age = 0 /\ answered = 0
  /\ pc[c] = "rename" => tmp.kind = "whole" /\ tmp.age = 0

\* The cache is not older than the last answer that could be saved.
KeptAnswer == cache.kind = "whole" /\ 0 <= cache.age /\ cache.age <= answered

\* Unless the clock was set back or that answer is old or lost, it is in the cache or
\* on its way there.
Remembered ==
  /\ \A c \in Checks : pc[c] \in Saving => Fresh(c)
  /\ stepped \/ answered > TTL \/ KeptAnswer \/ \E c \in Checks : pc[c] \in Saving

\* A step of check c from a place where it saves nothing to another.
LEMMA RememberedGoto ==
  ASSUME Standing, Remembered, NEW c \in Checks, NEW from \in PCs \ Saving,
         NEW to \in PCs \ Saving, Goto(c, from, to), UNCHANGED <<cache, tmp, answered, stepped>>,
         \A d \in Checks : d # c => answer'[d] = answer[d]
  PROVE  Remembered'
<1>1. /\ pc[c] = from /\ pc'[c] = to
      /\ \A d \in Checks : d # c => pc'[d] = pc[d] /\ answer'[d] = answer[d]
  BY GotoMoves
<1>2. \A d \in Checks : pc'[d] \in Saving => d # c /\ pc[d] \in Saving
  BY <1>1
<1>3. \A d \in Checks : pc[d] \in Saving => pc'[d] \in Saving
  BY <1>1
<1>4. \A d \in Checks : pc'[d] \in Saving => Fresh(d)'
  BY <1>1, <1>2 DEF Remembered, Fresh
<1>5. stepped' \/ answered' > TTL \/ KeptAnswer' \/ \E d \in Checks : pc'[d] \in Saving
  BY <1>3 DEF Remembered, KeptAnswer
<1> QED BY <1>4, <1>5 DEF Remembered

\* The only check under way takes a step and is saving then.
LEMMA RememberedSave ==
  ASSUME Standing, Lone, NEW c \in Checks, NEW from \in Active, NEW to \in Saving,
         Goto(c, from, to), Fresh(c)'
  PROVE  Remembered'
<1>1. pc'[c] \in Saving /\ \A d \in Checks : d # c => ~Underway(d) /\ pc'[d] = pc[d]
  BY LoneGoto, GotoMoves
<1>2. \A d \in Checks : pc'[d] \in Saving => d = c
  BY <1>1 DEF Underway, Saving
<1> QED BY <1>1, <1>2 DEF Remembered

LEMMA RememberedStep ==
  ASSUME TypeOK, Lone, Remembered, NEW c \in Checks, Check(c)
  PROVE  Remembered'
<1>0. Standing /\ Holding /\ TTL \in Nat
  BY TypeSplit, BoundsAssumption
<1> DEFINE Quiet == PCs \ Saving
<1>1. {"look", "fetch", "limited", "publish", "fail", "quiet", "done"} \subseteq Quiet
      /\ {"fetch", "save", "write", "rename"} \subseteq Active
  BY DEF PCs, Active, Saving
<1> HIDE DEF Quiet
<1>2. ASSUME NEW from \in Quiet, NEW to \in Quiet, Goto(c, from, to),
             UNCHANGED <<cache, tmp, answered, stepped>>,
             \A d \in Checks : d # c => answer'[d] = answer[d]
      PROVE  Remembered'
  BY <1>0, <1>2, RememberedGoto DEF Quiet
<1>3. ASSUME NEW a, Use(c, a)
      PROVE  /\ \A d \in Checks : d # c => answer'[d] = answer[d]
             /\ answer'[c].age = a.age
  BY <1>0, <1>3 DEF Use, Holding
<1>4. CASE Look(c)
  <2>1. UNCHANGED <<cache, tmp, answered, stepped>>
    BY <1>4 DEF Look, files, past
  <2>2. \A d \in Checks : d # c => answer'[d] = answer[d]
    BY <1>3, <1>4 DEF Look
  <2>3. Goto(c, "look", "publish") \/ Goto(c, "look", "fetch")
    BY <1>4 DEF Look
  <2> QED BY <1>1, <1>2, <2>1, <2>2, <2>3
<1>5. CASE Reload(c)
  <2>1. UNCHANGED <<cache, tmp, answered, stepped>>
    BY <1>5 DEF Reload, files, past
  <2>2. \A d \in Checks : d # c => answer'[d] = answer[d]
    BY <1>3, <1>5 DEF Reload
  <2>3. Goto(c, "limited", "publish") \/ Goto(c, "limited", "quiet")
    BY <1>5 DEF Reload
  <2> QED BY <1>1, <1>2, <2>1, <2>2, <2>3
<1>6. CASE Publish(c) \/ PublishFailure(c) \/ StayQuiet(c)
  <2>1. UNCHANGED <<answer, cache, tmp, answered, stepped>>
    BY <1>6 DEF Publish, PublishFailure, StayQuiet, files, past
  <2>2. Goto(c, "publish", "done") \/ Goto(c, "fail", "done") \/ Goto(c, "quiet", "done")
    BY <1>6 DEF Publish, PublishFailure, StayQuiet
  <2> QED BY <1>1, <1>2, <2>1, <2>2
<1>7. CASE Fetch(c)
  <2>1. CASE /\ Goto(c, "fetch", "save") /\ Use(c, [tag |-> released, age |-> 0])
             /\ answered' = 0
    <3>1. answer'[c].age = 0
      BY <1>3, <2>1
    <3>2. pc'[c] = "save"
      BY <1>0, <2>1, GotoMoves
    <3>3. Fresh(c)'
      BY <2>1, <3>1, <3>2 DEF Fresh
    <3> QED BY <1>0, <1>1, <2>1, <3>3, RememberedSave DEF Saving
  <2>2. CASE /\ Goto(c, "fetch", "limited") \/ Goto(c, "fetch", "fail")
             /\ UNCHANGED <<answer, past, files>>
    BY <1>1, <1>2, <2>2 DEF past, files
  <2> QED BY <1>7, <2>1, <2>2 DEF Fetch, AfterFetch
<1>8. CASE SaveFails(c)
  <2>1. Goto(c, "save", "publish") /\ answered' = TTL + 1
    BY <1>8 DEF SaveFails
  <2>2. \A d \in Checks : pc'[d] \notin Saving
    <3>1. \A d \in Checks : d # c => ~Underway(d) /\ pc'[d] = pc[d]
      BY <1>0, <1>1, <2>1, LoneGoto, GotoMoves
    <3>2. pc'[c] = "publish"
      BY <1>0, <2>1, GotoMoves
    <3> QED BY <3>1, <3>2 DEF Underway, Saving
  <2>3. answered' > TTL
    BY <1>0, <2>1
  <2> QED BY <2>2, <2>3 DEF Remembered
<1>9. CASE OpenTmp(c)
  <2>1. Goto(c, "save", "write") /\ UNCHANGED <<answer, answered>>
    BY <1>9 DEF OpenTmp, past
  <2>2. pc[c] = "save" /\ pc'[c] = "write"
    BY <1>0, <2>1, GotoMoves
  <2>3. Fresh(c)'
    BY <2>1, <2>2 DEF Remembered, Saving, Fresh
  <2> QED BY <1>0, <1>1, <2>1, <2>3, RememberedSave DEF Saving
<1>10. CASE WriteTmp(c)
  <2>1. Goto(c, "write", "rename") /\ UNCHANGED <<answer, answered>>
    BY <1>10 DEF WriteTmp, past
  <2>2. pc[c] = "write" /\ pc'[c] = "rename"
    BY <1>0, <2>1, GotoMoves
  <2>3. handle[c] = "tmp"
    BY <1>0, <2>2 DEF Standing, Lone
  <2>4. tmp' = Whole(answer[c])
    BY <1>10, <2>3 DEF WriteTmp
  <2>5. answer[c].age = 0 /\ answered = 0
    BY <2>2 DEF Remembered, Saving, Fresh
  <2>6. Fresh(c)'
    BY <2>1, <2>4, <2>5 DEF Fresh, Whole
  <2> QED BY <1>0, <1>1, <2>1, <2>6, RememberedSave DEF Saving
<1>11. CASE Rename(c)
  <2>1. Goto(c, "rename", "publish") /\ UNCHANGED answered
    BY <1>11 DEF Rename, past
  <2>2. pc[c] = "rename" /\ pc'[c] = "publish"
    BY <1>0, <2>1, GotoMoves
  <2>3. answered = 0 /\ tmp.kind = "whole" /\ tmp.age = 0
    BY <2>2 DEF Remembered, Saving, Fresh
  <2>4. cache' = tmp
    BY <1>11, <2>3 DEF Rename
  <2>5. KeptAnswer'
    BY <2>1, <2>3, <2>4 DEF KeptAnswer
  <2>6. \A d \in Checks : pc'[d] \notin Saving
    <3>1. \A d \in Checks : d # c => ~Underway(d) /\ pc'[d] = pc[d]
      BY <1>0, <1>1, <2>1, LoneGoto, GotoMoves
    <3> QED BY <2>2, <3>1 DEF Underway, Saving
  <2> QED BY <2>5, <2>6 DEF Remembered
<1> QED BY <1>4, <1>5, <1>6, <1>7, <1>8, <1>9, <1>10, <1>11 DEF Check

LEMMA RememberedHolds == Spec => [](overlapped \/ Remembered)
<1> DEFINE Inv == overlapped \/ Remembered
<1>1. Init => Inv
  <2>1. TTL + 1 > TTL
    BY BoundsAssumption
  <2> QED BY <2>1 DEF Init, Remembered, Saving
<1>2. TypeOK /\ (overlapped \/ Lone) /\ Inv /\ [Next]_vars => Inv'
  <2> SUFFICES ASSUME TypeOK, Lone, Remembered, ~overlapped, [Next]_vars PROVE Inv'
    BY Overlapping
  <2>0. Standing /\ Holding /\ TTL \in Nat
    BY TypeSplit, BoundsAssumption
  <2>1. ASSUME NEW c \in Checks, Begin(c) PROVE Inv'
    <3> DEFINE to == IF c = AtStart THEN "look" ELSE "fetch"
    <3>1. Goto(c, "none", to) /\ UNCHANGED <<answer, cache, tmp, answered, stepped>>
      BY <2>1 DEF Begin, files
    <3>2. "none" \in PCs \ Saving /\ to \in PCs \ Saving
      BY DEF PCs, Active, Saving
    <3> HIDE DEF to
    <3> QED BY <2>0, <3>1, <3>2, RememberedGoto
  <2>2. ASSUME NEW c \in Checks, Check(c) PROVE Inv'
    BY <2>2, RememberedStep
  <2>3. CASE ReleasePublished \/ UNCHANGED vars
    BY <2>3 DEF ReleasePublished, vars, files, past, Remembered, Fresh, KeptAnswer
  <2>4. ASSUME Resting PROVE \A c \in Checks : pc[c] \notin Saving
    BY <2>4 DEF Resting, Underway, Saving
  <2>5. CASE Tick
    <3>1. (\A c \in Checks : pc'[c] \notin Saving) /\ stepped' = stepped
      BY <2>4, <2>5 DEF Tick
    <3>2. answered' = Older(answered) /\ cache' = Aged(cache) /\ answered \in 0 .. TTL + 1
      BY <2>0, <2>5 DEF Tick, Holding
    <3>3. answered > TTL => answered' > TTL
      BY <3>2 DEF Older
    <3>4. ASSUME KeptAnswer PROVE KeptAnswer'
      <4>1. cache'.kind = "whole" /\ cache'.age = Older(cache.age) /\ cache.age \in Ages
        <5>1. cache \in [kind : {"whole"}, tag : 0 .. Newest, age : Ages]
          BY <2>0, <3>4, FileTypes DEF KeptAnswer, Holding, Files, NoFile, Torn
        <5>2. cache' = [cache EXCEPT !.age = Older(cache.age)]
          BY <3>2, <3>4 DEF KeptAnswer, Aged
        <5> QED BY <5>1, <5>2
      <4> QED BY <2>0, <3>2, <3>4, <4>1 DEF KeptAnswer, Older, Ages
    <3> QED BY <2>4, <2>5, <3>1, <3>3, <3>4 DEF Remembered, Tick
  <2>6. CASE ClockStepsBack
    BY <2>4, <2>6 DEF ClockStepsBack, Remembered
  <2>7. CASE Restart
    <3>1. \A c \in Checks : pc'[c] \notin Saving
      BY <2>7 DEF Restart, Saving
    <3>2. CASE \E c \in Checks : pc[c] \in Saving
      BY <2>0, <2>7, <3>1, <3>2 DEF Restart, Saving, Remembered
    <3>3. CASE \A c \in Checks : pc[c] \notin Saving
      BY <2>7, <3>1, <3>3 DEF Restart, Saving, Remembered, KeptAnswer
    <3> QED BY <3>2, <3>3
  <2> QED BY <2>1, <2>2, <2>3, <2>5, <2>6, <2>7 DEF Next
<1> QED BY <1>1, <1>2, TypeCorrect, LoneHolds, PTL DEF Spec

\* FetchIsDue: where checks do not overlap, the check at start goes to the server only
\* if no answer of the last TTL could be saved, or the clock was set back: what the
\* server last said is in the cache by then, through every failure and restart.
THEOREM FetchIsDueCorrect == Spec => FetchIsDue
<1>1. TypeOK /\ (overlapped \/ Lone) /\ (overlapped \/ Remembered) /\ [Next]_vars
        => [pc[AtStart] = "look" /\ pc'[AtStart] = "fetch"
              => answered > TTL \/ stepped \/ overlapped]_vars
  <2> SUFFICES ASSUME TypeOK, Lone, Remembered, [Next]_vars, ~stepped, ~(answered > TTL),
                      pc[AtStart] = "look", pc'[AtStart] = "fetch"
               PROVE  FALSE
    OBVIOUS
  <2>0. Standing /\ Holding /\ TTL \in Nat /\ AtStart \in Checks
    BY TypeSplit, BoundsAssumption DEF AtStart, Checks
  <2>1. \A c \in Checks : pc[c] \notin Saving
    <3>1. Underway(AtStart)
      BY DEF Underway
    <3>2. \A c \in Checks : Underway(c) => c = AtStart
      BY <2>0, <3>1 DEF Lone
    <3> QED BY <3>2 DEF Underway, Saving
  <2>2. KeptAnswer
    BY <2>1 DEF Remembered
  <2>3. Loads /\ ~IsStale
    <3>1. cache.age \in Ages
      BY <2>0, <2>2, FileTypes DEF KeptAnswer, Holding
    <3> QED BY <2>0, <2>2, <3>1 DEF Loads, IsStale, KeptAnswer, Holding, Ages
  <2>4. ASSUME NEW c \in Checks, Begin(c) PROVE FALSE
    <3>1. PICK to : Goto(c, "none", to)
      BY <2>4 DEF Begin
    <3> QED BY <2>0, <3>1, GotoMoves
  <2>5. ASSUME NEW c \in Checks, Check(c) PROVE FALSE
    <3>1. CASE Look(c)
      <4>1. Goto(c, "look", "publish")
        BY <2>3, <3>1 DEF Look
      <4> QED BY <2>0, <4>1, GotoMoves
    <3>2. CASE ~Look(c)
      <4>1. PICK from \in PCs \ {"look"}, to \in PCs : Goto(c, from, to)
        BY <2>5, <3>2 DEF Check, Fetch, AfterFetch, Reload, SaveFails, OpenTmp, WriteTmp, Rename,
                          Publish, PublishFailure, StayQuiet, PCs, Active
      <4> QED BY <2>0, <4>1, GotoMoves
    <3> QED BY <3>1, <3>2
  <2>6. CASE ReleasePublished \/ Tick \/ ClockStepsBack \/ UNCHANGED vars
    BY <2>6 DEF ReleasePublished, Tick, ClockStepsBack, vars
  <2>7. CASE Restart
    BY <2>0, <2>7 DEF Restart
  <2> QED BY <2>4, <2>5, <2>6, <2>7 DEF Next
<1> QED BY <1>1, TypeCorrect, LoneHolds, RememberedHolds, PTL DEF Spec, FetchIsDue
-----------------------------------------------------------------------------
(* The download.                                                           *)

\* An outcome in the slot belongs to a worker that has nothing left to do.
SlotIsReported == slot.attempt # 0 => worker[slot.attempt] = "done"

\* Between the last check of an installer and its launch the frame stands still, and
\* with it the progress screen of the attempt, whose worker has nothing left to do;
\* only another program can touch the file.
LaunchIsOwn ==
  frame = "launch" =>
    /\ Downloading /\ worker[generation] = "done"
    /\ disk[generation] = "whole" \/ swapped

\* OrphansAreCancelled needs SlotIsReported: a frame that replaces the progress
\* screen by a failure does so because that worker has reported.
DownloadInv ==
  DownloadTypeOK /\ OrphansAreCancelled /\ ShownAttemptIsLive /\ SlotIsReported /\ LaunchIsOwn

\* An outcome that is not "none" names its attempt.
LEMMA SlotKinds ==
  ASSUME DownloadTypeOK
  PROVE  /\ slot.kind \in Outcomes => slot.attempt \in Attempts
         /\ slot.kind \notin Outcomes => slot = None
         /\ slot.attempt \in 0 .. MaxAttempts
         /\ slot.attempt # 0 => slot.attempt \in Attempts
  BY AttemptsAssumption DEF DownloadTypeOK, None, Outcomes, Attempts

-----------------------------------------------------------------------------

\* What a worker's own step changes.
LEMMA WorkType ==
  ASSUME DownloadTypeOK, NEW a \in Attempts, NEW from, from # "none",
         NEW to \in Running \cup Outcomes, NEW c \in Contents, Work(a, from, to, c)
  PROVE  DownloadTypeOK'
<1>1. /\ worker' \in [Attempts -> {"none", "done"} \cup Running \cup Outcomes]
      /\ disk' \in [Attempts -> Contents]
  BY DEF Work, DownloadTypeOK
<1>2. \A b \in Attempts : b > generation => worker'[b] = "none"
  BY DEF Work, DownloadTypeOK
<1> QED BY <1>1, <1>2 DEF Work, DownloadTypeOK, ui, modal

\* DownloadTypeOK: every variable keeps its type, a closed modal is at its first screen,
\* the slot names no attempt of the future, and only a launch ends the frames.
LEMMA DownloadTypeStep ==
  ASSUME DownloadTypeOK, LaunchIsOwn, [DownloadNext]_downloadVars
  PROVE  DownloadTypeOK'
<1> USE DEF Outcomes, Running, Writing, Contents, Phases
<1>1. ASSUME NEW a \in Attempts, WorkerStep(a) PROVE DownloadTypeOK'
  <2>1. disk[a] \in Contents /\ a # 0
    BY AttemptsAssumption DEF DownloadTypeOK, Attempts
  <2>2. CASE FetchFails(a)
    BY <2>1, <2>2, WorkType DEF FetchFails
  <2>3. CASE FetchSucceeds(a)
    BY <2>3, WorkType DEF FetchSucceeds
  <2>4. CASE LoadCancel(a)
    BY <2>1, <2>4, WorkType DEF LoadCancel
  <2>5. CASE ReadChunk(a)
    BY <2>1, <2>5, WorkType DEF ReadChunk
  <2>6. CASE ReadCompletes(a)
    BY <2>1, <2>6, WorkType DEF ReadCompletes
  <2>7. CASE ReadFails(a)
    BY <2>7, WorkType DEF ReadFails, AfterFailure
  <2>8. CASE Report(a)
    <3>1. slot' \in [attempt : Attempts, kind : Outcomes] /\ slot'.attempt = a
      BY <2>8 DEF Report
    <3>2. worker' \in [Attempts -> {"none", "done"} \cup Running \cup Outcomes]
      BY <2>8 DEF Report, DownloadTypeOK
    <3>3. a <= generation
      BY <2>8 DEF Report, DownloadTypeOK, Attempts
    <3>4. \A b \in Attempts : b > generation => worker'[b] = "none"
      BY <2>8, <3>3 DEF Report, DownloadTypeOK, Attempts
    <3> QED BY <2>8, <3>1, <3>2, <3>3, <3>4 DEF Report, DownloadTypeOK, ui, modal
  <2> QED BY <1>1, <2>2, <2>3, <2>4, <2>5, <2>6, <2>7, <2>8 DEF WorkerStep, ReadEnds
<1>2. ASSUME NEW a \in Attempts, FileDisturbed(a) PROVE DownloadTypeOK'
  <2>1. disk' \in [Attempts -> Contents] /\ swapped' \in BOOLEAN
    BY <1>2 DEF FileDisturbed, DownloadTypeOK
  <2> QED BY <1>2, <2>1 DEF FileDisturbed, DownloadTypeOK, ui, modal
<1>3. CASE Poll
  <2>1. slot' \in [attempt : Attempts, kind : Outcomes] \cup {None}
        /\ slot'.attempt = 0
    BY <1>3 DEF Poll, None
  <2>2. /\ phase' \in Phases /\ (phase' # phase => Downloading)
        /\ disk' \in [Attempts -> Contents]
    <3>1. CASE slot.kind = "ready" /\ RefuseReady(slot.attempt)
      BY <3>1, SlotKinds, AttemptsAssumption
         DEF RefuseReady, Remove, Current, DownloadTypeOK, Attempts
    <3>2. CASE slot.kind = "failed" /\ TakeFailed
      BY <3>2 DEF TakeFailed, Show, Current, DownloadTypeOK
    <3>3. CASE Show(phase)
      BY <3>3 DEF Show, DownloadTypeOK
    <3> QED BY <1>3, <3>1, <3>2, <3>3 DEF Poll
  <2>3. /\ frame' \in {"poll", "launch", "modal", "gone"} /\ strip' \in BOOLEAN
        /\ frame' = "gone" => installing' # 0
    BY <1>3 DEF Poll, PollReturns, DownloadTypeOK
  <2>4. open' \/ phase' = "Confirm"
    BY <1>3, <2>2 DEF Poll, DownloadTypeOK, Downloading
  <2>5. UNCHANGED <<open, generation, cancelled, available, worker, installing, swapped,
                    relaunches>>
    BY <1>3 DEF Poll
  <2> QED BY <2>1, <2>2, <2>3, <2>4, <2>5, AttemptsAssumption DEF DownloadTypeOK
<1>16. CASE VerifyInstaller
  BY <1>16 DEF VerifyInstaller, DownloadTypeOK, modal, None
<1>17. CASE LaunchInstaller
  <2>1. /\ frame' \in {"poll", "launch", "modal", "gone"} /\ strip' \in BOOLEAN
        /\ frame' = "gone" => installing' # 0
    BY <1>17 DEF LaunchInstaller, PollReturns, DownloadTypeOK
  <2>2. open' /\ phase' \in Phases
    BY <1>17 DEF LaunchInstaller, LaunchIsOwn, Downloading, DownloadTypeOK
  <2>3. installing' \in 0 .. MaxAttempts /\ swapped' \in BOOLEAN
    BY <1>17 DEF LaunchInstaller, DownloadTypeOK
  <2> QED BY <1>17, <2>1, <2>2, <2>3 DEF LaunchInstaller, DownloadTypeOK
<1>4. ASSUME EndFrame
      PROVE  /\ frame' \in {"poll", "launch", "modal", "gone"} /\ swapped' \in BOOLEAN
             /\ frame' = "gone" => installing' # 0
             /\ installing' \in 0 .. MaxAttempts /\ relaunches' \in 0 .. MaxRelaunches
             /\ available' \in BOOLEAN
  BY <1>4 DEF EndFrame, DownloadTypeOK
<1>5. CASE DrawFrame
  BY <1>4, <1>5 DEF DrawFrame, DownloadTypeOK, modal
<1>6. CASE OpenModal
  BY <1>4, <1>6 DEF OpenModal, Kept, DownloadTypeOK
<1>7. ASSUME CancelAttempt PROVE cancelled' \in [0 .. MaxAttempts -> BOOLEAN]
  BY <1>7 DEF CancelAttempt, DownloadTypeOK
<1>8. CASE ReleaseEvaporates
  BY <1>4, <1>7, <1>8 DEF ReleaseEvaporates, Abandon, Kept, DownloadTypeOK
<1>9. CASE CloseModal
  BY <1>4, <1>7, <1>9 DEF CloseModal, Clicked, Abandon, Kept, DownloadTypeOK
<1>10. CASE CancelDownload
  BY <1>4, <1>7, <1>10 DEF CancelDownload, Clicked, Kept, DownloadTypeOK
<1>11. CASE TryAgain
  BY <1>4, <1>11 DEF TryAgain, Clicked, Kept, DownloadTypeOK
<1>12. CASE StartDownload
  <2>1. generation + 1 \in Attempts /\ generation' = generation + 1
    BY <1>12, AttemptsAssumption DEF StartDownload, DownloadTypeOK, Attempts
  <2>2. cancelled' \in [0 .. MaxAttempts -> BOOLEAN]
    BY <1>12 DEF StartDownload, FreshFlag, DownloadTypeOK
  <2>3. disk' \in [Attempts -> Contents]
    BY <1>12 DEF StartDownload, DownloadTypeOK
  <2>4. worker' \in [Attempts -> {"none", "done"} \cup Running \cup Outcomes]
    BY <1>12 DEF StartDownload, DownloadTypeOK
  <2>5. \A b \in Attempts : b > generation' => worker'[b] = "none"
    BY <1>12, <2>1 DEF StartDownload, DownloadTypeOK, Attempts
  <2>6. slot' = None /\ slot'.attempt <= generation'
    BY <1>12, <2>1 DEF StartDownload, None, Attempts
  <2>7. generation' \in 0 .. MaxAttempts
    BY <2>1, AttemptsAssumption DEF Attempts
  <2>8. phase' \in Phases /\ open' = open /\ open /\ strip' = strip
    BY <1>12 DEF StartDownload, Clicked
  <2>9. EndFrame
    BY <1>12 DEF StartDownload, Clicked
  <2>10. {strip', available', open'} \subseteq BOOLEAN
    BY <1>4, <2>8, <2>9 DEF DownloadTypeOK
  <2> QED BY <1>4, <2>2, <2>3, <2>4, <2>5, <2>6, <2>7, <2>8, <2>9, <2>10 DEF DownloadTypeOK
<1>13. CASE CheckPublishes
  BY <1>13 DEF CheckPublishes, DownloadTypeOK, ui, modal
<1>14. CASE Relaunch
  <2>1. relaunches' \in 0 .. MaxRelaunches
    BY <1>14, RelaunchesAssumption DEF Relaunch, DownloadTypeOK
  <2>2. slot' = None /\ slot'.attempt <= generation'
    BY <1>14 DEF Relaunch, None
  <2>3. worker' \in [Attempts -> {"none", "done"} \cup Running \cup Outcomes]
    BY <1>14 DEF Relaunch
  <2>4. \A b \in Attempts : b > generation' => worker'[b] = "none"
    BY <1>14 DEF Relaunch
  <2>5. cancelled' \in [0 .. MaxAttempts -> BOOLEAN] /\ generation' \in 0 .. MaxAttempts
    BY <1>14, AttemptsAssumption DEF Relaunch
  <2>6. {strip', available', open', swapped'} \subseteq BOOLEAN /\ phase' = "Confirm"
    BY <1>14 DEF Relaunch
  <2>7. UNCHANGED <<disk, installing>> /\ frame' = "poll"
    BY <1>14 DEF Relaunch
  <2> QED BY <2>1, <2>2, <2>3, <2>4, <2>5, <2>6, <2>7 DEF DownloadTypeOK
<1>15. CASE UNCHANGED downloadVars
  BY <1>15 DEF downloadVars, DownloadTypeOK
<1> QED
  BY <1>1, <1>2, <1>3, <1>5, <1>6, <1>8, <1>9, <1>10, <1>11, <1>12, <1>13, <1>14, <1>15,
     <1>16, <1>17
     DEF DownloadNext, Frame

LEMMA DownloadInitType == DownloadInit => DownloadTypeOK
<1> SUFFICES ASSUME DownloadInit PROVE DownloadTypeOK
  OBVIOUS
<1>1. 0 \in 0 .. MaxAttempts /\ 0 \in 0 .. MaxRelaunches
  BY AttemptsAssumption, RelaunchesAssumption
<1>2. /\ worker \in [Attempts -> {"none", "done"} \cup Running \cup Outcomes]
      /\ disk \in [Attempts -> Contents]
      /\ cancelled \in [0 .. MaxAttempts -> BOOLEAN]
      /\ \A a \in Attempts : worker[a] = "none"
  BY DEF DownloadInit, Contents
<1>3. slot = None /\ slot.attempt <= generation
  BY DEF DownloadInit, None
<1>4. phase = "Confirm" /\ phase \in Phases /\ frame = "poll"
      /\ {strip, available, open, swapped} \subseteq BOOLEAN
  BY DEF DownloadInit, Phases
<1>5. generation = 0 /\ installing = 0 /\ relaunches = 0
  BY DEF DownloadInit
<1> QED BY <1>1, <1>2, <1>3, <1>4, <1>5 DEF DownloadTypeOK

-----------------------------------------------------------------------------

\* Whatever a worker does, the slot names a worker that is done.
LEMMA ReportedStep ==
  ASSUME DownloadTypeOK, SlotIsReported, [DownloadNext]_downloadVars
  PROVE  SlotIsReported'
<1> USE SlotKinds DEF SlotIsReported
<1>1. ASSUME NEW a \in Attempts, WorkerStep(a) PROVE SlotIsReported'
  <2>1. ASSUME NEW from, from # "done", NEW to, NEW c, Work(a, from, to, c)
        PROVE  SlotIsReported'
    BY <2>1 DEF Work, DownloadTypeOK
  <2>2. CASE Report(a)
    BY <2>2 DEF Report, DownloadTypeOK
  <2> QED
    BY <1>1, <2>1, <2>2
       DEF WorkerStep, FetchFails, FetchSucceeds, LoadCancel, ReadChunk, ReadEnds,
           ReadCompletes, ReadFails
<1>2. ASSUME UNCHANGED <<slot, worker>> PROVE SlotIsReported'
  BY <1>2
<1>3. ASSUME slot' = None PROVE SlotIsReported'
  BY <1>3 DEF None
<1> QED
  BY <1>1, <1>2, <1>3
     DEF DownloadNext, Frame, Poll, VerifyInstaller, LaunchInstaller, DrawFrame, OpenModal,
         ReleaseEvaporates, CloseModal, CancelDownload, TryAgain, StartDownload, Kept, CheckPublishes, FileDisturbed,
         Relaunch, downloadVars

\* A failure replaces the progress screen only after that attempt's worker is done.
LEMMA ScreenLeft ==
  ASSUME DownloadTypeOK, SlotIsReported, Poll
  PROVE  /\ UNCHANGED <<open, generation, cancelled, worker>>
         /\ phase' # phase => Downloading /\ generation # 0 /\ worker[generation] = "done"
<1>1. slot.kind \in Outcomes => slot.attempt # 0 /\ worker[slot.attempt] = "done"
  BY SlotKinds, AttemptsAssumption DEF SlotIsReported, Attempts
<1>2. CASE slot.kind = "ready" /\ RefuseReady(slot.attempt)
  BY <1>1, <1>2 DEF Poll, RefuseReady, Current, Outcomes
<1>3. CASE slot.kind = "failed" /\ TakeFailed
  BY <1>1, <1>3 DEF Poll, TakeFailed, Show, Current, Outcomes
<1>4. CASE Show(phase)
  BY <1>4 DEF Poll, Show
<1> QED BY <1>2, <1>3, <1>4 DEF Poll

\* The two invariants about threads and cancel flags.
LEMMA AttemptsStep ==
  ASSUME DownloadInv, [DownloadNext]_downloadVars
  PROVE  OrphansAreCancelled' /\ ShownAttemptIsLive'
<1> DEFINE Both == OrphansAreCancelled /\ ShownAttemptIsLive
<1> USE DEF DownloadInv, Running, Writing
<1>1. ASSUME NEW a \in Attempts, WorkerStep(a) PROVE Both'
  <2>1. UNCHANGED modal
    BY <1>1
       DEF WorkerStep, FetchFails, FetchSucceeds, LoadCancel, ReadChunk, ReadEnds,
           ReadCompletes, ReadFails, Report, Work
  <2>2. /\ \A b \in Attempts : worker'[b] \in Running => worker[b] \in Running
        /\ \A b \in Attempts : worker[b] # "none" => worker'[b] # "none"
    BY <1>1
       DEF WorkerStep, FetchFails, FetchSucceeds, LoadCancel, ReadChunk, ReadEnds,
           ReadCompletes, ReadFails, Report, Work, DownloadTypeOK
  <2>3. generation # 0 => generation \in Attempts
    BY AttemptsAssumption DEF DownloadTypeOK, Attempts
  <2> QED
    BY <2>1, <2>2, <2>3 DEF OrphansAreCancelled, ShownAttemptIsLive, Downloading, modal
<1>2. CASE Poll
  BY <1>2, ScreenLeft DEF OrphansAreCancelled, ShownAttemptIsLive, Downloading
<1>3. ASSUME UNCHANGED <<worker, generation, cancelled, open, phase>> PROVE Both'
  BY <1>3 DEF OrphansAreCancelled, ShownAttemptIsLive, Downloading
<1>4. ASSUME CancelAttempt, phase' = "Confirm", UNCHANGED <<worker, generation>>
      PROVE  Both'
  <2>1. \A b \in 0 .. MaxAttempts : cancelled[b] \/ b = generation => cancelled'[b]
    BY <1>4 DEF CancelAttempt, DownloadTypeOK
  <2> QED
    BY <1>4, <2>1, AttemptsAssumption
       DEF OrphansAreCancelled, ShownAttemptIsLive, Downloading, Attempts
<1>5. CASE OpenModal
  BY <1>5 DEF OpenModal, Kept, OrphansAreCancelled, ShownAttemptIsLive, Downloading,
              DownloadTypeOK
<1>6. CASE TryAgain
  BY <1>6 DEF TryAgain, Kept, OrphansAreCancelled, ShownAttemptIsLive, Downloading
<1>7. CASE StartDownload
  <2>1. generation + 1 \in Attempts /\ generation' = generation + 1 /\ ~Downloading
    BY <1>7, AttemptsAssumption DEF StartDownload, DownloadTypeOK, Attempts, Downloading
  <2>2. /\ ~cancelled'[generation'] /\ worker'[generation'] = "fetching"
        /\ \A b \in Attempts : b # generation' =>
             cancelled'[b] = cancelled[b] /\ worker'[b] = worker[b]
    BY <1>7, <2>1 DEF StartDownload, FreshFlag, DownloadTypeOK, Attempts
  <2>3. open' /\ phase' = "Downloading"
    BY <1>7 DEF StartDownload, Clicked
  <2> QED
    BY <2>1, <2>2, <2>3 DEF OrphansAreCancelled, ShownAttemptIsLive, Downloading, Attempts
<1>8. CASE Relaunch
  BY <1>8 DEF Relaunch, OrphansAreCancelled, ShownAttemptIsLive, Downloading
<1>9. CASE VerifyInstaller
  BY <1>3, <1>9 DEF VerifyInstaller, modal
<1>10. CASE LaunchInstaller
  BY <1>10 DEF LaunchInstaller, LaunchIsOwn, OrphansAreCancelled, ShownAttemptIsLive,
               Downloading
<1> QED
  BY <1>1, <1>2, <1>3, <1>4, <1>5, <1>6, <1>7, <1>8, <1>9, <1>10
     DEF DownloadNext, Frame, DrawFrame, ReleaseEvaporates, CloseModal, CancelDownload, Clicked,
         Abandon, Kept, CheckPublishes, FileDisturbed, modal, downloadVars

\* While an installer is on its way to Windows, the workers that go on are those of
\* other attempts.
LEMMA LaunchStep ==
  ASSUME DownloadInv, [DownloadNext]_downloadVars
  PROVE  LaunchIsOwn'
<1> USE DEF DownloadInv, LaunchIsOwn, Downloading
<1>1. ASSUME NEW a \in Attempts, WorkerStep(a) PROVE LaunchIsOwn'
  <2>1. worker[a] \in Running \cup Outcomes /\ UNCHANGED <<ui, modal>>
    BY <1>1
       DEF WorkerStep, FetchFails, FetchSucceeds, LoadCancel, ReadChunk, ReadEnds,
           ReadCompletes, ReadFails, Report, Work, Running, Writing, Outcomes
  <2>2. \A b \in Attempts : b # a => worker'[b] = worker[b] /\ disk'[b] = disk[b]
    BY <1>1
       DEF WorkerStep, FetchFails, FetchSucceeds, LoadCancel, ReadChunk, ReadEnds,
           ReadCompletes, ReadFails, Report, Work, DownloadTypeOK
  <2>3. frame = "launch" => generation \in Attempts /\ generation # a
    BY <2>1, AttemptsAssumption
       DEF ShownAttemptIsLive, DownloadTypeOK, Attempts, Running, Writing, Outcomes
  <2> QED BY <2>1, <2>2, <2>3 DEF ui, modal
<1>2. ASSUME NEW a \in Attempts, FileDisturbed(a) PROVE LaunchIsOwn'
  <2>1. UNCHANGED <<frame, worker, generation, open, phase>>
    BY <1>2 DEF FileDisturbed, modal
  <2>2. frame = "launch" /\ generation # a => disk'[generation] = disk[generation]
    BY <1>2, AttemptsAssumption
       DEF FileDisturbed, ShownAttemptIsLive, DownloadTypeOK, Attempts
  <2>3. frame = "launch" => (swapped' <=> swapped \/ a = generation)
    BY <1>2 DEF FileDisturbed
  <2> QED BY <2>1, <2>2, <2>3
<1>3. CASE VerifyInstaller
  <2>1. slot.attempt = generation /\ worker[generation] = "done"
    BY <1>3, SlotKinds, AttemptsAssumption
       DEF VerifyInstaller, Current, SlotIsReported, Attempts, Outcomes
  <2> QED BY <1>3, <2>1 DEF VerifyInstaller, Current, Verified, modal
<1>4. ASSUME frame' # "launch" PROVE LaunchIsOwn'
  BY <1>4
<1>5. CASE CheckPublishes \/ UNCHANGED downloadVars
  BY <1>5 DEF CheckPublishes, ui, modal, downloadVars
<1>6. CASE Poll \/ LaunchInstaller
  BY <1>4, <1>6 DEF Poll, LaunchInstaller, PollReturns
<1>7. CASE EndFrame \/ Relaunch
  BY <1>4, <1>7 DEF EndFrame, Relaunch
<1> QED
  BY <1>1, <1>2, <1>3, <1>5, <1>6, <1>7
     DEF DownloadNext, Frame, DrawFrame, OpenModal, ReleaseEvaporates, CloseModal,
         CancelDownload, TryAgain, StartDownload, Clicked

LEMMA DownloadInductive == DownloadSpec => []DownloadInv
<1>1. DownloadInit => DownloadInv
  BY DownloadInitType
     DEF DownloadInit, DownloadInv, OrphansAreCancelled, ShownAttemptIsLive, SlotIsReported,
         LaunchIsOwn, Downloading, None, Running, Writing
<1>2. DownloadInv /\ [DownloadNext]_downloadVars => DownloadInv'
  BY DownloadTypeStep, ReportedStep, AttemptsStep, LaunchStep DEF DownloadInv
<1> QED BY <1>1, <1>2, PTL DEF DownloadSpec

\* DownloadSpec keeps every type.
THEOREM DownloadTypeCorrect == DownloadSpec => []DownloadTypeOK
  BY DownloadInductive, PTL DEF DownloadInv

\* OrphansAreCancelled: no transfer goes on that nobody waits for.
THEOREM OrphansAreCancelledCorrect == DownloadSpec => []OrphansAreCancelled
  BY DownloadInductive, PTL DEF DownloadInv

\* ShownAttemptIsLive: no attempt inherits the cancellation of the one before it.
THEOREM ShownAttemptIsLiveCorrect == DownloadSpec => []ShownAttemptIsLive
  BY DownloadInductive, PTL DEF DownloadInv

\* Only the launch in a frame's poll starts an installer.
LEMMA OnlyLaunch ==
  ASSUME [DownloadNext]_downloadVars, ~LaunchInstaller
  PROVE  UNCHANGED installing
<1>1. ASSUME NEW a \in Attempts, WorkerStep(a) PROVE UNCHANGED installing
  BY <1>1
     DEF WorkerStep, FetchFails, FetchSucceeds, LoadCancel, ReadChunk, ReadEnds,
         ReadCompletes, ReadFails, Report, Work, ui
<1> QED
  BY <1>1
     DEF DownloadNext, Frame, Poll, VerifyInstaller, DrawFrame, OpenModal, ReleaseEvaporates,
         CloseModal, Clicked, CancelDownload, TryAgain, StartDownload, EndFrame,
         CheckPublishes, FileDisturbed, Relaunch, ui, downloadVars

\* Only a frame's poll shows a failure.
LEMMA OnlyPoll ==
  ASSUME [DownloadNext]_downloadVars, ~Poll
  PROVE  phase' = "Failed" => phase = "Failed"
<1>1. ASSUME NEW a \in Attempts, WorkerStep(a) PROVE UNCHANGED phase
  BY <1>1
     DEF WorkerStep, FetchFails, FetchSucceeds, LoadCancel, ReadChunk, ReadEnds,
         ReadCompletes, ReadFails, Report, Work, modal
<1> QED
  BY <1>1
     DEF DownloadNext, Frame, VerifyInstaller, LaunchInstaller, DrawFrame, OpenModal,
         ReleaseEvaporates, CloseModal, Clicked, CancelDownload, TryAgain, StartDownload,
         EndFrame, Abandon, CheckPublishes, FileDisturbed, Relaunch, modal, downloadVars

\* NoSurpriseLaunch: an installer starts only from the progress screen of its own,
\* uncancelled attempt, with all of it on disk unless another program replaced it
\* between the last check and the launch.
THEOREM NoSurpriseLaunchCorrect == DownloadSpec => NoSurpriseLaunch
<1> DEFINE Right == installing' # installing =>
                      /\ Downloading /\ installing' = generation
                      /\ ~cancelled[generation]
                      /\ disk[generation] = "whole" \/ swapped
<1>1. DownloadInv /\ [DownloadNext]_downloadVars => [Right]_downloadVars
  BY OnlyLaunch DEF DownloadInv, ShownAttemptIsLive, LaunchIsOwn, LaunchInstaller
<1> QED BY <1>1, DownloadInductive, PTL DEF DownloadSpec, NoSurpriseLaunch

\* FailureIsOwn: a failure reaches the screen only when the attempt shown has ended.
THEOREM FailureIsOwnCorrect == DownloadSpec => FailureIsOwn
<1> DEFINE Right == phase' = "Failed" /\ phase # "Failed" => worker[generation] = "done"
<1>1. DownloadInv /\ [DownloadNext]_downloadVars => [Right]_downloadVars
  BY ScreenLeft, OnlyPoll DEF DownloadInv
<1> QED BY <1>1, DownloadInductive, PTL DEF DownloadSpec, FailureIsOwn
=============================================================================
