------------------------ MODULE SensorSession_proofs ------------------------
(***************************************************************************)
(* Proofs about SensorSession for every number of staged categories, every *)
(* pipe capacity and every set of intervals.                               *)
(***************************************************************************)
EXTENDS SensorSession, TLAPS

LEMMA HeadTail ==
  ASSUME NEW M, NEW s \in Seq(M), s # <<>>
  PROVE  Head(s) \in M /\ Tail(s) \in Seq(M)
  OBVIOUS

\* The Boolean variables stay Boolean.
LEMMA FlagsStep == FlagsOK /\ [Next]_vars => FlagsOK'
<1> SUFFICES ASSUME FlagsOK, [Next]_vars PROVE FlagsOK'
  OBVIOUS
<1> USE DEF FlagsOK, workerVars, endVars, feedVars, threadVars, setVars, faultVars, serverSide, vars
<1>1. CASE CreatePipe
  BY <1>1 DEF CreatePipe
<1>2. CASE CreateFails
  BY <1>2 DEF CreateFails, FatalTo
<1>3. CASE AcceptEnds
  BY <1>3 DEF AcceptEnds, Goto
<1>4. CASE AcceptFails
  BY <1>4 DEF AcceptFails, FatalTo
<1>5. CASE AcceptClient
  BY <1>5 DEF AcceptClient
<1>6. CASE Hello
  BY <1>6 DEF Hello, Emit
<1>7. CASE WriteBroken
  BY <1>7 DEF WriteBroken, Goto
<1>8. CASE InitAbandoned
  BY <1>8 DEF InitAbandoned, Abandoned
<1>9. CASE InitFaults
  BY <1>9 DEF InitFaults, InitThrows, ReadsAsDisconnect, FatalTo, Abandoned
<1>10. CASE InitSucceeds
  BY <1>10 DEF InitSucceeds
<1>11. CASE FatalHealth
  BY <1>11 DEF FatalHealth, Emit, Goto
<1>12. CASE BeginPass
  BY <1>12 DEF BeginPass, Goto
<1>13. CASE EmitSnapshot
  BY <1>13 DEF EmitSnapshot, Emit
<1>14. CASE SnapshotSent
  BY <1>14 DEF SnapshotSent, Goto, AfterSnapshot
<1>15. CASE Announce
  BY <1>15 DEF Announce, Emit
<1>16. CASE PauseEnds
  BY <1>16 DEF PauseEnds, Goto
<1>17. CASE Teardown
  BY <1>17 DEF Teardown
<1>18. CASE JoinControl
  BY <1>18 DEF JoinControl, Goto
<1>19. CASE HostExits
  BY <1>19 DEF HostExits, ExitProcess
<1>20. CASE MonitorTask
  BY <1>20 DEF MonitorTask
<1>21. CASE DiskTask
  BY <1>21 DEF DiskTask
<1>22. CASE ProbeReturns
  BY <1>22 DEF ProbeReturns, Goto
<1>23. CASE ProbeThrows
  BY <1>23 DEF ProbeThrows, InitThrows, ReadsAsDisconnect, FatalTo
<1>24. CASE RefreshReturns
  BY <1>24 DEF RefreshReturns, Goto
<1>25. CASE PassThrows
  BY <1>25 DEF PassThrows, InPass
<1>25a. CASE PassBreaks
  BY <1>25a DEF PassBreaks, InPass
<1>26. CASE EnableNextCategory
  BY <1>26 DEF EnableNextCategory
<1>27. CASE CloseSession
  BY <1>27 DEF CloseSession
<1>28. CASE ReadControl
  <2>1. cancelled' \in BOOLEAN /\ watchdog' \in BOOLEAN
    BY <1>28 DEF ReadControl, EndSession
  <2>2. UNCHANGED <<hostStop, fatal, serverOpen, sender, feedVars, setVars>>
    BY <1>28 DEF ReadControl, EndSession
  <2>3. QED
    BY <2>1, <2>2
<1>29. CASE ControlEof
  BY <1>29 DEF ControlEof, EndSession
<1>30. CASE ControlDisposed
  BY <1>30 DEF ControlDisposed, EndSession
<1>31. CASE WatchdogFires
  BY <1>31 DEF WatchdogFires, ExitProcess
<1>32. CASE HostStops
  BY <1>32 DEF HostStops
<1>33. CASE HostStopTimesOut
  BY <1>33 DEF HostStopTimesOut, ExitProcess
<1>34. CASE ClientConnects
  BY <1>34 DEF ClientConnects
<1>35. CASE ReaderParks
  BY <1>35 DEF ReaderParks
<1>36. CASE ReaderTakesLine
  BY <1>36 DEF ReaderTakesLine, Apply, StillLoading
<1>37. CASE ReaderEof
  BY <1>37 DEF ReaderEof
<1>38. CASE WriterSends
  BY <1>38 DEF WriterSends
<1>39. CASE Shutdown
  BY <1>39 DEF Shutdown, CancelPendingRead
<1>40. CASE ClientExits
  BY <1>40 DEF ClientExits
<1>41. CASE Terminated
  BY <1>41 DEF Terminated
<1>42. ASSUME NEW ms \in Intervals, SetInterval(ms) PROVE FlagsOK'
  BY <1>42 DEF SetInterval
<1>43. CASE UNCHANGED vars
  BY <1>43
<1> HIDE DEF FlagsOK, workerVars, endVars, feedVars, threadVars, setVars, faultVars, serverSide, vars
<1>q. QED
  BY <1>1, <1>2, <1>3, <1>4, <1>5, <1>6, <1>7, <1>8, <1>9, <1>10, <1>11, <1>12, <1>13, <1>14, <1>15, <1>16, <1>17, <1>18, <1>19, <1>20, <1>21, <1>22, <1>23, <1>24, <1>25, <1>25a, <1>26, <1>27, <1>28, <1>29, <1>30, <1>31, <1>32, <1>33, <1>34, <1>35, <1>36, <1>37, <1>38, <1>39, <1>40, <1>41, <1>42, <1>43
  DEF Next, WorkerStep, HardwareStep, ControlStep, ReaderStep

\* The other types are inductive with one more fact: an enable only starts
\* while a category is left.
IndData == DataOK /\ (worker = "enable" => enabled < Stages)

LEMMA DataStep == IndData /\ [Next]_vars => IndData'
<1> SUFFICES ASSUME IndData, [Next]_vars PROVE IndData'
  OBVIOUS
<1> USE StagesAssumption, PipeCapAssumption, IntervalsAssumption, BoundsAssumption
    DEF IndData, DataOK, WorkerState, Line, Message, Cpu, Null, HealthOnly, Nothing,
        Running, workerVars, endVars, feedVars, threadVars, setVars, faultVars, serverSide, vars
<1>1. CASE CreatePipe
  BY <1>1 DEF CreatePipe
<1>2. CASE CreateFails
  BY <1>2 DEF CreateFails, FatalTo
<1>3. CASE AcceptEnds
  BY <1>3 DEF AcceptEnds, Goto
<1>4. CASE AcceptFails
  BY <1>4 DEF AcceptFails, FatalTo
<1>5. CASE AcceptClient
  BY <1>5 DEF AcceptClient
<1>6. CASE Hello
  BY <1>6 DEF Hello, Emit
<1>7. CASE WriteBroken
  BY <1>7 DEF WriteBroken, Goto
<1>8. CASE InitAbandoned
  BY <1>8 DEF InitAbandoned, Abandoned
<1>9. CASE InitFaults
  BY <1>9 DEF InitFaults, InitThrows, ReadsAsDisconnect, FatalTo, Abandoned
<1>10. CASE InitSucceeds
  BY <1>10 DEF InitSucceeds
<1>11. CASE FatalHealth
  <2>1. CASE Emit([kind |-> "snap", cat |-> HealthOnly], "teardown")
              /\ UNCHANGED <<monitor, disk, enabled, interval, endVars, control,
                             serverOpen, up, client, threadVars, feedVars, setVars,
                             faultVars>>
    BY <2>1 DEF Emit
  <2>2. CASE Goto("teardown")
    BY <2>2 DEF Goto
  <2>3. QED
    BY <1>11, <2>1, <2>2 DEF FatalHealth
<1>12. CASE BeginPass
  <2>1. CASE worker = "top"
    BY <1>12, <2>1 DEF BeginPass, Goto
  <2>2. CASE worker = "first"
    BY <1>12, <2>2 DEF BeginPass, Goto
  <2>3. QED
    BY <1>12, <2>1, <2>2 DEF BeginPass
<1>13. CASE EmitSnapshot
  BY <1>13 DEF EmitSnapshot, Emit
<1>14. CASE SnapshotSent
  BY <1>14 DEF SnapshotSent, Goto, AfterSnapshot
<1>15. CASE Announce
  BY <1>15 DEF Announce, Emit
<1>16. CASE PauseEnds
  BY <1>16 DEF PauseEnds, Goto
<1>17. CASE Teardown
  BY <1>17 DEF Teardown
<1>18. CASE JoinControl
  BY <1>18 DEF JoinControl, Goto
<1>19. CASE HostExits
  BY <1>19 DEF HostExits, ExitProcess
<1>20. CASE MonitorTask
  BY <1>20 DEF MonitorTask
<1>21. CASE DiskTask
  BY <1>21 DEF DiskTask
<1>22. CASE ProbeReturns
  BY <1>22 DEF ProbeReturns, Goto
<1>23. CASE ProbeThrows
  BY <1>23 DEF ProbeThrows, InitThrows, ReadsAsDisconnect, FatalTo
<1>24. CASE RefreshReturns
  BY <1>24 DEF RefreshReturns, Goto
<1>25. CASE PassThrows
  BY <1>25 DEF PassThrows, InPass
<1>25a. CASE PassBreaks
  BY <1>25a DEF PassBreaks, InPass
<1>26. CASE EnableNextCategory
  BY <1>26 DEF EnableNextCategory
<1>27. CASE CloseSession
  BY <1>27 DEF CloseSession
<1>28. CASE ReadControl
  <2>1. Tail(up) \in Seq(Message)
    BY <1>28 DEF ReadControl
  <2>2. CASE Head(up) = "shutdown"
    BY <1>28, <2>1, <2>2 DEF ReadControl, EndSession
  <2>3. CASE Head(up) # "shutdown" /\ cancelled
    BY <1>28, <2>1, <2>3 DEF ReadControl, EndSession, Adopt
  <2>4. CASE Head(up) # "shutdown" /\ ~cancelled
    BY <1>28, <2>1, <2>4 DEF ReadControl, Adopt
  <2>5. QED
    BY <2>2, <2>3, <2>4
<1>29. CASE ControlEof
  BY <1>29 DEF ControlEof, EndSession
<1>30. CASE ControlDisposed
  <2>1. CASE EndSession /\ UNCHANGED <<interval, up>>
    BY <2>1 DEF EndSession
  <2>2. CASE /\ control' = "ended"
             /\ UNCHANGED <<workerVars, interval, endVars, serverOpen, down, up,
                            client, threadVars, feedVars, setVars, faultVars, late>>
    BY <2>2
  <2>3. QED
    BY <1>30, <2>1, <2>2 DEF ControlDisposed
<1>31. CASE WatchdogFires
  BY <1>31 DEF WatchdogFires, ExitProcess
<1>32. CASE HostStops
  BY <1>32 DEF HostStops
<1>33. CASE HostStopTimesOut
  BY <1>33 DEF HostStopTimesOut, ExitProcess
<1>34. CASE ClientConnects
  BY <1>34 DEF ClientConnects
<1>35. CASE ReaderParks
  BY <1>35 DEF ReaderParks
<1>36. CASE ReaderTakesLine
  <2> HIDE DEF Line
  <2>1. Tail(down) \in Seq(Line) /\ Head(down) \in Line
    BY <1>36, HeadTail DEF ReaderTakesLine
  <2>2. Head(down).cat \in 0..Stages + 1
    BY <2>1 DEF Line
  <2>3. QED
    BY <1>36, <2>1, <2>2 DEF ReaderTakesLine, Apply
<1>37. CASE ReaderEof
  BY <1>37 DEF ReaderEof
<1>38. CASE WriterSends
  <2> HIDE DEF Line, Message
  <2>1. Tail(queue) \in Seq(Message) /\ Head(queue) \in Message
    BY <1>38, HeadTail DEF WriterSends
  <2>2. Append(up, Head(queue)) \in Seq(Message)
    BY <2>1
  <2>3. CASE serverOpen
    <3>1. up' \in Seq(Message) /\ queue' \in Seq(Message)
      BY <1>38, <2>1, <2>2, <2>3 DEF WriterSends
    <3>2. writer' \in {"none", "idle", "ended"}
      BY <1>38, <2>3 DEF WriterSends
    <3>3. QED
      BY <1>38, <3>1, <3>2 DEF WriterSends
  <2>4. CASE ~serverOpen
    BY <1>38, <2>1, <2>4 DEF WriterSends
  <2>5. QED
    BY <2>3, <2>4
<1>39. CASE Shutdown
  BY <1>39 DEF Shutdown, CancelPendingRead
<1>40. CASE ClientExits
  BY <1>40 DEF ClientExits
<1>41. CASE Terminated
  BY <1>41 DEF Terminated
<1>42. ASSUME NEW ms \in Intervals, SetInterval(ms) PROVE IndData'
  <2>1. Append(queue, ms) \in Seq(Message)
    OBVIOUS
  <2>2. CASE writer = "ended"
    BY <1>42, <2>2 DEF SetInterval
  <2>3. CASE writer # "ended"
    <3>1. queue' \in Seq(Message)
      BY <1>42, <2>1, <2>3 DEF SetInterval
    <3>2. /\ sets' \in 0..MaxSets /\ asked' \in ValidIntervals \cup {DefaultInterval}
          /\ UNCHANGED <<worker, enabled, down, up, reader, writer>>
      BY <1>42 DEF SetInterval
    <3>3. QED
      BY <1>42, <3>1, <3>2 DEF SetInterval
  <2>4. QED
    BY <2>2, <2>3
<1>43. CASE UNCHANGED vars
  BY <1>43
<1> HIDE DEF IndData, DataOK, WorkerState, Line, Message, Cpu, Null, HealthOnly,
         Nothing, Running, workerVars, endVars, feedVars, threadVars, setVars, faultVars, serverSide, vars
<1>q. QED
  BY <1>1, <1>2, <1>3, <1>4, <1>5, <1>6, <1>7, <1>8, <1>9, <1>10, <1>11, <1>12, <1>13, <1>14, <1>15, <1>16, <1>17, <1>18, <1>19, <1>20, <1>21, <1>22, <1>23, <1>24, <1>25, <1>25a, <1>26, <1>27, <1>28, <1>29, <1>30, <1>31, <1>32, <1>33, <1>34, <1>35, <1>36, <1>37, <1>38, <1>39, <1>40, <1>41, <1>42, <1>43
  DEF Next, WorkerStep, HardwareStep, ControlStep, ReaderStep

LEMMA DataInit == Init => IndData
<1>1. <<>> \in Seq(Line) /\ <<>> \in Seq(Message)
  OBVIOUS
<1>2. QED
  BY <1>1, StagesAssumption, BoundsAssumption
  DEF Init, IndData, DataOK, WorkerState, Nothing, Running

\* Every reachable state of a session has the types TypeOK states.
THEOREM TypeCorrect == Spec => []TypeOK
<1>1. Init => FlagsOK
  BY DEF Init, FlagsOK
<1>2. IndData /\ FlagsOK => TypeOK
  BY DEF IndData, TypeOK
<1>3. QED
  BY <1>1, <1>2, DataInit, DataStep, FlagsStep, PTL DEF Spec

-----------------------------------------------------------------------------
(* PartialExact, by the invariant StreamInv: writing appends one line the   *)
(* worker's state allows, reading takes the first line and what it says.    *)

\* Appending a line leaves what lies ahead of the earlier ones alone.
LEMMA AppendAhead ==
  ASSUME NEW p, NEW d \in Seq(Line), NEW line \in Line
  PROVE  /\ \A n \in 0..Len(d) :
              /\ Announced(p, Append(d, line), n) <=> Announced(p, d, n)
              /\ Complete(p, Append(d, line), n) <=> Complete(p, d, n)
         /\ Announced(p, Append(d, line), Len(d) + 1) <=>
              Announced(p, d, Len(d)) \/ line.kind = "progress"
         /\ Complete(p, Append(d, line), Len(d) + 1) <=>
              Complete(p, d, Len(d)) \/ (line.kind = "progress" /\ line.cat = Null)
<1> DEFINE e == Append(d, line)
<1>1. /\ Len(e) = Len(d) + 1 /\ Len(d) \in Nat /\ e[Len(d) + 1] = line
      /\ \A j \in 1..Len(d) : e[j] = d[j]
  OBVIOUS
<1> HIDE DEF e
<1>2. ASSUME NEW n \in 0..Len(d)
      PROVE  /\ Announced(p, e, n) <=> Announced(p, d, n)
             /\ Complete(p, e, n) <=> Complete(p, d, n)
  BY <1>1 DEF Announced, Complete
<1>3. Announced(p, e, Len(d) + 1) <=> Announced(p, d, Len(d)) \/ line.kind = "progress"
  BY <1>1 DEF Announced
<1>4. Complete(p, e, Len(d) + 1) <=>
        Complete(p, d, Len(d)) \/ (line.kind = "progress" /\ line.cat = Null)
  <2>1. ASSUME Complete(p, e, Len(d) + 1), ~Complete(p, d, Len(d))
        PROVE  line.kind = "progress" /\ line.cat = Null
    BY <1>1, <2>1 DEF Complete
  <2>2. Complete(p, d, Len(d)) => Complete(p, e, Len(d) + 1)
    <3>1. \A j \in 1..Len(d) : j \in 1..Len(d) + 1
      BY <1>1
    <3>2. QED
      BY <1>1, <3>1 DEF Complete
  <2>3. line.kind = "progress" /\ line.cat = Null => Complete(p, e, Len(d) + 1)
    BY <1>1 DEF Complete
  <2>4. QED
    BY <2>1, <2>2, <2>3
<1>5. QED
  BY <1>2, <1>3, <1>4 DEF e

\* A line that fits what is ahead of it may be appended.
LEMMA AppendSafe ==
  ASSUME NEW p, NEW d \in Seq(Line), NEW line \in Line, StreamOK(p, d),
         line.kind = "snap" => /\ Announced(p, d, Len(d))
                               /\ line.cat = Stages <=> Complete(p, d, Len(d)),
         line.kind = "progress" => ~Complete(p, d, Len(d))
  PROVE  /\ StreamOK(p, Append(d, line))
         /\ Announced(p, Append(d, line), Len(Append(d, line))) <=>
              Announced(p, d, Len(d)) \/ line.kind = "progress"
         /\ Complete(p, Append(d, line), Len(Append(d, line))) <=>
              Complete(p, d, Len(d)) \/ (line.kind = "progress" /\ line.cat = Null)
<1> DEFINE e == Append(d, line)
<1>1. /\ Len(e) = Len(d) + 1 /\ Len(d) \in Nat /\ e[Len(d) + 1] = line
      /\ \A j \in 1..Len(d) : e[j] = d[j]
  OBVIOUS
<1>2. /\ \A n \in 0..Len(d) :
           /\ Announced(p, e, n) <=> Announced(p, d, n)
           /\ Complete(p, e, n) <=> Complete(p, d, n)
      /\ Announced(p, e, Len(d) + 1) <=>
           Announced(p, d, Len(d)) \/ line.kind = "progress"
      /\ Complete(p, e, Len(d) + 1) <=>
           Complete(p, d, Len(d)) \/ (line.kind = "progress" /\ line.cat = Null)
  BY AppendAhead
<1> HIDE DEF e
<1>3. ASSUME NEW i \in 1..Len(e)
      PROVE  /\ e[i].kind = "snap" => /\ Announced(p, e, i - 1)
                                      /\ e[i].cat = Stages <=> Complete(p, e, i - 1)
             /\ e[i].kind = "progress" => ~Complete(p, e, i - 1)
  <2>1. CASE i = Len(d) + 1
    <3>1. i - 1 = Len(d) /\ Len(d) \in 0..Len(d) /\ e[i] = line
      BY <1>1, <2>1
    <3>2. /\ Announced(p, e, Len(d)) <=> Announced(p, d, Len(d))
          /\ Complete(p, e, Len(d)) <=> Complete(p, d, Len(d))
      BY <1>2, <3>1
    <3>3. QED
      BY <3>1, <3>2
  <2>2. CASE i \in 1..Len(d)
    <3>1. i - 1 \in 0..Len(d) /\ e[i] = d[i]
      BY <1>1, <2>2
    <3>2. /\ Announced(p, e, i - 1) <=> Announced(p, d, i - 1)
          /\ Complete(p, e, i - 1) <=> Complete(p, d, i - 1)
      BY <1>2, <3>1
    <3>3. QED
      BY <2>2, <3>1, <3>2 DEF StreamOK
  <2>3. QED
    BY <1>1, <2>1, <2>2
<1>4. StreamOK(p, e)
  BY <1>3 DEF StreamOK
<1>5. QED
  BY <1>1, <1>2, <1>4 DEF e

\* What the client's progress becomes when it takes the first line.
Taken(p, d) == IF Head(d).kind = "progress" THEN Head(d).cat ELSE p

\* Taking the first line moves it from "ahead" to "applied".
LEMMA TailAhead ==
  ASSUME NEW p, NEW d \in Seq(Line), d # <<>>, StreamOK(p, d),
         NEW n \in 1..Len(d)
  PROVE  /\ Announced(Taken(p, d), Tail(d), n - 1) <=> Announced(p, d, n)
         /\ Complete(Taken(p, d), Tail(d), n - 1) <=> Complete(p, d, n)
<1> DEFINE t == Tail(d)
<1>1. /\ Len(d) \in Nat /\ Len(d) >= 1 /\ Head(d) = d[1] /\ Len(t) = Len(d) - 1
      /\ \A j \in 1..Len(d) - 1 : t[j] = d[j + 1]
  OBVIOUS
<1>2. d[1] \in Line
  BY <1>1
<1>3. d[1].kind \in {"progress", "snap"} /\ d[1].cat \in 0..Stages + 1
  BY <1>2, StagesAssumption DEF Line
<1>4. d[1].kind = "progress" => p # Null
  BY <1>1 DEF StreamOK, Complete
<1> HIDE DEF t
<1>5. \A j \in 1..n : j # 1 => j - 1 \in 1..n - 1 /\ t[j - 1] = d[j]
  BY <1>1
<1>6. \A j \in 1..n - 1 : j + 1 \in 1..n /\ t[j] = d[j + 1]
  BY <1>1
<1>7. 1 \in 1..n
  BY <1>1
<1>8. (\E j \in 1..n : d[j].kind = "progress") <=>
        \/ d[1].kind = "progress"
        \/ \E j \in 1..n - 1 : t[j].kind = "progress"
  <2>1. ASSUME NEW j \in 1..n, d[j].kind = "progress", j # 1
        PROVE  \E k \in 1..n - 1 : t[k].kind = "progress"
    BY <1>5, <2>1
  <2>2. ASSUME NEW j \in 1..n - 1, t[j].kind = "progress"
        PROVE  \E k \in 1..n : d[k].kind = "progress"
    BY <1>6, <2>2
  <2>3. QED
    BY <1>7, <2>1, <2>2
<1>9. (\E j \in 1..n : d[j].kind = "progress" /\ d[j].cat = Null) <=>
        \/ d[1].kind = "progress" /\ d[1].cat = Null
        \/ \E j \in 1..n - 1 : t[j].kind = "progress" /\ t[j].cat = Null
  <2>1. ASSUME NEW j \in 1..n, d[j].kind = "progress", d[j].cat = Null, j # 1
        PROVE  \E k \in 1..n - 1 : t[k].kind = "progress" /\ t[k].cat = Null
    BY <1>5, <2>1
  <2>2. ASSUME NEW j \in 1..n - 1, t[j].kind = "progress", t[j].cat = Null
        PROVE  \E k \in 1..n : d[k].kind = "progress" /\ d[k].cat = Null
    BY <1>6, <2>2
  <2>3. QED
    BY <1>7, <2>1, <2>2
<1>10. Announced(Taken(p, d), t, n - 1) <=> Announced(p, d, n)
  BY <1>1, <1>3, <1>8, StagesAssumption DEF Announced, Taken, Nothing
<1>11. Complete(Taken(p, d), t, n - 1) <=> Complete(p, d, n)
  BY <1>1, <1>3, <1>4, <1>9 DEF Complete, Taken
<1>12. QED
  BY <1>10, <1>11 DEF t

\* One step of the session keeps the stream's invariant.
LEMMA StreamStep == IndData /\ StreamInv /\ [Next]_vars => StreamInv'
<1> SUFFICES ASSUME IndData, StreamInv, [Next]_vars PROVE StreamInv'
  OBVIOUS
<1> USE DEF workerVars, endVars, feedVars, threadVars, setVars, faultVars, serverSide, vars
<1>0. /\ down \in Seq(Line) /\ enabled \in 0..Stages
      /\ worker = "enable" => enabled < Stages
  BY DEF IndData, DataOK
<1>1. CASE CreatePipe
  BY <1>1 DEF CreatePipe, StreamInv, WorkerInv, Written, PartialExact
<1>2. CASE CreateFails
  BY <1>2 DEF CreateFails, FatalTo, StreamInv, WorkerInv, Written, PartialExact
<1>3. CASE AcceptEnds
  BY <1>3 DEF AcceptEnds, Goto, StreamInv, WorkerInv, Written, PartialExact
<1>4. CASE AcceptFails
  BY <1>4 DEF AcceptFails, FatalTo, StreamInv, WorkerInv, Written, PartialExact
<1>5. CASE AcceptClient
  BY <1>5 DEF AcceptClient, StreamInv, WorkerInv, Written, PartialExact
<1>6. CASE Hello
  <2> DEFINE line == [kind |-> "progress", cat |-> Cpu]
  <2>1. line \in Line /\ down' = Append(down, line)
    BY <1>0, <1>6, StagesAssumption DEF Hello, Emit, Line, Cpu
  <2>2. progress = Nothing /\ down = <<>> /\ enabled = 0
    BY <1>0, <1>6 DEF Hello, StreamInv, WorkerInv
  <2>3. ~Complete(progress, down, Len(down))
    BY <2>2, StagesAssumption DEF Complete, Null, Nothing
  <2>4. line.kind = "progress" /\ line.cat # Null
    BY StagesAssumption DEF Cpu, Null
  <2>5. /\ StreamOK(progress, down')
        /\ Announced(progress, down', Len(down'))
        /\ ~Complete(progress, down', Len(down'))
    <3> HIDE DEF line
    <3>1. QED
      BY <1>0, <2>1, <2>3, <2>4, AppendSafe DEF StreamInv
  <2>6. worker' = "init" /\ UNCHANGED <<enabled, progress, latest, partial>>
    BY <1>0, <1>6 DEF Hello, Emit
  <2>7. WorkerInv'
    BY <2>2, <2>5, <2>6 DEF WorkerInv, Written
  <2>8. QED
    BY <2>5, <2>6, <2>7 DEF StreamInv, PartialExact
<1>7. CASE WriteBroken
  BY <1>7 DEF WriteBroken, Goto, StreamInv, WorkerInv, Written, PartialExact
<1>8. CASE InitAbandoned
  BY <1>8 DEF InitAbandoned, Abandoned, StreamInv, WorkerInv, Written, PartialExact
<1>9. CASE InitFaults
  BY <1>9 DEF InitFaults, InitThrows, ReadsAsDisconnect, FatalTo, Abandoned, StreamInv, WorkerInv, Written, PartialExact
<1>10. CASE InitSucceeds
  BY <1>10 DEF InitSucceeds, StreamInv, WorkerInv, Written, PartialExact
<1>11. CASE FatalHealth
  <2> DEFINE line == [kind |-> "snap", cat |-> HealthOnly]
  <2>1. CASE Goto("teardown")
    BY <2>1 DEF Goto, StreamInv, WorkerInv, PartialExact, Written
  <2>2. CASE /\ Emit(line, "teardown")
             /\ UNCHANGED <<monitor, disk, enabled, interval, endVars, control,
                            serverOpen, up, client, threadVars, feedVars, setVars,
                            faultVars>>
    <3>1. line \in Line /\ down' = Append(down, line)
      BY <2>2, StagesAssumption DEF Emit, Line, HealthOnly
    <3>2. Announced(progress, down, Len(down)) /\ ~Complete(progress, down, Len(down))
      BY <1>0, <1>11 DEF FatalHealth, StreamInv, WorkerInv, Written
    <3>3. line.kind = "snap" /\ line.cat # Stages
      BY StagesAssumption DEF HealthOnly
    <3>4. StreamOK(progress, down')
      <4> HIDE DEF line
      <4>1. QED
        BY <1>0, <3>1, <3>2, <3>3, AppendSafe DEF StreamInv
    <3>5. worker' = "teardown" /\ UNCHANGED <<progress, latest, partial>>
      BY <2>2 DEF Emit
    <3>6. QED
      BY <3>4, <3>5 DEF StreamInv, WorkerInv, PartialExact
  <2>3. QED
    BY <1>0, <1>11, <2>1, <2>2 DEF FatalHealth
<1>12. CASE BeginPass
  BY <1>12 DEF BeginPass, Goto, StreamInv, WorkerInv, Written, PartialExact
<1>13. CASE EmitSnapshot
  <2> DEFINE line == [kind |-> "snap", cat |-> enabled]
  <2>1. line \in Line /\ down' = Append(down, line)
    BY <1>0, <1>13, StagesAssumption DEF EmitSnapshot, Emit, Line
  <2>2. /\ Announced(progress, down, Len(down))
        /\ Complete(progress, down, Len(down)) <=> enabled = Stages
    BY <1>0, <1>13 DEF EmitSnapshot, StreamInv, WorkerInv, Written
  <2>3. line.kind = "snap" /\ line.cat = enabled
    OBVIOUS
  <2>4. /\ StreamOK(progress, down')
        /\ Announced(progress, down', Len(down'))
        /\ Complete(progress, down', Len(down')) <=> enabled = Stages
    <3> HIDE DEF line
    <3>1. QED
      BY <1>0, <2>1, <2>2, <2>3, AppendSafe DEF StreamInv
  <2>5. worker' = "sent" /\ UNCHANGED <<enabled, progress, latest, partial>>
    BY <1>0, <1>13 DEF EmitSnapshot, Emit
  <2>6. QED
    BY <2>4, <2>5 DEF StreamInv, WorkerInv, Written, PartialExact
<1>14. CASE SnapshotSent
  BY <1>0, StagesAssumption, <1>14 DEF SnapshotSent, Goto, AfterSnapshot, StreamInv, WorkerInv, Written, PartialExact
<1>15. CASE Announce
  <2> DEFINE line == [kind |-> "progress", cat |-> enabled + 1]
  <2>1. line \in Line /\ down' = Append(down, line)
    BY <1>0, <1>15, StagesAssumption DEF Announce, Emit, Line
  <2>2. /\ Announced(progress, down, Len(down))
        /\ ~Complete(progress, down, Len(down))
    BY <1>0, <1>15 DEF Announce, StreamInv, WorkerInv, Written
  <2>3. line.kind = "progress" /\ (line.cat = Null <=> enabled = Stages)
    BY <1>0, StagesAssumption DEF Null
  <2>4. /\ StreamOK(progress, down')
        /\ Announced(progress, down', Len(down'))
        /\ Complete(progress, down', Len(down')) <=> enabled = Stages
    <3> HIDE DEF line
    <3>1. QED
      BY <1>0, <2>1, <2>2, <2>3, AppendSafe DEF StreamInv
  <2>5. worker' = "top" /\ UNCHANGED <<enabled, progress, latest, partial>>
    BY <1>0, <1>15 DEF Announce, Emit
  <2>6. QED
    BY <2>4, <2>5 DEF StreamInv, WorkerInv, Written, PartialExact
<1>16. CASE PauseEnds
  BY <1>16 DEF PauseEnds, Goto, StreamInv, WorkerInv, Written, PartialExact
<1>17. CASE Teardown
  BY <1>17 DEF Teardown, StreamInv, WorkerInv, Written, PartialExact
<1>18. CASE JoinControl
  BY <1>18 DEF JoinControl, Goto, StreamInv, WorkerInv, Written, PartialExact
<1>19. CASE HostExits
  BY <1>19 DEF HostExits, ExitProcess, StreamInv, WorkerInv, Written, PartialExact
<1>20. CASE MonitorTask
  BY <1>20 DEF MonitorTask, StreamInv, WorkerInv, Written, PartialExact
<1>21. CASE DiskTask
  BY <1>21 DEF DiskTask, StreamInv, WorkerInv, Written, PartialExact
<1>22. CASE ProbeReturns
  BY <1>0, StagesAssumption, <1>22 DEF ProbeReturns, Goto, StreamInv, WorkerInv, Written, PartialExact
<1>23. CASE ProbeThrows
  BY <1>23 DEF ProbeThrows, InitThrows, ReadsAsDisconnect, FatalTo, StreamInv, WorkerInv, Written, PartialExact
<1>24. CASE RefreshReturns
  BY <1>24 DEF RefreshReturns, Goto, StreamInv, WorkerInv, Written, PartialExact
<1>25. CASE PassThrows
  BY <1>25 DEF PassThrows, InPass, StreamInv, WorkerInv, Written, PartialExact
<1>25a. CASE PassBreaks
  BY <1>25a DEF PassBreaks, InPass, StreamInv, WorkerInv, Written, PartialExact
<1>26. CASE EnableNextCategory
  BY <1>0, StagesAssumption, <1>26 DEF EnableNextCategory, StreamInv, WorkerInv, Written, PartialExact
<1>27. CASE CloseSession
  BY <1>27 DEF CloseSession, StreamInv, WorkerInv, Written, PartialExact
<1>28. CASE ReadControl
  <2>1. UNCHANGED <<worker, enabled, down, feedVars>>
    BY <1>0, <1>28 DEF ReadControl, EndSession
  <2>2. QED
    BY <2>1 DEF StreamInv, WorkerInv, Written, PartialExact
<1>29. CASE ControlEof
  BY <1>29 DEF ControlEof, EndSession, StreamInv, WorkerInv, Written, PartialExact
<1>30. CASE ControlDisposed
  BY <1>30 DEF ControlDisposed, EndSession, StreamInv, WorkerInv, Written, PartialExact
<1>31. CASE WatchdogFires
  BY <1>31 DEF WatchdogFires, ExitProcess, StreamInv, WorkerInv, Written, PartialExact
<1>32. CASE HostStops
  BY <1>32 DEF HostStops, StreamInv, WorkerInv, Written, PartialExact
<1>33. CASE HostStopTimesOut
  BY <1>33 DEF HostStopTimesOut, ExitProcess, StreamInv, WorkerInv, Written, PartialExact
<1>34. CASE ClientConnects
  BY <1>34 DEF ClientConnects, StreamInv, WorkerInv, Written, PartialExact
<1>35. CASE ReaderParks
  BY <1>35 DEF ReaderParks, StreamInv, WorkerInv, Written, PartialExact
<1>36. CASE ReaderTakesLine
  <2>1. /\ down # <<>> /\ down' = Tail(down) /\ down \in Seq(Line)
        /\ Apply(Head(down)) /\ UNCHANGED <<worker, enabled>>
    BY <1>0, <1>36 DEF ReaderTakesLine, serverSide, workerVars
  <2>2. /\ Head(down) \in Line /\ Head(down) = down[1]
        /\ Len(down) \in Nat /\ 1 \in 1..Len(down)
        /\ Len(down) \in 1..Len(down) /\ Len(down') = Len(down) - 1
        /\ \A j \in 1..Len(down') : down'[j] = down[j + 1] /\ j + 1 \in 1..Len(down)
    BY <2>1, HeadTail
  <2>3. Head(down).kind \in {"progress", "snap"} /\ Head(down).cat \in 0..Stages + 1
    BY <2>2 DEF Line
  <2>4. progress' = Taken(progress, down)
    BY <2>1, <2>3 DEF Apply, Taken
  <2>5. StreamOK(progress, down)
    BY DEF StreamInv
  <2>6. StreamOK(progress', down')
    <3> SUFFICES ASSUME NEW j \in 1..Len(down')
                 PROVE  /\ down'[j].kind = "snap" =>
                             /\ Announced(progress', down', j - 1)
                             /\ down'[j].cat = Stages <=> Complete(progress', down', j - 1)
                        /\ down'[j].kind = "progress" => ~Complete(progress', down', j - 1)
      BY DEF StreamOK
    <3>1. j \in 1..Len(down) /\ j + 1 \in 1..Len(down) /\ (j + 1) - 1 = j
      BY <2>2
    <3>2. /\ Announced(progress', down', j - 1) <=> Announced(progress, down, j)
          /\ Complete(progress', down', j - 1) <=> Complete(progress, down, j)
      BY <2>1, <2>4, <2>5, <3>1, TailAhead
    <3>3. /\ down[j + 1].kind = "snap" =>
               /\ Announced(progress, down, j)
               /\ down[j + 1].cat = Stages <=> Complete(progress, down, j)
          /\ down[j + 1].kind = "progress" => ~Complete(progress, down, j)
      BY <2>5, <3>1 DEF StreamOK
    <3>4. QED
      BY <2>2, <3>2, <3>3
  <2>7. /\ Announced(progress', down', Len(down')) <=>
             Announced(progress, down, Len(down))
        /\ Complete(progress', down', Len(down')) <=>
             Complete(progress, down, Len(down))
    <3>1. PICK n \in 1..Len(down) : n = Len(down) /\ Len(down') = n - 1
      BY <2>2
    <3>2. /\ Announced(progress', down', n - 1) <=> Announced(progress, down, n)
          /\ Complete(progress', down', n - 1) <=> Complete(progress, down, n)
      BY <2>1, <2>4, <2>5, TailAhead
    <3>3. QED
      BY <3>1, <3>2
  <2>8. WorkerInv'
    BY <2>1, <2>7 DEF WorkerInv, Written, StreamInv
  <2>9. PartialExact'
    <3>1. CASE Head(down).kind = "progress"
      BY <2>1, <3>1 DEF Apply, PartialExact, StreamInv
    <3>2. CASE Head(down).kind = "snap"
      <4>1. Announced(progress, down, 0) /\ (Head(down).cat = Stages <=> Complete(progress, down, 0))
        BY <2>2, <2>5, <3>2 DEF StreamOK
      <4>2. progress # Nothing /\ (Head(down).cat = Stages <=> progress = Null)
        BY <4>1 DEF Announced, Complete
      <4>3. latest' = Head(down).cat /\ partial' = StillLoading
        BY <2>1, <3>2 DEF Apply
      <4>4. QED
        BY <4>2, <4>3 DEF StillLoading, PartialExact
    <3>3. QED
      BY <2>3, <3>1, <3>2
  <2>10. QED
    BY <2>6, <2>8, <2>9 DEF StreamInv
<1>37. CASE ReaderEof
  BY <1>37 DEF ReaderEof, StreamInv, WorkerInv, Written, PartialExact
<1>38. CASE WriterSends
  BY <1>38 DEF WriterSends, StreamInv, WorkerInv, Written, PartialExact
<1>39. CASE Shutdown
  BY <1>39 DEF Shutdown, CancelPendingRead, StreamInv, WorkerInv, Written, PartialExact
<1>40. CASE ClientExits
  BY <1>40 DEF ClientExits, StreamInv, WorkerInv, Written, PartialExact
<1>41. CASE Terminated
  BY <1>41 DEF Terminated, StreamInv, WorkerInv, Written, PartialExact
<1>42. ASSUME NEW ms \in Intervals, SetInterval(ms) PROVE StreamInv'
  BY <1>42 DEF SetInterval, StreamInv, WorkerInv, Written, PartialExact
<1>43. CASE UNCHANGED vars
  BY <1>43 DEF StreamInv, WorkerInv, Written, PartialExact
<1> HIDE DEF workerVars, endVars, feedVars, threadVars, setVars, faultVars, serverSide, vars
<1>q. QED
  BY <1>1, <1>2, <1>3, <1>4, <1>5, <1>6, <1>7, <1>8, <1>9, <1>10, <1>11, <1>12, <1>13, <1>14, <1>15, <1>16, <1>17, <1>18, <1>19, <1>20, <1>21, <1>22, <1>23, <1>24, <1>25, <1>25a, <1>26, <1>27, <1>28, <1>29, <1>30, <1>31, <1>32, <1>33, <1>34, <1>35, <1>36, <1>37, <1>38, <1>39, <1>40, <1>41, <1>42, <1>43
  DEF Next, WorkerStep, HardwareStep, ControlStep, ReaderStep

LEMMA StreamInit == Init => StreamInv
BY StagesAssumption
DEF Init, StreamInv, StreamOK, WorkerInv, Written, PartialExact, Nothing

\* The client's partial mark is exact in every reachable state: SensorState::apply
\* marks a snapshot partial if and only if a category was still to come.
THEOREM PartialExactCorrect == Spec => []PartialExact
<1>1. StreamInv => PartialExact
  BY DEF StreamInv
<1>2. QED
  BY <1>1, DataInit, DataStep, StreamInit, StreamStep, PTL DEF Spec

-----------------------------------------------------------------------------
(* SensorSession implements ServiceProcess.                                *)

\* The pipe is there only between its creation and the end of the process.
PipeInv ==
  /\ worker = "create" => ~serverOpen /\ client = "absent"
  /\ worker = "exited" => ~serverOpen
  /\ client \in {"absent", "attached", "detached", "gone"}

Move == Process!SvcNext \/ UNCHANGED Seen

LEMMA ImplementsStep == PipeInv /\ [Next]_vars => PipeInv' /\ Move
<1> SUFFICES ASSUME PipeInv, [Next]_vars PROVE PipeInv' /\ Move
  OBVIOUS
<1> USE DEF workerVars, endVars, feedVars, threadVars, setVars, faultVars, serverSide, vars
<1>1. ASSUME UNCHANGED <<serverOpen, client, reader, writer>>,
             \/ UNCHANGED worker
             \/ {worker, worker'} \cap {"create", "exited"} = {}
      PROVE  PipeInv' /\ Move
  BY <1>1 DEF PipeInv, Move, Seen, ClientOpen
\* The client's threads: its handles can only close.
<1>2. ASSUME UNCHANGED <<worker, serverOpen>>, ThreadsRun,
             client' \in {"detached", "gone"} \/ client' = client,
             ClientOpen' => ClientOpen
      PROVE  PipeInv' /\ Move
  BY <1>2 DEF PipeInv, Move, Seen, ThreadsRun, Process!SvcNext, Process!Detach,
              Process!Move
<1>3. ASSUME worker' = "exited", ~serverOpen', UNCHANGED client, worker # "exited"
      PROVE  PipeInv' /\ Move
  BY <1>3 DEF PipeInv, Move, Seen, Process!SvcNext, Process!Exit, Process!Move
<1>4. CASE CreatePipe
  BY <1>4 DEF CreatePipe, PipeInv, Move, Seen, Process!SvcNext, Process!Listen,
              Process!Move
<1>5. CASE CreateFails
  BY <1>5 DEF CreateFails, FatalTo, PipeInv, Move, Seen, Process!SvcNext,
              Process!DropPipe, Process!Move
<1>6. CASE CloseSession
  BY <1>6 DEF CloseSession, PipeInv, Move, Seen, Process!SvcNext, Process!DropPipe,
              Process!Move
<1>7. CASE ClientConnects
  BY <1>7 DEF ClientConnects, PipeInv, Move, Seen, ClientOpen, Process!SvcNext,
              Process!Attach, Process!Move
<1>8. CASE HostExits
  BY <1>3, <1>8 DEF HostExits, ExitProcess
<1>9. CASE WatchdogFires
  BY <1>3, <1>9 DEF WatchdogFires, ExitProcess
<1>10. CASE HostStopTimesOut
  BY <1>3, <1>10 DEF HostStopTimesOut, ExitProcess
<1>11. CASE AcceptEnds
  BY <1>1, <1>11 DEF AcceptEnds, Goto
<1>12. CASE AcceptFails
  BY <1>1, <1>12 DEF AcceptFails, FatalTo
<1>13. CASE AcceptClient
  BY <1>1, <1>13 DEF AcceptClient
<1>14. CASE Hello
  BY <1>1, <1>14 DEF Hello, Emit
<1>15. CASE WriteBroken
  BY <1>1, <1>15 DEF WriteBroken, Goto
<1>16. CASE InitAbandoned
  BY <1>1, <1>16 DEF InitAbandoned
<1>17. CASE InitFaults
  BY <1>1, <1>17 DEF InitFaults, InitThrows, ReadsAsDisconnect, FatalTo
<1>18. CASE InitSucceeds
  BY <1>1, <1>18 DEF InitSucceeds
<1>19. CASE FatalHealth
  BY <1>1, <1>19 DEF FatalHealth, Goto, Emit
<1>20. CASE BeginPass
  BY <1>1, <1>20 DEF BeginPass, Goto
<1>21. CASE EmitSnapshot
  BY <1>1, <1>21 DEF EmitSnapshot, Emit
<1>22. CASE SnapshotSent
  BY <1>1, <1>22 DEF SnapshotSent, Goto, AfterSnapshot
<1>23. CASE Announce
  BY <1>1, <1>23 DEF Announce, Emit
<1>24. CASE PauseEnds
  BY <1>1, <1>24 DEF PauseEnds, Goto
<1>25. CASE Teardown
  BY <1>1, <1>25 DEF Teardown
<1>26. CASE JoinControl
  BY <1>1, <1>26 DEF JoinControl, Goto
<1>27. CASE ProbeReturns
  BY <1>1, <1>27 DEF ProbeReturns, Goto
<1>28. CASE ProbeThrows
  BY <1>1, <1>28 DEF ProbeThrows, InitThrows, ReadsAsDisconnect, FatalTo
<1>29. CASE RefreshReturns
  BY <1>1, <1>29 DEF RefreshReturns, Goto
<1>30. CASE PassThrows
  BY <1>1, <1>30 DEF PassThrows, InPass
<1>30a. CASE PassBreaks
  BY <1>1, <1>30a DEF PassBreaks, InPass
<1>31. CASE EnableNextCategory
  BY <1>1, <1>31 DEF EnableNextCategory
<1>32. CASE MonitorTask
  BY <1>1, <1>32 DEF MonitorTask
<1>33. CASE DiskTask
  BY <1>1, <1>33 DEF DiskTask
<1>34. CASE HostStops
  BY <1>1, <1>34 DEF HostStops
<1>35. CASE ReadControl
  BY <1>1, <1>35 DEF ReadControl, EndSession
<1>36. CASE ControlEof
  BY <1>1, <1>36 DEF ControlEof, EndSession
<1>37. CASE ControlDisposed
  BY <1>1, <1>37 DEF ControlDisposed, EndSession
<1>38. CASE Terminated
  BY <1>1, <1>38 DEF Terminated
<1>39. CASE ReaderParks
  BY <1>2, <1>39 DEF ReaderParks, ClientOpen, ThreadsRun
<1>40. CASE ReaderTakesLine
  BY <1>2, <1>40 DEF ReaderTakesLine, ClientOpen, ThreadsRun
<1>41. CASE ReaderEof
  BY <1>2, <1>41 DEF ReaderEof, ClientOpen, ThreadsRun
<1>42. CASE WriterSends
  BY <1>2, <1>42 DEF WriterSends, ClientOpen, ThreadsRun
<1>43. CASE Shutdown
  BY <1>2, <1>43 DEF Shutdown, ClientOpen, ThreadsRun, CancelPendingRead
<1>44. CASE ClientExits
  BY <1>2, <1>44 DEF ClientExits, ClientOpen, ThreadsRun
<1>45. ASSUME NEW ms \in Intervals, SetInterval(ms) PROVE PipeInv' /\ Move
  BY <1>1, <1>45 DEF SetInterval
<1>46. CASE UNCHANGED vars
  BY <1>1, <1>46
<1> HIDE DEF workerVars, endVars, feedVars, threadVars, setVars, faultVars, serverSide, vars
<1>q. QED
  BY <1>4, <1>5, <1>6, <1>7, <1>8, <1>9, <1>10, <1>11, <1>12, <1>13, <1>14,
     <1>15, <1>16, <1>17, <1>18, <1>19, <1>20, <1>21, <1>22, <1>23, <1>24,
     <1>25, <1>26, <1>27, <1>28, <1>29, <1>30, <1>30a, <1>31, <1>32, <1>33, <1>34,
     <1>35, <1>36, <1>37, <1>38, <1>39, <1>40, <1>41, <1>42, <1>43, <1>44,
     <1>45, <1>46
  DEF Next, WorkerStep, HardwareStep, ControlStep, ReaderStep

\* The safety part of ImplementsServiceProcess: seen from outside, every step of a
\* session is a step ServiceProcess allows.
THEOREM ImplementsProcess == Spec => Process!SvcSpec
<1>1. Init => PipeInv /\ Process!SvcInit
  BY DEF Init, PipeInv, Process!SvcInit, Seen
<1>2. Spec => []PipeInv
  BY <1>1, ImplementsStep, PTL DEF Spec
<1>3. Move => [Process!SvcNext]_Seen
  BY DEF Move
<1> QED BY <1>1, <1>2, <1>3, ImplementsStep, PTL DEF Spec, Process!SvcSpec

-----------------------------------------------------------------------------
(* What the worker's place says of its monitor and of the cancellation.    *)

Serving == {"probe", "first", "top", "refresh", "emit", "sent", "enable",
            "announce", "pause"}

\* The monitor is the init tasks' until the init is over, the session's while it
\* serves, and nobody's that the teardown does not reach.
MonitorInv ==
  /\ worker \in {"create", "accept", "hello"} => monitor = "none"
  /\ worker = "init" => monitor \in {"opening", "built", "faulted"}
  /\ worker \in Serving => monitor = "live"
  /\ worker = "fatalHealth" => monitor \in {"none", "live"}
  /\ worker \in {"teardown", "closing"} =>
       monitor \in {"none", "live", "orphan", "disposed"}
  /\ NoLeakedMonitor

\* A late line leads straight to a look at the token.
LateInv ==
  /\ late \in {0, 1}
  /\ late = 1 => /\ cancelled
                 /\ worker \in {"sent", "top", "teardown", "closing", "joining",
                                "stopped", "exited"}

PlaceInv == MonitorInv /\ LateInv

LEMMA PlaceStep == PlaceInv /\ [Next]_vars => PlaceInv'
<1> SUFFICES ASSUME PlaceInv, [Next]_vars PROVE PlaceInv'
  OBVIOUS
<1> USE DEF workerVars, endVars, feedVars, threadVars, setVars, faultVars, serverSide, vars
<1>0. MonitorInv /\ LateInv
  BY DEF PlaceInv
\* A step that leaves the worker where it is.
<1>1. ASSUME UNCHANGED <<worker, monitor, late>>, cancelled => cancelled'
      PROVE  PlaceInv'
  BY <1>1 DEF PlaceInv, MonitorInv, LateInv, NoLeakedMonitor
<1>4. CASE CreatePipe
  BY <1>0, <1>4 DEF CreatePipe, PlaceInv, LateInv,
              MonitorInv, NoLeakedMonitor, Serving
<1>5. CASE AcceptClient
  BY <1>0, <1>5 DEF AcceptClient, PlaceInv, LateInv,
              MonitorInv, NoLeakedMonitor, Serving
<1>6. CASE Hello
  BY <1>0, <1>6 DEF Hello, Emit, PlaceInv, LateInv,
              MonitorInv, NoLeakedMonitor, Serving
<1>7. CASE InitSucceeds
  BY <1>0, <1>7 DEF InitSucceeds, PlaceInv, LateInv,
              MonitorInv, NoLeakedMonitor, Serving
<1>8. CASE InitFaults
  BY <1>0, <1>8 DEF InitFaults, InitThrows, ReadsAsDisconnect, FatalTo, Abandoned, PlaceInv, LateInv,
              MonitorInv, NoLeakedMonitor, Serving
<1>9. CASE ProbeReturns
  BY <1>0, <1>9 DEF ProbeReturns, Goto, PlaceInv, LateInv,
              MonitorInv, NoLeakedMonitor, Serving
<1>10. CASE ProbeThrows
  BY <1>0, <1>10 DEF ProbeThrows, InitThrows, ReadsAsDisconnect, FatalTo, PlaceInv, LateInv,
              MonitorInv, NoLeakedMonitor, Serving
<1>11. CASE BeginPass
  BY <1>0, <1>11 DEF BeginPass, Goto, PlaceInv, LateInv,
              MonitorInv, NoLeakedMonitor, Serving
<1>12. CASE RefreshReturns
  BY <1>0, <1>12 DEF RefreshReturns, Goto, PlaceInv, LateInv,
              MonitorInv, NoLeakedMonitor, Serving
<1>13. CASE PassThrows
  BY <1>0, <1>13 DEF PassThrows, InPass, PlaceInv, LateInv,
              MonitorInv, NoLeakedMonitor, Serving
<1>13a. CASE PassBreaks
  BY <1>0, <1>13a DEF PassBreaks, InPass, PlaceInv, LateInv,
              MonitorInv, NoLeakedMonitor, Serving
<1>14. CASE EmitSnapshot
  BY <1>0, <1>14 DEF EmitSnapshot, Emit, PlaceInv, LateInv,
              MonitorInv, NoLeakedMonitor, Serving
<1>15. CASE SnapshotSent
  BY <1>0, <1>15 DEF SnapshotSent, Goto, AfterSnapshot, PlaceInv, LateInv,
              MonitorInv, NoLeakedMonitor, Serving
<1>16. CASE EnableNextCategory
  BY <1>0, <1>16 DEF EnableNextCategory, PlaceInv, LateInv,
              MonitorInv, NoLeakedMonitor, Serving
<1>17. CASE Announce
  BY <1>0, <1>17 DEF Announce, Emit, PlaceInv, LateInv,
              MonitorInv, NoLeakedMonitor, Serving
<1>18. CASE PauseEnds
  BY <1>0, <1>18 DEF PauseEnds, Goto, PlaceInv, LateInv,
              MonitorInv, NoLeakedMonitor, Serving
<1>19. CASE MonitorTask
  BY <1>0, <1>19 DEF MonitorTask, PlaceInv, LateInv,
              MonitorInv, NoLeakedMonitor, Serving
<1>20. CASE CreateFails
  BY <1>0, <1>20 DEF CreateFails, FatalTo, PlaceInv, LateInv,
              MonitorInv, NoLeakedMonitor, Serving
<1>21. CASE AcceptEnds
  BY <1>0, <1>21 DEF AcceptEnds, Goto, PlaceInv, LateInv,
              MonitorInv, NoLeakedMonitor, Serving
<1>22. CASE AcceptFails
  BY <1>0, <1>22 DEF AcceptFails, FatalTo, PlaceInv, LateInv,
              MonitorInv, NoLeakedMonitor, Serving
<1>23. CASE WriteBroken
  BY <1>0, <1>23 DEF WriteBroken, Goto, PlaceInv, LateInv,
              MonitorInv, NoLeakedMonitor, Serving
<1>24. CASE InitAbandoned
  BY <1>0, <1>24 DEF InitAbandoned, Abandoned, PlaceInv, LateInv,
              MonitorInv, NoLeakedMonitor, Serving
<1>25. CASE FatalHealth
  BY <1>0, <1>25 DEF FatalHealth, Goto, Emit, PlaceInv, LateInv,
              MonitorInv, NoLeakedMonitor, Serving
<1>26. CASE Teardown
  BY <1>0, <1>26 DEF Teardown, PlaceInv, LateInv,
              MonitorInv, NoLeakedMonitor, Serving
<1>27. CASE CloseSession
  BY <1>0, <1>27 DEF CloseSession, PlaceInv, LateInv,
              MonitorInv, NoLeakedMonitor, Serving
<1>28. CASE JoinControl
  BY <1>0, <1>28 DEF JoinControl, Goto, PlaceInv, LateInv,
              MonitorInv, NoLeakedMonitor, Serving
<1>29. CASE HostExits
  BY <1>0, <1>29 DEF HostExits, ExitProcess, PlaceInv, LateInv,
              MonitorInv, NoLeakedMonitor, Serving
<1>30. CASE WatchdogFires
  BY <1>0, <1>30 DEF WatchdogFires, ExitProcess, PlaceInv, LateInv,
              MonitorInv, NoLeakedMonitor, Serving
<1>31. CASE HostStopTimesOut
  BY <1>0, <1>31 DEF HostStopTimesOut, ExitProcess, PlaceInv, LateInv,
              MonitorInv, NoLeakedMonitor, Serving
<1>32. CASE DiskTask
  BY <1>1, <1>32 DEF DiskTask
<1>33. CASE ReadControl
  BY <1>1, <1>33 DEF ReadControl, EndSession
<1>34. CASE ControlEof
  BY <1>1, <1>34 DEF ControlEof, EndSession
<1>35. CASE ControlDisposed
  BY <1>1, <1>35 DEF ControlDisposed, EndSession
<1>36. CASE HostStops
  BY <1>1, <1>36 DEF HostStops
<1>37. CASE ClientConnects
  BY <1>1, <1>37 DEF ClientConnects
<1>38. CASE ReaderParks
  BY <1>1, <1>38 DEF ReaderParks
<1>39. CASE ReaderTakesLine
  BY <1>1, <1>39 DEF ReaderTakesLine
<1>40. CASE ReaderEof
  BY <1>1, <1>40 DEF ReaderEof
<1>41. CASE WriterSends
  BY <1>1, <1>41 DEF WriterSends
<1>42. CASE Shutdown
  BY <1>1, <1>42 DEF Shutdown
<1>43. CASE ClientExits
  BY <1>1, <1>43 DEF ClientExits
<1>44. CASE Terminated
  BY <1>1, <1>44 DEF Terminated
<1>45. ASSUME NEW ms \in Intervals, SetInterval(ms) PROVE PlaceInv'
  BY <1>1, <1>45 DEF SetInterval
<1>46. CASE UNCHANGED vars
  BY <1>1, <1>46
<1> HIDE DEF workerVars, endVars, feedVars, threadVars, setVars, faultVars, serverSide, vars
<1>q. QED
  BY <1>4, <1>5, <1>6, <1>7, <1>8, <1>9, <1>10, <1>11, <1>12, <1>13, <1>13a, <1>14,
     <1>15, <1>16, <1>17, <1>18, <1>19, <1>20, <1>21, <1>22, <1>23, <1>24,
     <1>25, <1>26, <1>27, <1>28, <1>29, <1>30, <1>31, <1>32, <1>33, <1>34,
     <1>35, <1>36, <1>37, <1>38, <1>39, <1>40, <1>41, <1>42, <1>43, <1>44,
     <1>45, <1>46
  DEF Next, WorkerStep, HardwareStep, ControlStep, ReaderStep

LEMMA PlaceInit == Init => PlaceInv
BY DEF Init, PlaceInv, MonitorInv, LateInv, NoLeakedMonitor, Serving

\* ServeOne looks at the token after every long call and before every line but
\* the one it is about to write: after the cancellation at most one goes out.
THEOREM AtMostOneLateLineCorrect == Spec => []AtMostOneLateLine
<1>1. PlaceInv => AtMostOneLateLine
  BY DEF PlaceInv, LateInv, AtMostOneLateLine
<1>2. QED
  BY <1>1, PlaceInit, PlaceStep, PTL DEF Spec

\* ExecuteAsync and AbandonMonitorInit: when the worker returns, its monitor is
\* disposed, or left to the continuation of a construction still under way.
THEOREM NoLeakedMonitorCorrect == Spec => []NoLeakedMonitor
<1>1. PlaceInv => NoLeakedMonitor
  BY DEF PlaceInv, MonitorInv
<1>2. QED
  BY <1>1, PlaceInit, PlaceStep, PTL DEF Spec

-----------------------------------------------------------------------------
(* The failed start: FatalInit, and what a client has seen by then.        *)

Starting == {"create", "accept", "hello", "init", "probe", "fatalHealth"}
Ending   == {"fatalHealth", "teardown", "closing", "joining", "stopped", "exited"}

\* No snapshot with readings has been written, and none is shown.
NoReading ==
  /\ latest \in {Nothing, HealthOnly}
  /\ \A i \in DOMAIN down : ~IsReading(down[i])

\* A start that fails has written no reading, and leads to the end.
StartInv ==
  /\ fatal => worker \in Ending
  /\ fatal \/ worker \in Starting => NoReading

\* A line without readings may be written at any time.
LEMMA WriteNoReading ==
  ASSUME NoReading, down \in Seq(Line), NEW line, ~IsReading(line),
         down' = Append(down, line), latest' = latest
  PROVE  NoReading'
<1>1. /\ \A i \in DOMAIN down : down'[i] = down[i]
      /\ \A i \in DOMAIN down' : i \in DOMAIN down \/ down'[i] = line
  OBVIOUS
<1> QED
  BY <1>1 DEF NoReading

LEMMA StartStep == IndData /\ StartInv /\ [Next]_vars => StartInv'
<1> SUFFICES ASSUME IndData, StartInv, [Next]_vars PROVE StartInv'
  OBVIOUS
<1> USE DEF workerVars, endVars, feedVars, threadVars, setVars, faultVars, serverSide, vars
<1>0. down \in Seq(Line)
  BY DEF IndData, DataOK
\* A step that leaves the worker and the lines alone.
<1>1. ASSUME UNCHANGED <<worker, fatal, down, latest>> PROVE StartInv'
  BY <1>1 DEF StartInv, NoReading
\* A step of the worker that writes nothing and turns no start fatal.
<1>2. ASSUME UNCHANGED <<fatal, down, latest>>,
             worker' \in Starting => worker \in Starting,
             fatal => worker' \in Ending
      PROVE  StartInv'
  BY <1>2 DEF StartInv, NoReading
\* A start that fails.
<1>3. ASSUME worker \in Starting, worker' \in Ending, UNCHANGED <<down, latest>>
      PROVE  StartInv'
  BY <1>3 DEF StartInv, NoReading
\* A line of the start.
<1>s. ASSUME worker \in Starting, UNCHANGED <<fatal, latest>>, fatal => worker' \in Ending,
             NEW line, ~IsReading(line), down' = Append(down, line)
      PROVE  StartInv'
  BY <1>0, <1>s, WriteNoReading DEF StartInv
<1>4. CASE CreatePipe
  BY <1>2, <1>4 DEF CreatePipe, StartInv, Starting, Ending
<1>5. CASE AcceptClient
  BY <1>2, <1>5 DEF AcceptClient, StartInv, Starting, Ending
<1>6. CASE InitSucceeds
  BY <1>2, <1>6 DEF InitSucceeds, StartInv, Starting, Ending
<1>7. CASE ProbeReturns
  BY <1>2, <1>7 DEF ProbeReturns, Goto, StartInv, Starting, Ending
<1>8. CASE BeginPass
  BY <1>2, <1>8 DEF BeginPass, Goto, StartInv, Starting, Ending
<1>9. CASE RefreshReturns
  BY <1>2, <1>9 DEF RefreshReturns, Goto, StartInv, Starting, Ending
<1>10. CASE PassThrows
  BY <1>2, <1>10 DEF PassThrows, InPass, StartInv, Starting, Ending
<1>10a. CASE PassBreaks
  BY <1>2, <1>10a DEF PassBreaks, InPass, StartInv, Starting, Ending
<1>11. CASE SnapshotSent
  BY <1>2, <1>11 DEF SnapshotSent, Goto, AfterSnapshot, StartInv, Starting, Ending
<1>12. CASE EnableNextCategory
  BY <1>2, <1>12 DEF EnableNextCategory, StartInv, Starting, Ending
<1>13. CASE PauseEnds
  BY <1>2, <1>13 DEF PauseEnds, Goto, StartInv, Starting, Ending
<1>14. CASE AcceptEnds
  BY <1>2, <1>14 DEF AcceptEnds, Goto, StartInv, Starting, Ending
<1>15. CASE WriteBroken
  BY <1>2, <1>15 DEF WriteBroken, Goto, StartInv, Starting, Ending
<1>16. CASE InitAbandoned
  BY <1>2, <1>16 DEF InitAbandoned, StartInv, Starting, Ending
<1>17. CASE Teardown
  BY <1>2, <1>17 DEF Teardown, StartInv, Starting, Ending
<1>18. CASE CloseSession
  BY <1>2, <1>18 DEF CloseSession, StartInv, Starting, Ending
<1>19. CASE JoinControl
  BY <1>2, <1>19 DEF JoinControl, Goto, StartInv, Starting, Ending
<1>20. CASE HostExits
  BY <1>2, <1>20 DEF HostExits, ExitProcess, StartInv, Starting, Ending
<1>21. CASE WatchdogFires
  BY <1>2, <1>21 DEF WatchdogFires, ExitProcess, StartInv, Starting, Ending
<1>22. CASE HostStopTimesOut
  BY <1>2, <1>22 DEF HostStopTimesOut, ExitProcess, StartInv, Starting, Ending
<1>23. CASE CreateFails
  BY <1>3, <1>23 DEF CreateFails, FatalTo, Starting, Ending
<1>24. CASE AcceptFails
  BY <1>3, <1>24 DEF AcceptFails, FatalTo, Starting, Ending
<1>25. CASE InitFaults
  BY <1>3, <1>25 DEF InitFaults, InitThrows, ReadsAsDisconnect, FatalTo, Starting, Ending
<1>26. CASE ProbeThrows
  BY <1>3, <1>26 DEF ProbeThrows, InitThrows, ReadsAsDisconnect, FatalTo, Starting, Ending
<1>27. CASE Hello
  <2> DEFINE line == [kind |-> "progress", cat |-> Cpu]
  <2>1. ~IsReading(line) /\ down' = Append(down, line)
    BY <1>27 DEF Hello, Emit, IsReading
  <2>2. worker \in Starting /\ UNCHANGED <<fatal, latest>> /\ (fatal => worker' \in Ending)
    BY <1>27 DEF Hello, Emit, StartInv, Starting, Ending
  <2> HIDE DEF line
  <2> QED
    BY <1>s, <2>1, <2>2
<1>28. CASE EmitSnapshot
  BY <1>28 DEF EmitSnapshot, Emit, StartInv, Starting, Ending
<1>29. CASE Announce
  BY <1>29 DEF Announce, Emit, StartInv, Starting, Ending
<1>30. CASE FatalHealth
  <2>1. CASE Goto("teardown")
    BY <1>2, <1>30, <2>1 DEF FatalHealth, Goto, StartInv, Starting, Ending
  <2>2. CASE Emit([kind |-> "snap", cat |-> HealthOnly], "teardown")
             /\ UNCHANGED <<monitor, disk, enabled, interval, endVars, control,
                            serverOpen, up, client, threadVars, feedVars, setVars,
                            faultVars>>
    <3> DEFINE line == [kind |-> "snap", cat |-> HealthOnly]
    <3>1. ~IsReading(line) /\ down' = Append(down, line)
      BY <2>2 DEF Emit, IsReading
    <3>2. worker \in Starting /\ worker' \in Ending /\ UNCHANGED <<fatal, latest>>
      BY <1>30, <2>2 DEF FatalHealth, Emit, Starting, Ending
    <3> HIDE DEF line
    <3> QED
      BY <1>s, <3>1, <3>2
  <2> QED
    BY <1>30, <2>1, <2>2 DEF FatalHealth
<1>31. CASE ReaderTakesLine
  <2>1. /\ down # <<>> /\ down' = Tail(down) /\ Apply(Head(down))
        /\ UNCHANGED <<worker, fatal>>
    BY <1>31 DEF ReaderTakesLine
  <2>2. Head(down) = down[1] /\ Head(down) \in Line
    BY <1>0, <2>1, HeadTail
  <2>3. /\ 1 \in DOMAIN down
        /\ \A i \in DOMAIN down' : down'[i] = down[i + 1] /\ i + 1 \in DOMAIN down
    BY <1>0, <2>1
  <2>4. NoReading => NoReading'
    BY <2>1, <2>2, <2>3 DEF NoReading, IsReading, Apply, Line
  <2> QED
    BY <2>1, <2>4 DEF StartInv
<1>32. CASE MonitorTask
  BY <1>1, <1>32 DEF MonitorTask
<1>33. CASE DiskTask
  BY <1>1, <1>33 DEF DiskTask
<1>34. CASE ReadControl
  BY <1>1, <1>34 DEF ReadControl, EndSession
<1>35. CASE ControlEof
  BY <1>1, <1>35 DEF ControlEof, EndSession
<1>36. CASE ControlDisposed
  BY <1>1, <1>36 DEF ControlDisposed, EndSession
<1>37. CASE HostStops
  BY <1>1, <1>37 DEF HostStops
<1>38. CASE ClientConnects
  BY <1>1, <1>38 DEF ClientConnects
<1>39. CASE ReaderParks
  BY <1>1, <1>39 DEF ReaderParks
<1>40. CASE ReaderEof
  BY <1>1, <1>40 DEF ReaderEof
<1>41. CASE WriterSends
  BY <1>1, <1>41 DEF WriterSends
<1>42. CASE Shutdown
  BY <1>1, <1>42 DEF Shutdown
<1>43. CASE ClientExits
  BY <1>1, <1>43 DEF ClientExits
<1>44. CASE Terminated
  BY <1>1, <1>44 DEF Terminated
<1>45. ASSUME NEW ms \in Intervals, SetInterval(ms) PROVE StartInv'
  BY <1>1, <1>45 DEF SetInterval
<1>46. CASE UNCHANGED vars
  BY <1>1, <1>46
<1> HIDE DEF workerVars, endVars, feedVars, threadVars, setVars, faultVars, serverSide, vars
<1>q. QED
  BY <1>4, <1>5, <1>6, <1>7, <1>8, <1>9, <1>10, <1>10a, <1>11, <1>12, <1>13, <1>14,
     <1>15, <1>16, <1>17, <1>18, <1>19, <1>20, <1>21, <1>22, <1>23, <1>24,
     <1>25, <1>26, <1>27, <1>28, <1>29, <1>30, <1>31, <1>32, <1>33, <1>34,
     <1>35, <1>36, <1>37, <1>38, <1>39, <1>40, <1>41, <1>42, <1>43, <1>44,
     <1>45, <1>46
  DEF Next, WorkerStep, HardwareStep, ControlStep, ReaderStep

\* Program.cs exits with 1 after FatalInit: only a failed start does, for when it
\* is set no client has been sent a reading, and none is sent any more.
THEOREM FatalIsStartupOnlyCorrect == Spec => []FatalIsStartupOnly
<1>1. Init => StartInv
  BY DEF Init, StartInv, NoReading, Starting
<1>2. StartInv => FatalIsStartupOnly
  BY DEF StartInv, NoReading, FatalIsStartupOnly
<1>3. QED
  BY <1>1, <1>2, DataInit, DataStep, StartStep, PTL DEF Spec

-----------------------------------------------------------------------------
(* The death of a feed.                                                    *)

LEMMA DeathStep == PipeInv /\ FeedDeathIsReal /\ [Next]_vars => FeedDeathIsReal'
<1> SUFFICES ASSUME PipeInv, FeedDeathIsReal, [Next]_vars PROVE FeedDeathIsReal'
  OBVIOUS
<1> USE DEF workerVars, endVars, feedVars, threadVars, setVars, faultVars, serverSide, vars
<1>0. worker = "create" => client = "absent"
  BY DEF PipeInv
\* A step that leaves the client's mark alone and opens no pipe.
<1>1. ASSUME UNCHANGED <<client, alive>>, serverOpen' => serverOpen
      PROVE  FeedDeathIsReal'
  BY <1>1 DEF FeedDeathIsReal
<1>4. CASE CreatePipe
  BY <1>0, <1>4 DEF CreatePipe, PipeInv, FeedDeathIsReal
<1>5. CASE ClientConnects
  BY <1>5 DEF ClientConnects, FeedDeathIsReal
<1>6. CASE ReaderEof
  BY <1>6 DEF ReaderEof, FeedEnded, FeedDeathIsReal
<1>7. CASE WriterSends
  BY <1>7 DEF WriterSends, FeedDeathIsReal
<1>8. CASE Shutdown
  BY <1>8 DEF Shutdown, FeedDeathIsReal
<1>9. CASE ClientExits
  BY <1>9 DEF ClientExits, FeedDeathIsReal
<1>10. CASE MonitorTask
  BY <1>1, <1>10 DEF MonitorTask
<1>11. CASE DiskTask
  BY <1>1, <1>11 DEF DiskTask
<1>12. CASE ReadControl
  BY <1>1, <1>12 DEF ReadControl, EndSession
<1>13. CASE ControlEof
  BY <1>1, <1>13 DEF ControlEof, EndSession
<1>14. CASE ControlDisposed
  BY <1>1, <1>14 DEF ControlDisposed, EndSession
<1>15. CASE HostStops
  BY <1>1, <1>15 DEF HostStops
<1>16. CASE ReaderParks
  BY <1>1, <1>16 DEF ReaderParks
<1>17. CASE Terminated
  BY <1>1, <1>17 DEF Terminated
<1>18. CASE ReaderTakesLine
  BY <1>1, <1>18 DEF ReaderTakesLine, Apply
<1>19. CASE AcceptClient
  BY <1>1, <1>19 DEF AcceptClient
<1>20. CASE InitSucceeds
  BY <1>1, <1>20 DEF InitSucceeds
<1>21. CASE ProbeReturns
  BY <1>1, <1>21 DEF ProbeReturns, Goto
<1>22. CASE BeginPass
  BY <1>1, <1>22 DEF BeginPass, Goto
<1>23. CASE RefreshReturns
  BY <1>1, <1>23 DEF RefreshReturns, Goto
<1>24. CASE PassThrows
  BY <1>1, <1>24 DEF PassThrows, InPass
<1>24a. CASE PassBreaks
  BY <1>1, <1>24a DEF PassBreaks, InPass
<1>25. CASE SnapshotSent
  BY <1>1, <1>25 DEF SnapshotSent, Goto, AfterSnapshot
<1>26. CASE EnableNextCategory
  BY <1>1, <1>26 DEF EnableNextCategory
<1>27. CASE PauseEnds
  BY <1>1, <1>27 DEF PauseEnds, Goto
<1>28. CASE AcceptEnds
  BY <1>1, <1>28 DEF AcceptEnds, Goto
<1>29. CASE WriteBroken
  BY <1>1, <1>29 DEF WriteBroken, Goto
<1>30. CASE InitAbandoned
  BY <1>1, <1>30 DEF InitAbandoned
<1>31. CASE Teardown
  BY <1>1, <1>31 DEF Teardown
<1>32. CASE CloseSession
  BY <1>1, <1>32 DEF CloseSession
<1>33. CASE JoinControl
  BY <1>1, <1>33 DEF JoinControl, Goto
<1>34. CASE HostExits
  BY <1>1, <1>34 DEF HostExits, ExitProcess
<1>35. CASE WatchdogFires
  BY <1>1, <1>35 DEF WatchdogFires, ExitProcess
<1>36. CASE HostStopTimesOut
  BY <1>1, <1>36 DEF HostStopTimesOut, ExitProcess
<1>37. CASE CreateFails
  BY <1>1, <1>37 DEF CreateFails, FatalTo
<1>38. CASE AcceptFails
  BY <1>1, <1>38 DEF AcceptFails, FatalTo
<1>39. CASE InitFaults
  BY <1>1, <1>39 DEF InitFaults, InitThrows, ReadsAsDisconnect, FatalTo
<1>40. CASE ProbeThrows
  BY <1>1, <1>40 DEF ProbeThrows, InitThrows, ReadsAsDisconnect, FatalTo
<1>41. CASE Hello
  BY <1>1, <1>41 DEF Hello, Emit
<1>42. CASE EmitSnapshot
  BY <1>1, <1>42 DEF EmitSnapshot, Emit
<1>43. CASE Announce
  BY <1>1, <1>43 DEF Announce, Emit
<1>44. CASE FatalHealth
  BY <1>1, <1>44 DEF FatalHealth, Goto, Emit
<1>45. ASSUME NEW ms \in Intervals, SetInterval(ms) PROVE FeedDeathIsReal'
  BY <1>1, <1>45 DEF SetInterval
<1>46. CASE UNCHANGED vars
  BY <1>1, <1>46
<1> HIDE DEF workerVars, endVars, feedVars, threadVars, setVars, faultVars, serverSide, vars
<1>q. QED
  BY <1>4, <1>5, <1>6, <1>7, <1>8, <1>9, <1>10, <1>11, <1>12, <1>13, <1>14,
     <1>15, <1>16, <1>17, <1>18, <1>19, <1>20, <1>21, <1>22, <1>23, <1>24, <1>24a,
     <1>25, <1>26, <1>27, <1>28, <1>29, <1>30, <1>31, <1>32, <1>33, <1>34,
     <1>35, <1>36, <1>37, <1>38, <1>39, <1>40, <1>41, <1>42, <1>43, <1>44,
     <1>45, <1>46
  DEF Next, WorkerStep, HardwareStep, ControlStep, ReaderStep

\* ipc/pipe.rs: while a client has not asked to leave, its reader and its writer
\* declare the feed dead only once the service has closed the pipe.
THEOREM FeedDeathIsRealCorrect == Spec => []FeedDeathIsReal
<1>1. Init => PipeInv /\ FeedDeathIsReal
  BY DEF Init, PipeInv, FeedDeathIsReal
<1>2. QED
  BY <1>1, ImplementsStep, DeathStep, PTL DEF Spec
=============================================================================
