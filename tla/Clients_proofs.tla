--------------------------- MODULE Clients_proofs ---------------------------
(***************************************************************************)
(* The two clients of the service.  Connect: a progress screen always has  *)
(* a machine behind it, the app holds one session at a time, and phase 1   *)
(* reports a busy pipe only for another client, for every choice of the    *)
(* waits and of the service's times that ServiceAssumption allows.  Cli:   *)
(* for every command line, every number of categories and samples, and     *)
(* every order of the service's lines, the user's keys, the clock and the  *)
(* main thread's looks, what it shows is settled and it ends clean.        *)
(***************************************************************************)
EXTENDS Connect, Cli, SequenceTheorems, TLAPS

-----------------------------------------------------------------------------
(* Connect.                                                                *)

\* What Append does to the channel: the new event is last, the others stay.
LEMMA Appended ==
  ASSUME NEW S, NEW c \in Seq(S), NEW e \in S
  PROVE  /\ Append(c, e) \in Seq(S) /\ Append(c, e) # <<>>
         /\ Len(Append(c, e)) = Len(c) + 1
         /\ Append(c, e)[Len(c) + 1] = e
         /\ \A i \in 1..Len(c) : Append(c, e)[i] = c[i]
  OBVIOUS

Event == Connecting \cup {"ready"}

-----------------------------------------------------------------------------

\* A step of the service or of another client, seen by the other variables.
LEMMA ServeType ==
  ASSUME TypeOK, NEW h \in {"nobody", "other"}, NEW step \in BOOLEAN, Serve(step, h),
         svc' \in SvcState
  PROVE  TypeOK'
<1>1. age' \in Nat /\ link' \in {"none", "alive", "dead"} /\ met' \in BOOLEAN
  BY DEF Serve, TypeOK
<1>2. holder' \in {"nobody", "me", "old", "other"}
  BY DEF Serve
<1>3. /\ UNCHANGED <<machine, tries, channel, faults>>
      /\ UNCHANGED <<rx, adopted, status, elevated, swallowed>>
  BY DEF Serve, app, requests
<1> QED BY <1>1, <1>2, <1>3 DEF TypeOK

\* TypeOK: every variable of Connect keeps its type, and no phase waits longer
\* than its tries.
THEOREM TypeCorrect == Spec => []TypeOK
<1>1. Init => TypeOK
  <2>1. 0 <= BusyTries /\ 0 \in 0..MaxFaults
    BY TriesAssumption, FaultsAssumption
  <2>2. <<"opening">> \in Seq(Event)
    BY DEF Event, Connecting
  <2>3. "opening" \in Connecting
    BY DEF Connecting
  <2>4. Init => svc \in SvcState /\ age \in Nat /\ tries \in Nat
    BY DEF Init
  <2> QED BY <2>1, <2>2, <2>3, <2>4 DEF Init, TypeOK, Event
<1>2. ASSUME TypeOK, [Next]_vars PROVE TypeOK'
  <2> USE <1>2
  <2>1. ASSUME NEW e \in Event, Send(e) PROVE channel' \in Seq(Event)
    BY <2>1 DEF TypeOK, Event, Send
  <2> DEFINE Svc == Listen \/ DropPipe \/ Exit \/ Launch \/ Attach \/ Detach
  <2>2. Svc => svc' \in SvcState
    BY DEF Listen, DropPipe, Exit, Launch, Attach, Detach, Move, SvcState
  <2>3. CASE ServiceMoves
    BY <2>2, <2>3, ServeType DEF ServiceMoves, Serve, Listen, DropPipe, Exit, Move
  <2>4. CASE OtherClient
    BY <2>2, <2>4, ServeType DEF OtherClient, Serve, Launch, Attach, Detach, Move
  <2>5. CASE OldHandlesClose
    BY <2>2, <2>5, ServeType DEF OldHandlesClose, Serve, Detach, Move
  <2>6. CASE OpenSucceeds
    <3>1. channel' \in Seq(Event)
      BY <2>1, <2>6 DEF OpenSucceeds, Event, Connecting
    <3> QED BY <2>2, <2>6, <3>1 DEF OpenSucceeds, TypeOK, app, requests, Event
  <2>7. CASE EmitReady
    <3>1. channel' \in Seq(Event)
      BY <2>1, <2>7 DEF EmitReady, SendLast, Event
    <3> QED BY <2>7, <3>1 DEF EmitReady, At, SendLast, TypeOK, service, app, requests, Event
  <2>8. CASE Return
    BY <2>8 DEF Return, At, Goto, TypeOK, service, app, requests
  <2>9. CASE OpenBusy
    <3>1. channel' \in Seq(Event)
      BY <2>1, <2>9 DEF OpenBusy, WaitOutBusy, SendLast, Event, Connecting, Failed, TypeOK
    <3>2. machine' \in {"wait", "return"} /\ tries' \in Nat
          /\ (machine' = "wait" => tries' <= BusyTries)
      BY <2>9, TriesAssumption DEF OpenBusy, WaitOutBusy, SendLast, TypeOK
    <3> QED BY <2>9, <3>1, <3>2 DEF OpenBusy, At, TypeOK, service, app, requests, Event
  <2>10. CASE NotFoundElevates
    <3>1. channel' \in Seq(Event)
      BY <2>1, <2>10 DEF NotFoundElevates, Elevate, Event, Connecting
    <3> QED BY <2>10, <3>1
            DEF NotFoundElevates, Elevate, TypeOK, service, app, requests, Event
  <2>11. CASE NotFoundPolls
    <3>1. channel' \in Seq(Event)
      BY <2>1, <2>11
      DEF NotFoundPolls, PollAgain, SendLast, Goto, Event, Connecting, Failed, TypeOK
    <3>2. /\ machine' \in {"sleep", "return"} /\ tries' = tries
          /\ machine' = "sleep" => tries < StartTries
      BY <2>11 DEF NotFoundPolls, PollAgain, SendLast, Goto
    <3> QED BY <2>11, <3>1, <3>2
            DEF NotFoundPolls, At, TypeOK, service, app, requests, Event
  <2>12. CASE OpenFails
    <3>1. channel' \in Seq(Event)
      BY <2>1, <2>12 DEF OpenFails, Elevate, SendLast, Event, Connecting, Failed
    <3>2. faults' \in 0..MaxFaults
      BY <2>12, FaultsAssumption DEF OpenFails, TypeOK
    <3> QED BY <2>12, <3>1, <3>2
            DEF OpenFails, Elevate, SendLast, TypeOK, service, app, requests, Event
  <2>13. CASE PromptDeclined
    <3>1. channel' \in Seq(Event)
      BY <2>1, <2>13 DEF PromptDeclined, Decline, SendLast, Event, Connecting, Failed
    <3> QED BY <2>13, <3>1
            DEF PromptDeclined, Decline, At, SendLast, TypeOK, service, app, requests, Event
  <2>14. CASE PromptAccepted
    <3>1. channel' \in Seq(Event)
      BY <2>1, <2>14 DEF PromptAccepted, Event, Connecting
    <3>2. svc' \in SvcState /\ age' \in Nat
      BY <2>2, <2>14 DEF PromptAccepted, TypeOK
    <3>3. 0 < StartTries
      BY ServiceAssumption, TriesAssumption
    <3> QED BY <2>14, <3>1, <3>2, <3>3 DEF PromptAccepted, TypeOK, app, Event
  <2>15. CASE Tick
    BY <2>15, TriesAssumption DEF Tick, TypeOK, app, requests
  <2>16. CASE Poll
    <3>1. channel # <<>> => channel[Len(channel)] \in Event
      BY DEF TypeOK, Event
    <3>2. channel' \in Seq(Event)
      BY <2>16 DEF Poll
    <3>3. status' \in Connecting \cup {"running", "down"}
      BY <2>16, <3>1 DEF Poll, TypeOK, Event
    <3>4. rx' \in BOOLEAN /\ adopted' \in BOOLEAN
      BY <2>16 DEF Poll
    <3> QED BY <2>16, <3>2, <3>3, <3>4 DEF Poll, TypeOK, service, requests, Event
  <2>17. CASE Ingest
    BY <2>17 DEF Ingest, StatusOfFeed, TypeOK, service, requests
  <2>18. CASE SilenceWatch
    BY <2>18 DEF SilenceWatch, TypeOK, service, requests
  <2>19. CASE RestartConnect
    <3>1. channel' \in Seq(Event)
      BY <2>19 DEF RestartConnect, Event, Connecting
    <3>2. status' \in Connecting /\ holder' \in {"nobody", "me", "old", "other"}
      BY <2>19 DEF RestartConnect, TypeOK, Connecting
    <3>3. 0 <= BusyTries
      BY TriesAssumption
    <3> QED BY <2>19, <3>1, <3>2, <3>3 DEF RestartConnect, TypeOK, Event
  <2>20. CASE UNCHANGED vars
    BY <2>20 DEF vars, TypeOK
  <2> QED BY <2>3, <2>4, <2>5, <2>6, <2>7, <2>8, <2>9, <2>10, <2>11, <2>12, <2>13,
             <2>14, <2>15, <2>16, <2>17, <2>18, <2>19, <2>20 DEF Next, MachineStep
<1> QED BY <1>1, <1>2, PTL DEF Spec

-----------------------------------------------------------------------------

\* Steps that leave the machine, its channel and the screen alone.
Screen == <<machine, channel, rx, adopted, status>>

LEMMA ServeScreen ==
  ASSUME NEW h, NEW step \in BOOLEAN, Serve(step, h)
  PROVE  UNCHANGED Screen
  BY DEF Serve, app, Screen

\* An event sent is the channel's last.
LEMMA SentLast ==
  ASSUME TypeOK, NEW e \in Event, Send(e)
  PROVE  channel' # <<>> /\ LastEvent' = e
<1>1. channel' = Append(channel, e) /\ channel \in Seq(Event)
  BY DEF Send, TypeOK, Event
<1>2. Len(channel') = Len(channel) + 1
  BY <1>1, Appended
<1> QED BY <1>1, <1>2, Appended DEF LastEvent

LEMMA ScreenStep == TypeOK /\ ScreenInv /\ [Next]_vars => ScreenInv'
<1> SUFFICES ASSUME TypeOK, ScreenInv, [Next]_vars PROVE ScreenInv'
  OBVIOUS
<1>1. ASSUME UNCHANGED Screen PROVE ScreenInv'
  BY <1>1 DEF ScreenInv, OneSession, LastEvent, Screen
<1>2. ASSUME NEW e \in Event, Send(e), UNCHANGED <<rx, adopted, status>>,
             machine \notin {"return", "ended"},
             IF e \in Final THEN machine' = "return" ELSE machine' \notin {"return", "ended"}
      PROVE  ScreenInv'
  <2>1. channel' # <<>> /\ LastEvent' = e
    BY <1>2, SentLast
  <2> QED BY <1>2, <2>1 DEF ScreenInv, OneSession, Final, Failed
<1>3. ASSUME UNCHANGED <<channel, rx, adopted, status>>,
             machine \notin {"return", "ended"}, machine' \notin {"return", "ended"}
      PROVE  ScreenInv'
  BY <1>3 DEF ScreenInv, OneSession, LastEvent
<1>4. /\ {"opening", "elevating", "starting", "loading", "ready"} \subseteq Event
      /\ Failed \subseteq Event
      /\ {"opening", "elevating", "starting", "loading"} \cap Final = {}
      /\ Failed \subseteq Final /\ "ready" \in Final
  BY DEF Event, Connecting, Failed, Final
<1>5. CASE ServiceMoves
  BY <1>1, <1>5, ServeScreen DEF ServiceMoves, Listen, DropPipe, Exit, Move
<1>6. CASE OtherClient
  BY <1>1, <1>6, ServeScreen DEF OtherClient, Launch, Attach, Detach, Move
<1>7. CASE OldHandlesClose
  BY <1>1, <1>7, ServeScreen DEF OldHandlesClose, Detach, Move
<1>8. CASE OpenSucceeds
  BY <1>2, <1>4, <1>8 DEF OpenSucceeds, app
<1>9. CASE EmitReady
  BY <1>2, <1>4, <1>9 DEF EmitReady, At, SendLast, app
<1>10. CASE Return
  BY <1>10 DEF Return, At, Goto, app, ScreenInv, OneSession, LastEvent
<1>11. CASE OpenBusy
  <2>1. CASE SendLast("busy")
    BY <1>2, <1>4, <1>11, <2>1 DEF OpenBusy, At, SendLast, app, Failed
  <2>2. CASE machine' = "wait" /\ UNCHANGED channel
    BY <1>3, <1>11, <2>2 DEF OpenBusy, At, app
  <2> QED BY <1>11, <2>1, <2>2 DEF OpenBusy, WaitOutBusy
<1>12. CASE NotFoundElevates
  BY <1>2, <1>4, <1>12 DEF NotFoundElevates, Elevate, app
<1>13. CASE NotFoundPolls
  <2>1. CASE SendLast("timeout")
    BY <1>2, <1>4, <1>13, <2>1 DEF NotFoundPolls, At, SendLast, app, Failed
  <2>2. CASE Goto("sleep")
    BY <1>3, <1>13, <2>2 DEF NotFoundPolls, At, Goto, app
  <2> QED BY <1>13, <2>1, <2>2 DEF NotFoundPolls, PollAgain
<1>14. CASE OpenFails
  <2>1. CASE SendLast("refused")
    BY <1>2, <1>4, <1>14, <2>1 DEF OpenFails, Elevate, SendLast, app, Failed
  <2>2. CASE Elevate
    BY <1>2, <1>4, <1>14, <2>2 DEF OpenFails, Elevate, app
  <2> QED BY <1>14, <2>1, <2>2 DEF OpenFails
<1>15. CASE PromptDeclined
  BY <1>2, <1>4, <1>15 DEF PromptDeclined, Decline, At, SendLast, app, Failed
<1>16. CASE PromptAccepted
  BY <1>2, <1>4, <1>16 DEF PromptAccepted, app
<1>17. CASE Tick
  <2>1. CASE machine \in {"return", "ended"}
    BY <1>1, <1>17, <2>1 DEF Tick, app, Screen
  <2>2. CASE machine \notin {"return", "ended"}
    BY <1>3, <1>17, <2>2 DEF Tick, app
  <2> QED BY <2>1, <2>2
<1>18. CASE Poll
  BY <1>18 DEF Poll, ScreenInv, OneSession, LastEvent, Final, Connecting, Failed
<1>19. CASE Ingest
  BY <1>19 DEF Ingest, StatusOfFeed, ScreenInv, OneSession, LastEvent, Connecting
<1>20. CASE SilenceWatch
  BY <1>20 DEF SilenceWatch, ScreenInv, OneSession, LastEvent, Connecting, Failed
<1>21. CASE RestartConnect
  BY <1>21 DEF RestartConnect, ScreenInv, OneSession, LastEvent
<1>22. CASE UNCHANGED vars
  BY <1>1, <1>22 DEF vars, Screen
<1> QED BY <1>5, <1>6, <1>7, <1>8, <1>9, <1>10, <1>11, <1>12, <1>13, <1>14, <1>15,
           <1>16, <1>17, <1>18, <1>19, <1>20, <1>21, <1>22 DEF Next, MachineStep

LEMMA ScreenCorrect == Spec => []ScreenInv
<1>1. Init => ScreenInv
  BY DEF Init, ScreenInv, OneSession, LastEvent
<1> QED BY <1>1, ScreenStep, TypeCorrect, PTL DEF Spec

\* OneSession: while the app holds a session no machine runs that could open
\* another one, whose end would shut the service down.
THEOREM OneSessionCorrect == Spec => []OneSession
<1>1. ScreenInv => OneSession
  BY DEF ScreenInv
<1> QED BY <1>1, ScreenCorrect, PTL

\* LoadingHasMachine: a progress phase on screen is always followed by a machine
\* that can still move it on.
THEOREM LoadingHasMachineCorrect == Spec => []LoadingHasMachine
<1>1. ScreenInv => LoadingHasMachine
  BY DEF ScreenInv, LoadingHasMachine
<1> QED BY <1>1, ScreenCorrect, PTL

-----------------------------------------------------------------------------

\* What the service's side of the machine knows: everything BusyInv says but for
\* the event sent.
TimeInv == Waited /\ HolderOK /\ Elevated

LEMMA TimeStep == TypeOK /\ ScreenInv /\ TimeInv /\ [Next]_vars => TimeInv'
<1> SUFFICES ASSUME TypeOK, ScreenInv, TimeInv, [Next]_vars PROVE TimeInv'
  OBVIOUS
<1> USE ServiceAssumption, TriesAssumption DEF TimeInv
<1>1. CASE UNCHANGED <<svc, holder, age, met, elevated>> /\ UNCHANGED <<machine, tries>>
  BY <1>1 DEF Waited, HolderOK, Elevated, Elapsed
<1>2. CASE /\ UNCHANGED <<svc, holder, age, met>> /\ (elevated => elevated')
           /\ machine' \in {"prompt", "sleep"} => elevated'
           /\ machine' \in {"prompt", "sleep", "return", "ended"}
           /\ machine \in {"open", "prompt", "sleep", "poll"} \/ machine' \in {"return", "ended"}
  BY <1>2 DEF Waited, HolderOK, Elevated
<1>3. CASE ServiceMoves
  BY <1>3 DEF ServiceMoves, Serve, Listen, DropPipe, Exit, Move, app, requests,
              Waited, HolderOK, Elevated, Elapsed, TypeOK
<1>4. CASE OtherClient
  <2>1. UNCHANGED <<machine, tries, elevated>> /\ age' \in {age, 0}
    BY <1>4 DEF OtherClient, Serve, app, requests
  <2>2. CASE Serve(Launch, "nobody")
    BY <2>1, <2>2 DEF Serve, Launch, Move, Waited, HolderOK, Elevated
  <2>3. CASE Serve(Attach, "other")
    BY <2>1, <2>3 DEF Serve, Attach, Move, Waited, HolderOK, Elevated
  <2>4. CASE holder = "other" /\ Serve(Detach, "nobody")
    BY <2>1, <2>4 DEF Serve, Detach, Move, Waited, HolderOK, Elevated, TypeOK
  <2> QED BY <1>4, <2>2, <2>3, <2>4 DEF OtherClient
<1>5. CASE OldHandlesClose
  BY <1>5 DEF OldHandlesClose, Serve, Detach, Move, app, requests,
              Waited, HolderOK, Elevated, Elapsed, TypeOK
<1>6. CASE OpenSucceeds
  BY <1>6 DEF OpenSucceeds, Attach, Move, app, requests, Waited, HolderOK, Elevated
<1>7. CASE EmitReady
  BY <1>2, <1>7 DEF EmitReady, At, SendLast, service, app, requests
<1>8. CASE Return
  BY <1>2, <1>8 DEF Return, At, Goto, service, app, requests
<1>9. CASE OpenBusy
  <2>1. CASE SendLast("busy")
    BY <1>2, <1>9, <2>1 DEF OpenBusy, At, SendLast, service, app, requests
  <2>2. CASE machine = "open" /\ machine' = "wait" /\ tries' = tries + 1
    BY <1>9, <2>2 DEF OpenBusy, At, service, app, requests, Waited, HolderOK,
                      Elevated, Elapsed, TypeOK
  <2> QED BY <1>9, <2>1, <2>2 DEF OpenBusy, WaitOutBusy
<1>10. CASE NotFoundElevates
  BY <1>2, <1>10 DEF NotFoundElevates, Elevate, service, app
<1>11. CASE NotFoundPolls
  BY <1>2, <1>11 DEF NotFoundPolls, PollAgain, At, Goto, SendLast, service, app, requests,
                     Elevated
<1>12. CASE OpenFails
  BY <1>2, <1>12 DEF OpenFails, Elevate, SendLast, service, app, requests
<1>13. CASE PromptDeclined
  BY <1>2, <1>13 DEF PromptDeclined, Decline, At, SendLast, service, app, requests
<1>14. CASE PromptAccepted
  BY <1>14 DEF PromptAccepted, Launch, Move, app, Waited, HolderOK, Elevated, TypeOK
<1>15. CASE Tick
  <2>1. UNCHANGED <<svc, holder, met, elevated>>
    BY <1>15 DEF Tick, app, requests
  <2>2. /\ age' = IF svc \in {"starting", "closing", "unpiped"} \/ holder = "old"
                  THEN age + 1 ELSE 0
        /\ svc \in {"closing", "unpiped"} => age < Grace
        /\ holder = "old" => age < Linger
    BY <1>15 DEF Tick
  <2>3. HolderOK'
    BY <1>15, <2>1, <2>2 DEF Tick, HolderOK, TypeOK
  <2>4. Waited'
    <3>1. machine' \in {"open", "wait"} => machine = "wait" /\ machine' = "open"
                                          /\ tries' = tries
      BY <1>15 DEF Tick, TypeOK
    <3> QED BY <2>1, <2>2, <2>3, <3>1 DEF Waited, Elapsed, HolderOK, TypeOK
  <2>5. Elevated'
    BY <1>15, <2>1 DEF Tick, Elevated
  <2> QED BY <2>3, <2>4, <2>5
<1>16. CASE Poll
  BY <1>1, <1>16 DEF Poll, service, requests
<1>17. CASE Ingest
  BY <1>1, <1>17 DEF Ingest, service, requests
<1>18. CASE SilenceWatch
  BY <1>1, <1>18 DEF SilenceWatch, service, requests
<1>19. CASE RestartConnect
  <2>1. /\ UNCHANGED <<svc, age>> /\ machine' = "open" /\ tries' = 0
        /\ holder' = IF holder = "me" THEN "old" ELSE holder
        /\ met' = (holder = "other")
    BY <1>19 DEF RestartConnect
  <2>2. HolderOK' /\ Elevated'
    BY <2>1 DEF HolderOK, Elevated
  <2>3. Linger \in Nat /\ Elapsed' = 0 /\ age \in Nat
    BY <2>1 DEF Elapsed, TypeOK
  <2>4. svc = "held" /\ ~met' => holder' = "old" /\ age <= Linger
    BY <2>1 DEF HolderOK, TypeOK
  <2>5. Waited'
    BY <2>1, <2>3, <2>4 DEF Waited, HolderOK
  <2> QED BY <2>2, <2>5
<1>20. CASE UNCHANGED vars
  BY <1>1, <1>20 DEF vars
<1> QED BY <1>3, <1>4, <1>5, <1>6, <1>7, <1>8, <1>9, <1>10, <1>11, <1>12, <1>13,
           <1>14, <1>15, <1>16, <1>17, <1>18, <1>19, <1>20 DEF Next, MachineStep

\* A busy failure is sent only when another client had the pipe in phase 1, or
\* after a prompt; nothing that happens later to a machine that has sent its last
\* event takes that back.
LEMMA BusySentStep ==
  TypeOK /\ TimeInv /\ BusySent /\ [Next]_vars => BusySent'
<1> SUFFICES ASSUME TypeOK, TimeInv, BusySent, [Next]_vars PROVE BusySent'
  OBVIOUS
<1> USE ServiceAssumption, TriesAssumption DEF TimeInv
<1>1. CASE UNCHANGED <<channel, status>> /\ (elevated => elevated') /\ (met => met' \/ elevated')
  BY <1>1 DEF BusySent
<1>2. ASSUME NEW e \in Event, Send(e), UNCHANGED status, elevated => elevated',
             met => met' \/ elevated', e = "busy" => elevated' \/ met'
      PROVE  BusySent'
  <2>1. channel \in Seq(Event) /\ channel' = Append(channel, e)
    BY <1>2 DEF Send, TypeOK, Event
  <2>2. \A i \in DOMAIN channel' : channel'[i] = e \/ (i \in DOMAIN channel /\ channel'[i] = channel[i])
    BY <2>1
  <2> QED BY <1>2, <2>2 DEF BusySent
<1>3. {"opening", "elevating", "starting", "loading", "ready"} \cup Failed = Event
  BY DEF Event, Connecting
<1>4. CASE ServiceMoves \/ OtherClient \/ OldHandlesClose
  <2>1. ASSUME NEW h, NEW step \in BOOLEAN, Serve(step, h) PROVE BusySent'
    BY <1>1, <2>1 DEF Serve, app, requests, TypeOK
  <2> QED BY <1>4, <2>1 DEF ServiceMoves, OtherClient, OldHandlesClose,
                            Launch, Listen, Attach, Detach, DropPipe, Exit, Move
<1>5. CASE OpenSucceeds
  BY <1>2, <1>3, <1>5 DEF OpenSucceeds, app, requests
<1>6. CASE EmitReady
  BY <1>2, <1>3, <1>6 DEF EmitReady, At, SendLast, app, requests
<1>7. CASE Return
  BY <1>1, <1>7 DEF Return, At, Goto, app, requests
<1>8. CASE OpenBusy
  <2>1. UNCHANGED <<status, met, elevated>>
    BY <1>8 DEF OpenBusy, At, app, requests
  <2>2. CASE machine = "open" /\ tries >= BusyTries /\ SendLast("busy")
    <3>1. Elapsed = tries /\ tries \in Nat
      BY <2>2 DEF Elapsed, TypeOK
    <3>2. Linger \in Nat /\ Grace \in Nat /\ BusyTries \in Nat /\ Linger + Grace < BusyTries
      OBVIOUS
    <3>3. Elapsed > Linger + Grace
      BY <2>2, <3>1, <3>2
    <3>4. ASSUME ~met PROVE FALSE
      <4>1. /\ svc = "held"    => Elapsed <= age /\ age <= Linger
            /\ svc = "closing" => Elapsed <= Linger + age /\ age <= Grace
        BY <2>2, <3>4 DEF Waited
      <4>2. age \in Nat /\ svc \in {"held", "closing"}
        BY <1>8 DEF OpenBusy, Busy, TypeOK
      <4> QED BY <3>1, <3>2, <3>3, <4>1, <4>2
    <3> QED BY <1>2, <1>3, <2>1, <2>2, <3>4 DEF SendLast, Failed, TypeOK
  <2>3. CASE machine = "poll" /\ SendLast("busy")
    BY <1>2, <1>3, <2>1, <2>3 DEF SendLast, Failed, Elevated
  <2>4. CASE UNCHANGED channel
    BY <1>1, <2>1, <2>4
  <2> QED BY <1>8, <2>2, <2>3, <2>4 DEF OpenBusy, At, WaitOutBusy
<1>9. CASE NotFoundElevates
  BY <1>2, <1>3, <1>9 DEF NotFoundElevates, Elevate, app
<1>10. CASE NotFoundPolls
  <2>1. CASE SendLast("timeout")
    BY <1>2, <1>3, <1>10, <2>1 DEF NotFoundPolls, At, SendLast, app, requests, Failed
  <2>2. CASE Goto("sleep")
    BY <1>1, <1>10, <2>2 DEF NotFoundPolls, At, Goto, app, requests
  <2> QED BY <1>10, <2>1, <2>2 DEF NotFoundPolls, PollAgain
<1>11. CASE OpenFails
  <2>1. CASE SendLast("refused")
    BY <1>2, <1>3, <1>11, <2>1 DEF OpenFails, Elevate, SendLast, app, requests, Failed
  <2>2. CASE Elevate
    BY <1>2, <1>3, <1>11, <2>2 DEF OpenFails, Elevate, app
  <2> QED BY <1>11, <2>1, <2>2 DEF OpenFails
<1>12. CASE PromptDeclined
  BY <1>2, <1>3, <1>12 DEF PromptDeclined, Decline, At, SendLast, app, requests, Failed
<1>13. CASE PromptAccepted
  BY <1>2, <1>3, <1>13 DEF PromptAccepted, app, Elevated
<1>14. CASE Tick
  BY <1>1, <1>14 DEF Tick, app, requests
<1>15. CASE Poll
  <2>1. channel # <<>> => Len(channel) \in DOMAIN channel
    BY DEF TypeOK
  <2>2. UNCHANGED <<met, elevated>> /\ channel' = <<>>
    BY <1>15 DEF Poll, requests
  <2>3. status' = "busy" => status = "busy" \/ (channel # <<>> /\ channel[Len(channel)] = "busy")
    BY <1>15 DEF Poll
  <2> QED BY <2>1, <2>2, <2>3 DEF BusySent
<1>16. CASE Ingest
  BY <1>16 DEF Ingest, StatusOfFeed, requests, BusySent
<1>17. CASE SilenceWatch
  BY <1>17 DEF SilenceWatch, requests, BusySent
<1>18. CASE RestartConnect
  BY <1>18 DEF RestartConnect, BusySent
<1>19. CASE UNCHANGED vars
  BY <1>1, <1>19 DEF vars
<1> QED BY <1>4, <1>5, <1>6, <1>7, <1>8, <1>9, <1>10, <1>11, <1>12, <1>13, <1>14,
           <1>15, <1>16, <1>17, <1>18, <1>19 DEF Next, MachineStep

\* BusyMeansClient: phase 1 waits longer than any teardown lasts, so the failure
\* it then reports is another client's doing.
THEOREM BusyMeansClientCorrect == Spec => []BusyMeansClient
<1>1. Init => TimeInv /\ BusySent
  BY ServiceAssumption DEF Init, TimeInv, Waited, HolderOK, Elevated, Elapsed,
                           BusySent, SvcState
<1>2. Spec => [](TimeInv /\ BusySent)
  BY <1>1, TimeStep, BusySentStep, TypeCorrect, ScreenCorrect, PTL DEF Spec
<1>3. BusySent => BusyMeansClient
  BY DEF BusySent, BusyMeansClient
<1> QED BY <1>2, <1>3, PTL

-----------------------------------------------------------------------------
(* Cli.                                                                    *)

StageNames == {"parse", "gate", "connect", "first", "second", "print", "again",
               "open", "dash", "ended"}
Samples == [n: Nat, partial: BOOLEAN]

\* TypeOK without the options: what `parse` makes of them is a fold.
TypeInv ==
  /\ stage \in StageNames
  /\ code \in {0, 2, 3, 4, 99, 130} /\ pipe \in {"none", "open", "shut"}
  /\ prompted \in BOOLEAN /\ stamped \in BOOLEAN /\ late \in BOOLEAN
  /\ stale \in BOOLEAN /\ raw \in BOOLEAN
  /\ env \in [tty: BOOLEAN, errTty: BOOLEAN, allowed: BOOLEAN]
  /\ statusLine \in [on: BOOLEAN, shown: BOOLEAN]
  /\ shared \in [alive: BOOLEAN, latest: Samples, loading: -1..Stages, sent: Nat,
                 firstWhole: Nat]
  /\ held \in Samples /\ put \in Seq(Samples) /\ Len(put) <= 2

\* The sample that can be seen is the last one sent, and once it is whole the first
\* whole one is known.
StreamInv ==
  /\ shared.latest.n = shared.sent
  /\ shared.sent = 0 => shared.latest = NoSample
  /\ shared.firstWhole <= shared.sent
  /\ ~shared.latest.partial => shared.firstWhole >= 1

\* What the loop holds while it runs is whole and not from the future; a single
\* report is printed from a sample after the first whole one.
HeldInv ==
  /\ held = NoSample <=> stage \in {"parse", "gate", "connect", "first", "ended"}
  /\ held # NoSample =>
       /\ ~held.partial /\ held.n <= shared.sent
       /\ shared.firstWhole >= 1 /\ shared.firstWhole <= held.n
  /\ stage \in {"open", "dash"} => OpensDashboard
  /\ stage = "second" => ~OpensDashboard /\ ~opts.watch
  /\ stage = "again" => opts.watch
  /\ stage = "print" => opts.watch \/ (~OpensDashboard /\ held.n > shared.firstWhole)

\* What was printed or drawn was held, and a report that is due is due for a later
\* sample.
PutInv ==
  /\ \A i \in 1..Len(put) :
       /\ ~put[i].partial
       /\ shared.firstWhole >= 1 /\ put[i].n >= shared.firstWhole
  /\ Len(put) = 2 => put[1].n < put[2].n
  /\ put # <<>> => stage \in {"print", "again", "dash", "ended"}
  /\ put # <<>> /\ held # NoSample =>
       /\ put[Len(put)].n <= held.n
       /\ stage = "print" => put[Len(put)].n < held.n
  /\ put # <<>> /\ ~opts.watch /\ ~OpensDashboard =>
       stage = "ended" /\ put[1].n > shared.firstWhole

\* What is still to be cleaned up, and has not happened yet, at each stage.
EndInv ==
  /\ stage # "ended" => code = 99
  /\ raw => stage = "dash"
  /\ stage \in {"parse", "gate"} => ~prompted
  /\ stage \in {"parse", "gate", "connect"} => pipe = "none"
  /\ stage \in {"parse", "gate", "print", "open", "dash"} => ~statusLine.shown
  /\ stage = "dash" /\ ~stale => put # <<>>
  /\ EndsClean

-----------------------------------------------------------------------------
(* Samples and the record of what was printed.                             *)

LEMMA NoSampleType == NoSample \in Samples /\ NoSample.n = 0 /\ NoSample.partial = TRUE
  BY DEF NoSample, Samples

\* A sample that counts as new has another number, by milliseconds or by seconds.
LEMMA NewDiffers ==
  ASSUME NEW last \in Samples, NEW s \in Samples, last # NoSample, IsNew(last, s)
  PROVE  s.n # last.n
PROOF
<1>1. CASE stamped
  BY <1>1 DEF IsNew
<1>2. CASE ~stamped
  <2>1. (s.n \div PerSecond) # (last.n \div PerSecond)
    BY <1>2 DEF IsNew
  <2> QED
    BY <2>1
<1> QED
  BY <1>1, <1>2

\* A look that finds something new finds a later, whole sample.
LEMMA FreshIsLater ==
  ASSUME TypeInv, StreamInv, HeldInv, Fresh
  PROVE  /\ shared.latest \in Samples /\ shared.latest # NoSample
         /\ ~shared.latest.partial /\ shared.latest.n = shared.sent
         /\ shared.firstWhole >= 1 /\ shared.firstWhole <= shared.sent
         /\ held # NoSample => shared.latest.n > held.n
PROOF
<1>1. /\ shared.latest \in Samples /\ held \in Samples /\ shared.sent \in Nat
      /\ shared.firstWhole \in Nat
  BY DEF TypeInv
<1>2. /\ shared.latest # NoSample /\ ~shared.latest.partial
      /\ shared.latest.n = shared.sent
      /\ shared.firstWhole >= 1 /\ shared.firstWhole <= shared.sent
  BY DEF Fresh, Complete, StreamInv
<1>3. ASSUME held # NoSample PROVE shared.latest.n > held.n
  <2>1. shared.latest.n # held.n
    BY <1>1, <1>3, NewDiffers DEF Fresh
  <2>2. held.n <= shared.sent
    BY <1>3 DEF HeldInv
  <2> QED
    BY <1>1, <1>2, <2>1, <2>2 DEF Samples
<1> QED
  BY <1>1, <1>2, <1>3

\* Printing appends what is held and forgets all but the one before it.
LEMMA PrintedAppends ==
  ASSUME put \in Seq(Samples), Len(put) <= 2, held \in Samples, Printed
  PROVE  /\ put' \in Seq(Samples) /\ put' # <<>> /\ Len(put') <= 2
         /\ put = <<>> => Len(put') = 1 /\ put'[1] = held
         /\ put # <<>> => Len(put') = 2 /\ put'[1] = put[Len(put)] /\ put'[2] = held
PROOF
<1>1. Len(put) \in Nat /\ (put = <<>> <=> Len(put) = 0)
  BY EmptySeq
<1>2. CASE Len(put) = 0
  <2>1. put' = Append(put, held) /\ put = <<>>
    BY <1>1, <1>2 DEF Printed
  <2>2. put' \in Seq(Samples) /\ Len(put') = 1 /\ put'[1] = held /\ put' # <<>>
    BY <1>2, <2>1, AppendProperties
  <2> QED
    BY <2>1, <2>2
<1>3. CASE Len(put) = 1
  <2>1. put' = Append(put, held) /\ put # <<>>
    BY <1>1, <1>3 DEF Printed
  <2>2. /\ Append(put, held) \in Seq(Samples) /\ Append(put, held) # <<>>
        /\ Len(Append(put, held)) = Len(put) + 1
        /\ Append(put, held)[Len(put) + 1] = held
        /\ \A i \in 1..Len(put) : Append(put, held)[i] = put[i]
    BY AppendProperties
  <2>3. put' \in Seq(Samples) /\ Len(put') = 2 /\ put'[1] = put[1] /\ put'[2] = held
        /\ put' # <<>>
    BY <1>3, <2>1, <2>2
  <2> QED
    BY <1>3, <2>1, <2>3
<1>4. CASE Len(put) = 2
  <2>1. put' = <<put[2], held>> /\ put[2] \in Samples
    BY <1>4 DEF Printed
  <2>2. put # <<>>
    BY <1>1, <1>4
  <2>3. put' \in Seq(Samples) /\ Len(put') = 2 /\ put'[1] = put[2] /\ put'[2] = held
        /\ put' # <<>>
    BY <2>1
  <2> QED
    BY <1>4, <2>2, <2>3
<1>5. \A n \in Nat : n <= 2 => n \in {0, 1, 2}
  OBVIOUS
<1> QED
  BY <1>1, <1>2, <1>3, <1>4, <1>5

-----------------------------------------------------------------------------
(* Types.                                                                  *)

LEMMA EndsType ==
  ASSUME TypeInv, NEW c \in {0, 2, 3, 4}, Ends(c)
  PROVE  /\ stage' \in StageNames /\ code' \in {0, 2, 3, 4, 99, 130}
         /\ pipe' \in {"none", "open", "shut"} /\ statusLine' \in [on: BOOLEAN, shown: BOOLEAN]
         /\ held' \in Samples
  BY NoSampleType DEF TypeInv, Ends, Done, StageNames

LEMMA ShowType ==
  ASSUME TypeInv, Show PROVE statusLine' \in [on: BOOLEAN, shown: BOOLEAN]
  BY DEF TypeInv, Show

\* What the reader thread's lines and the clock do.
LEMMA LinesMove ==
  ASSUME TypeInv, ProgressLine \/ SampleLine \/ ServiceDies \/ NinetySecondsPass
  PROVE  /\ UNCHANGED <<args, opts, env, stage, code, pipe, prompted, held, stale, raw, statusLine,
                        put, stamped>>
         /\ late' \in BOOLEAN
         /\ \/ SampleLine
            \/ /\ shared'.latest = shared.latest /\ shared'.sent = shared.sent
               /\ shared'.firstWhole = shared.firstWhole
         /\ shared' \in [alive: BOOLEAN, latest: Samples, loading: -1..Stages, sent: Nat,
                         firstWhole: Nat]
PROOF
<1>0. /\ shared \in [alive: BOOLEAN, latest: Samples, loading: -1..Stages, sent: Nat,
                     firstWhole: Nat]
      /\ late \in BOOLEAN /\ Stages \in Nat
  BY CliAssumption DEF TypeInv
<1>1. CASE ProgressLine
  BY <1>0, <1>1 DEF ProgressLine, main
<1>2. CASE SampleLine
  <2> DEFINE s == [n |-> shared.sent + 1, partial |-> ~(shared.loading \in {-1, 0})]
             f == IF shared.loading \in {-1, 0} /\ shared.firstWhole = 0
                  THEN shared.sent + 1 ELSE shared.firstWhole
  <2>1. s \in Samples /\ f \in Nat
    BY <1>0 DEF Samples
  <2>2. shared' = [shared EXCEPT !.sent = @ + 1, !.latest = s, !.firstWhole = f]
    BY <1>0, <1>2 DEF SampleLine
  <2> HIDE DEF s, f
  <2>3. shared' \in [alive: BOOLEAN, latest: Samples, loading: -1..Stages, sent: Nat,
                    firstWhole: Nat]
    <3>1. shared.sent + 1 \in Nat
      BY <1>0
    <3> QED
      BY <1>0, <2>1, <2>2, <3>1
  <2>4. UNCHANGED <<main, stamped>>
    BY <1>2 DEF SampleLine
  <2> QED
    BY <1>0, <1>2, <2>3, <2>4 DEF main
<1>3. CASE ServiceDies
  BY <1>0, <1>3 DEF ServiceDies, main
<1>4. CASE NinetySecondsPass
  BY <1>0, <1>4 DEF NinetySecondsPass
<1> QED
  BY <1>1, <1>2, <1>3, <1>4

LEMMA TypeStep == TypeInv /\ [CliNext]_cliVars => TypeInv'
PROOF
<1> SUFFICES ASSUME TypeInv, [CliNext]_cliVars PROVE TypeInv'
  OBVIOUS
<1>0. held \in Samples /\ put \in Seq(Samples) /\ Len(put) <= 2 /\ shared.latest \in Samples
  BY DEF TypeInv
<1>1. CASE ParseArgs
  <2>1. \/ stage' = "gate" /\ UNCHANGED <<code, pipe, statusLine, held>>
        \/ Ends(0) \/ Ends(2)
    BY <1>1 DEF ParseArgs
  <2>2. UNCHANGED <<env, prompted, shared, stamped, late, stale, raw, put>>
    BY <1>1 DEF ParseArgs
  <2> QED
    BY <2>1, <2>2, EndsType DEF TypeInv, StageNames
<1>2. CASE Gate
  <2>1. \/ stage' = "connect" /\ UNCHANGED <<code, pipe, statusLine, held>>
        \/ Ends(3)
    BY <1>2 DEF Gate
  <2>2. UNCHANGED <<env, prompted, shared, stamped, late, stale, raw, put>>
    BY <1>2 DEF Gate
  <2> QED
    BY <2>1, <2>2, EndsType DEF TypeInv, StageNames
<1>3. CASE ConnectPhase
  <2>1. Show /\ prompted' \in {prompted, TRUE}
        /\ UNCHANGED <<env, stage, code, pipe, shared, stamped, late, held, stale, raw, put>>
    BY <1>3 DEF ConnectPhase
  <2>2. statusLine' \in [on: BOOLEAN, shown: BOOLEAN]
    BY <2>1, ShowType
  <2>3. prompted' \in BOOLEAN
    BY <2>1 DEF TypeInv
  <2> QED
    BY <2>1, <2>2, <2>3 DEF TypeInv
<1>4. CASE ConnectFails
  BY <1>4, EndsType DEF ConnectFails, TypeInv
<1>5. CASE ConnectReady
  BY <1>5 DEF ConnectReady, TypeInv, StageNames
<1>6. CASE Look
  <2>1. UNCHANGED <<env, prompted, shared, stamped, late, stale, raw, put>>
    BY <1>6 DEF Look
  <2>2. CASE Ends(4)
    BY <2>1, <2>2, EndsType DEF TypeInv
  <2>3. CASE /\ held' = shared.latest /\ stage' = Found
             /\ statusLine' = IF stage' = "second" THEN statusLine ELSE Done
             /\ UNCHANGED <<code, pipe>>
    <3>1. stage' \in StageNames
      BY <2>3 DEF Found, StageNames
    <3>2. statusLine' \in [on: BOOLEAN, shown: BOOLEAN]
      BY <2>3 DEF Done, TypeInv
    <3> QED
      BY <1>0, <2>1, <2>3, <3>1, <3>2 DEF TypeInv
  <2>4. CASE Show /\ UNCHANGED <<stage, code, pipe, held>>
    BY <2>1, <2>4, ShowType DEF TypeInv
  <2> QED
    BY <1>6, <2>2, <2>3, <2>4 DEF Look
<1>7. CASE PrintReport
  <2>1. put' \in Seq(Samples) /\ Len(put') <= 2
    <3>1. Printed
      BY <1>7 DEF PrintReport
    <3> QED
      BY <1>0, <3>1, PrintedAppends
  <2>2. UNCHANGED <<env, prompted, shared, stamped, late, stale, raw>>
    BY <1>7 DEF PrintReport
  <2>3. \/ stage' = "again" /\ UNCHANGED <<code, pipe, statusLine, held>>
        \/ Ends(0)
    BY <1>7 DEF PrintReport
  <2>4. CASE stage' = "again" /\ UNCHANGED <<code, pipe, statusLine, held>>
    BY <2>1, <2>2, <2>4 DEF TypeInv, StageNames
  <2>5. CASE Ends(0)
    BY <2>1, <2>2, <2>5, EndsType DEF TypeInv
  <2> QED
    BY <2>3, <2>4, <2>5
<1>8. CASE PrintFails
  BY <1>8, EndsType DEF PrintFails, TypeInv
<1>9. CASE OpenDashboard
  <2>1. \/ /\ stage' = "dash" /\ raw' = TRUE /\ stale' = TRUE
           /\ UNCHANGED <<code, pipe, statusLine, held>>
        \/ Ends(4) /\ UNCHANGED <<raw, stale>>
    BY <1>9 DEF OpenDashboard
  <2>2. UNCHANGED <<env, prompted, shared, stamped, late, put>>
    BY <1>9 DEF OpenDashboard
  <2>3. raw' \in BOOLEAN /\ stale' \in BOOLEAN
    BY <2>1 DEF TypeInv
  <2>4. CASE stage' = "dash" /\ UNCHANGED <<code, pipe, statusLine, held>>
    BY <2>2, <2>3, <2>4 DEF TypeInv, StageNames
  <2>5. CASE Ends(4)
    BY <2>2, <2>3, <2>5, EndsType DEF TypeInv
  <2> QED
    BY <2>1, <2>4, <2>5
<1>10. CASE Draw
  <2>1. put' \in Seq(Samples) /\ Len(put') <= 2
    <3>1. Printed \/ put' = put
      BY <1>10 DEF Draw, Drawn
    <3> QED
      BY <1>0, <3>1, PrintedAppends
  <2>2. UNCHANGED <<env, prompted, shared, stamped, late>>
    BY <1>10 DEF Draw
  <2>3. \/ stale' = FALSE /\ UNCHANGED <<stage, code, pipe, statusLine, held, raw>>
        \/ Ends(4) /\ raw' = FALSE /\ stale' = FALSE
    BY <1>10 DEF Draw, Leave
  <2>4. raw' \in BOOLEAN /\ stale' \in BOOLEAN
    BY <2>3 DEF TypeInv
  <2>5. CASE UNCHANGED <<stage, code, pipe, statusLine, held>>
    BY <2>1, <2>2, <2>4, <2>5 DEF TypeInv
  <2>6. CASE Ends(4)
    BY <2>1, <2>2, <2>4, <2>6, EndsType DEF TypeInv
  <2> QED
    BY <2>3, <2>5, <2>6
<1>11. ASSUME NEW e \in {"none", "quit", "resize", "error"}, DashStep(e) PROVE TypeInv'
  <2>1. UNCHANGED <<env, prompted, shared, stamped, late, put>>
    BY <1>11 DEF DashStep
  <2>2. \/ Leave(0) \/ Leave(4)
        \/ /\ stale' = (e = "resize" \/ Fresh)
           /\ held' \in {shared.latest, held}
           /\ UNCHANGED <<stage, code, pipe, statusLine, raw>>
    BY <1>11 DEF DashStep
  <2>3. CASE Leave(0) \/ Leave(4)
    <3>1. (Ends(0) \/ Ends(4)) /\ raw' = FALSE /\ stale' = FALSE
      BY <2>3 DEF Leave
    <3>2. /\ stage' \in StageNames /\ code' \in {0, 2, 3, 4, 99, 130}
          /\ pipe' \in {"none", "open", "shut"} /\ statusLine' \in [on: BOOLEAN, shown: BOOLEAN]
          /\ held' \in Samples
      BY <3>1, EndsType
    <3> QED
      BY <2>1, <3>1, <3>2 DEF TypeInv
  <2>4. CASE /\ stale' = (e = "resize" \/ Fresh)
             /\ held' \in {shared.latest, held}
             /\ UNCHANGED <<stage, code, pipe, statusLine, raw>>
    <3>1. stale' \in BOOLEAN
      BY <2>4
    <3> QED
      BY <1>0, <2>1, <2>4, <3>1 DEF TypeInv
  <2> QED
    BY <2>2, <2>3, <2>4
<1>12. CASE Interrupt
  BY <1>12, NoSampleType DEF Interrupt, TypeInv, Done, StageNames
<1>13. CASE ProgressLine \/ SampleLine \/ ServiceDies \/ NinetySecondsPass
  BY <1>13, LinesMove DEF TypeInv
<1>14. CASE UNCHANGED cliVars
  BY <1>14 DEF cliVars, TypeInv
<1> QED
  BY <1>1, <1>2, <1>3, <1>4, <1>5, <1>6, <1>7, <1>8, <1>9, <1>10, <1>11, <1>12, <1>13, <1>14
  DEF CliNext, Dashboard

LEMMA TypeHolds == CliSpec => []TypeInv
PROOF
<1>1. CliInit => TypeInv
  <2> SUFFICES ASSUME CliInit PROVE TypeInv
    OBVIOUS
  <2>1. shared \in [alive: BOOLEAN, latest: Samples, loading: -1..Stages, sent: Nat,
                    firstWhole: Nat]
    BY NoSampleType, CliAssumption DEF CliInit
  <2>2. put \in Seq(Samples) /\ Len(put) <= 2
    BY EmptySeq DEF CliInit
  <2>3. statusLine \in [on: BOOLEAN, shown: BOOLEAN]
    BY DEF CliInit
  <2> QED
    BY <2>1, <2>2, <2>3, NoSampleType DEF CliInit, TypeInv, StageNames
<1> QED
  BY <1>1, TypeStep, PTL DEF CliSpec

-----------------------------------------------------------------------------
(* The stream of samples.                                                  *)

\* A sample line is the next sample, and the first whole one stays the first.
LEMMA SampleMoves ==
  ASSUME TypeInv, StreamInv, SampleLine
  PROVE  /\ shared'.sent = shared.sent + 1 /\ shared'.latest.n = shared.sent + 1
         /\ shared'.firstWhole <= shared.sent + 1
         /\ shared.firstWhole >= 1 => shared'.firstWhole = shared.firstWhole
         /\ ~shared'.latest.partial => shared'.firstWhole >= 1
PROOF
<1>0. /\ shared \in [alive: BOOLEAN, latest: Samples, loading: -1..Stages, sent: Nat,
                     firstWhole: Nat]
      /\ shared.sent \in Nat /\ shared.firstWhole \in Nat
      /\ shared.firstWhole <= shared.sent
  BY DEF TypeInv, StreamInv
<1> DEFINE whole == shared.loading \in {-1, 0}
           s == [n |-> shared.sent + 1, partial |-> ~whole]
           f == IF whole /\ shared.firstWhole = 0 THEN shared.sent + 1 ELSE shared.firstWhole
<1>1. shared' = [shared EXCEPT !.sent = @ + 1, !.latest = s, !.firstWhole = f]
  BY <1>0 DEF SampleLine
<1>2. s.n = shared.sent + 1 /\ (~s.partial => whole)
  OBVIOUS
<1>3. f <= shared.sent + 1 /\ (shared.firstWhole >= 1 => f = shared.firstWhole)
      /\ (whole => f >= 1)
  BY <1>0
<1> HIDE DEF s, f, whole
<1>4. shared'.sent = shared.sent + 1 /\ shared'.latest = s /\ shared'.firstWhole = f
  BY <1>0, <1>1
<1> QED
  BY <1>2, <1>3, <1>4

\* The main thread only reads the shared state.
Looks ==
  \/ ParseArgs \/ Gate \/ ConnectPhase \/ ConnectFails \/ ConnectReady \/ Look
  \/ PrintReport \/ PrintFails \/ Dashboard \/ Interrupt \/ UNCHANGED cliVars
Lines == ProgressLine \/ SampleLine \/ ServiceDies \/ NinetySecondsPass

LEMMA LooksLeaveShared == Looks => shared' = shared
  BY DEF Looks, ParseArgs, Gate, ConnectPhase, ConnectFails, ConnectReady, Look, PrintReport,
         PrintFails, Dashboard, OpenDashboard, Draw, DashStep, Interrupt, cliVars

LEMMA StreamStep == TypeInv /\ StreamInv /\ [CliNext]_cliVars => StreamInv'
PROOF
<1> SUFFICES ASSUME TypeInv, StreamInv, [CliNext]_cliVars PROVE StreamInv'
  OBVIOUS
<1>1. CASE shared' = shared
  BY <1>1 DEF StreamInv
<1>2. CASE SampleLine
  <2>1. shared.sent \in Nat
    BY DEF TypeInv
  <2> QED
    BY <1>2, <2>1, SampleMoves DEF StreamInv
<1>3. CASE Lines /\ ~SampleLine
  BY <1>3, LinesMove DEF StreamInv, Lines
<1> QED
  BY <1>1, <1>2, <1>3, LooksLeaveShared DEF CliNext, Looks, Lines

-----------------------------------------------------------------------------
(* What the loop holds.                                                    *)

LEMMA HeldStep == TypeInv /\ StreamInv /\ HeldInv /\ [CliNext]_cliVars => HeldInv'
PROOF
<1> SUFFICES ASSUME TypeInv, StreamInv, HeldInv, [CliNext]_cliVars PROVE HeldInv'
  OBVIOUS
<1>0. shared.sent \in Nat /\ shared.firstWhole \in Nat /\ held \in Samples
      /\ stage \in StageNames
  BY DEF TypeInv
\* A run that ends lets go of its sample.
<1>1. ASSUME NEW c, Ends(c) PROVE HeldInv'
  BY <1>1 DEF Ends, HeldInv
\* A step that only moves on to a stage of the same kind.
<1>2. ASSUME UNCHANGED <<held, shared, stage, opts, env>> PROVE HeldInv'
  BY <1>2 DEF HeldInv, OpensDashboard
<1>3. CASE ParseArgs
  <2>1. Ends(0) \/ Ends(2) \/ (stage' = "gate" /\ held' = held)
    BY <1>3 DEF ParseArgs
  <2>2. CASE stage' = "gate" /\ held' = held
    <3>1. held' = NoSample
      BY <1>3, <2>2 DEF ParseArgs, HeldInv
    <3> QED
      BY <2>2, <3>1 DEF HeldInv
  <2> QED
    BY <1>1, <2>1, <2>2
<1>4. CASE Gate
  <2>1. Ends(3) \/ (stage' = "connect" /\ held' = held)
    BY <1>4 DEF Gate
  <2>2. CASE stage' = "connect" /\ held' = held
    <3>1. held' = NoSample
      BY <1>4, <2>2 DEF Gate, HeldInv
    <3> QED
      BY <2>2, <3>1 DEF HeldInv
  <2> QED
    BY <1>1, <2>1, <2>2
<1>5. CASE ConnectPhase
  BY <1>2, <1>5 DEF ConnectPhase
<1>6. CASE ConnectReady
  <2>1. stage' = "first" /\ held' = NoSample
    BY <1>6 DEF ConnectReady, HeldInv
  <2> QED
    BY <2>1 DEF HeldInv
<1>7. CASE Look
  <2>1. UNCHANGED <<opts, env, shared>> /\ Waiting
    BY <1>7 DEF Look
  <2>2. CASE Ends(4)
    BY <1>1, <2>2
  <2>3. CASE Show /\ UNCHANGED <<stage, code, pipe, held>>
    BY <1>2, <2>1, <2>3
  <2>4. CASE Fresh /\ held' = shared.latest /\ stage' = Found
    <3>1. /\ held' # NoSample /\ ~held'.partial /\ held'.n = shared.sent
          /\ shared.firstWhole >= 1 /\ shared.firstWhole <= shared.sent
      BY <2>4, FreshIsLater
    <3>2. held # NoSample => held'.n > held.n
      BY <2>4, FreshIsLater
    <3>3. held' # NoSample => /\ ~held'.partial /\ held'.n <= shared'.sent
                              /\ shared'.firstWhole >= 1 /\ shared'.firstWhole <= held'.n
      BY <1>0, <2>1, <3>1
    <3>4. OpensDashboard' = OpensDashboard /\ opts' = opts
      BY <2>1 DEF OpensDashboard
    <3>5. CASE stage = "first" /\ OpensDashboard
      <4>1. stage' = "open"
        BY <2>4, <3>5 DEF Found
      <4> QED
        BY <3>1, <3>3, <3>4, <3>5, <4>1 DEF HeldInv
    <3>6. CASE stage = "first" /\ ~OpensDashboard /\ ~opts.watch
      <4>1. stage' = "second"
        BY <2>4, <3>6 DEF Found
      <4> QED
        BY <3>1, <3>3, <3>4, <3>6, <4>1 DEF HeldInv
    <3>7. CASE stage = "first" /\ ~OpensDashboard /\ opts.watch
      <4>1. stage' = "print"
        BY <2>4, <3>7 DEF Found
      <4> QED
        BY <3>1, <3>3, <3>4, <3>7, <4>1 DEF HeldInv
    <3>8. CASE stage = "second"
      <4>1. stage' = "print"
        BY <2>4, <3>8 DEF Found
      <4>2. ~OpensDashboard /\ held # NoSample /\ shared.firstWhole <= held.n
        BY <3>8 DEF HeldInv
      <4>3. held'.n > shared'.firstWhole
        <5>1. held'.n \in Nat /\ held.n \in Nat /\ shared'.firstWhole = shared.firstWhole
          BY <1>0, <2>1, <3>1 DEF Samples
        <5> QED
          BY <1>0, <3>2, <4>2, <5>1
      <4> QED
        BY <3>1, <3>3, <3>4, <4>1, <4>2, <4>3 DEF HeldInv
    <3>9. CASE stage = "again"
      <4>1. stage' = "print" /\ opts.watch
        BY <2>4, <3>9 DEF Found, HeldInv
      <4> QED
        BY <3>1, <3>3, <3>4, <4>1 DEF HeldInv
    <3> QED
      BY <2>1, <3>5, <3>6, <3>7, <3>8, <3>9 DEF Waiting
  <2> QED
    BY <1>7, <2>2, <2>3, <2>4 DEF Look
<1>8. CASE PrintReport
  <2>1. UNCHANGED <<opts, env, shared>> /\ stage = "print"
    BY <1>8 DEF PrintReport
  <2>2. Ends(0) \/ (opts.watch /\ stage' = "again" /\ held' = held)
    BY <1>8 DEF PrintReport
  <2>3. CASE opts.watch /\ stage' = "again" /\ held' = held
    BY <2>1, <2>3 DEF HeldInv
  <2> QED
    BY <1>1, <2>2, <2>3
<1>9. CASE ConnectFails \/ PrintFails
  BY <1>1, <1>9 DEF ConnectFails, PrintFails
<1>10. CASE OpenDashboard
  <2>1. UNCHANGED <<opts, env, shared>> /\ stage = "open"
    BY <1>10 DEF OpenDashboard
  <2>2. Ends(4) \/ (stage' = "dash" /\ held' = held)
    BY <1>10 DEF OpenDashboard
  <2>3. CASE stage' = "dash" /\ held' = held
    BY <2>1, <2>3 DEF HeldInv, OpensDashboard
  <2> QED
    BY <1>1, <2>2, <2>3
<1>11. CASE Draw
  <2>1. Ends(4) \/ UNCHANGED <<held, shared, stage, opts, env>>
    BY <1>11 DEF Draw, Leave
  <2> QED
    BY <1>1, <1>2, <2>1
<1>12. ASSUME NEW e \in {"none", "quit", "resize", "error"}, DashStep(e) PROVE HeldInv'
  <2>1. UNCHANGED <<opts, env, shared>> /\ stage = "dash"
    BY <1>12 DEF DashStep
  <2>2. \/ Ends(0) \/ Ends(4)
        \/ stage' = stage /\ held' = IF Fresh THEN shared.latest ELSE held
    BY <1>12 DEF DashStep, Leave
  <2>3. CASE stage' = stage /\ ~Fresh /\ held' = held
    BY <1>2, <2>1, <2>3
  <2>4. CASE stage' = stage /\ Fresh /\ held' = shared.latest
    <3>1. /\ held' # NoSample /\ ~held'.partial /\ held'.n = shared.sent
          /\ shared.firstWhole >= 1 /\ shared.firstWhole <= shared.sent
      BY <2>4, FreshIsLater
    <3>2. held' # NoSample => /\ ~held'.partial /\ held'.n <= shared'.sent
                              /\ shared'.firstWhole >= 1 /\ shared'.firstWhole <= held'.n
      BY <1>0, <2>1, <3>1
    <3> QED
      BY <2>1, <2>4, <3>1, <3>2 DEF HeldInv, OpensDashboard
  <2> QED
    BY <1>1, <2>2, <2>3, <2>4
<1>13. CASE Interrupt
  BY <1>13 DEF Interrupt, HeldInv
<1>14. CASE SampleLine
  <2>1. UNCHANGED <<opts, env, stage, held>>
    BY <1>14, LinesMove
  <2>2. /\ shared'.sent = shared.sent + 1
        /\ shared.firstWhole >= 1 => shared'.firstWhole = shared.firstWhole
    BY <1>14, SampleMoves
  <2>3. held.n \in Nat
    BY <1>0 DEF Samples
  <2>4. held # NoSample => held.n <= shared.sent + 1
    BY <1>0, <2>3 DEF HeldInv
  <2>5. stage = "print" => shared.firstWhole >= 1
    BY DEF HeldInv
  <2>6. held' # NoSample => /\ ~held'.partial /\ held'.n <= shared'.sent
                            /\ shared'.firstWhole >= 1 /\ shared'.firstWhole <= held'.n
    BY <2>1, <2>2, <2>4 DEF HeldInv
  <2> QED
    BY <2>1, <2>2, <2>5, <2>6 DEF HeldInv, OpensDashboard
<1>15. CASE Lines /\ ~SampleLine
  <2>1. /\ UNCHANGED <<opts, env, stage, held>>
        /\ shared'.sent = shared.sent /\ shared'.firstWhole = shared.firstWhole
    BY <1>15, LinesMove DEF Lines
  <2> QED
    BY <2>1 DEF HeldInv, OpensDashboard
<1>16. CASE UNCHANGED cliVars
  BY <1>2, <1>16 DEF cliVars
<1> QED
  BY <1>3, <1>4, <1>5, <1>6, <1>7, <1>8, <1>9, <1>10, <1>11, <1>12, <1>13, <1>14, <1>15, <1>16
  DEF CliNext, Dashboard, Lines

-----------------------------------------------------------------------------
(* What was printed or drawn.                                              *)

LEMMA PutStep ==
  TypeInv /\ StreamInv /\ HeldInv /\ PutInv /\ [CliNext]_cliVars => PutInv'
PROOF
<1> SUFFICES ASSUME TypeInv, StreamInv, HeldInv, PutInv, [CliNext]_cliVars PROVE PutInv'
  OBVIOUS
<1>0. /\ held \in Samples /\ held.n \in Nat /\ stage \in StageNames
      /\ put \in Seq(Samples) /\ Len(put) \in Nat /\ Len(put) <= 2
      /\ (put = <<>> <=> Len(put) = 0)
      /\ \A i \in 1..Len(put) : put[i] \in Samples /\ put[i].n \in Nat
      /\ shared.sent \in Nat /\ shared.firstWhole \in Nat
  <2>1. /\ held \in Samples /\ stage \in StageNames /\ put \in Seq(Samples) /\ Len(put) <= 2
        /\ shared.sent \in Nat /\ shared.firstWhole \in Nat
    BY DEF TypeInv
  <2>2. Len(put) \in Nat /\ (put = <<>> <=> Len(put) = 0)
    BY <2>1, EmptySeq
  <2>3. \A i \in 1..Len(put) : put[i] \in Samples
    BY <2>1, ElementOfSeq
  <2>4. \A s \in Samples : s.n \in Nat
    BY DEF Samples
  <2> QED
    BY <2>1, <2>2, <2>3, <2>4
\* A run that ends keeps what it has put out.
<1>1. ASSUME NEW c, Ends(c), UNCHANGED <<put, opts, env, shared>> PROVE PutInv'
  <2>1. stage' = "ended" /\ held' = NoSample
    BY <1>1 DEF Ends
  <2> QED
    BY <1>1, <2>1 DEF PutInv, OpensDashboard
<1>2. ASSUME UNCHANGED <<put, held, shared, stage, opts, env>> PROVE PutInv'
  BY <1>2 DEF PutInv, OpensDashboard
\* Before anything is printed or drawn there is nothing to keep.
<1>3. ASSUME put' = <<>> PROVE PutInv'
  <2>1. Len(put') = 0
    BY <1>3, EmptySeq
  <2> QED
    BY <1>3, <2>1 DEF PutInv
<1>4. ASSUME stage \notin {"print", "again", "dash", "ended"}, put' = put PROVE PutInv'
  BY <1>3, <1>4 DEF PutInv
<1>5. CASE ParseArgs \/ Gate \/ ConnectPhase \/ ConnectFails \/ ConnectReady \/ OpenDashboard
  BY <1>4, <1>5
  DEF ParseArgs, Gate, ConnectPhase, ConnectFails, ConnectReady, OpenDashboard
<1>6. CASE Look
  <2>1. UNCHANGED <<put, opts, env, shared>> /\ Waiting
    BY <1>6 DEF Look
  <2>2. CASE stage # "again"
    BY <1>4, <2>1, <2>2 DEF Waiting
  <2>3. CASE stage = "again" /\ Ends(4)
    BY <1>1, <2>1, <2>3
  <2>4. CASE stage = "again" /\ UNCHANGED <<stage, held>>
    BY <1>2, <2>1, <2>4
  <2>5. CASE stage = "again" /\ Fresh /\ held' = shared.latest /\ stage' = Found
    <3>1. held # NoSample /\ opts.watch
      BY <2>5 DEF HeldInv
    <3>2. stage' = "print"
      BY <2>5 DEF Found
    <3>3. held'.n > held.n /\ held'.n \in Nat
      BY <2>5, <3>1, FreshIsLater DEF Samples
    <3>4. put # <<>> => put[Len(put)].n < held'.n
      <4>1. put # <<>> => put[Len(put)].n <= held.n /\ Len(put) \in 1..Len(put)
        BY <1>0, <3>1 DEF PutInv
      <4> QED
        BY <1>0, <3>3, <4>1
    <3>5. put # <<>> => put[Len(put)].n <= held'.n
      <4>1. put # <<>> => put[Len(put)].n \in Nat
        BY <1>0
      <4> QED
        BY <3>3, <3>4, <4>1
    <3> QED
      BY <2>1, <3>1, <3>2, <3>4, <3>5 DEF PutInv, OpensDashboard
  <2> QED
    BY <1>6, <2>2, <2>3, <2>4, <2>5 DEF Look
\* A sample printed, or drawn for the first time, is a later one.
<1>7. ASSUME Printed, held # NoSample, UNCHANGED <<opts, env, shared>>,
             put # <<>> => put[Len(put)].n < held.n,
             stage' \in {"again", "dash", "ended"}, held' \in {held, NoSample},
             ~opts.watch /\ ~OpensDashboard =>
               put = <<>> /\ stage' = "ended" /\ held.n > shared.firstWhole
      PROVE  PutInv'
  <2>1. /\ ~held.partial /\ shared.firstWhole >= 1 /\ shared.firstWhole <= held.n
    BY <1>7 DEF HeldInv
  <2>2. CASE put = <<>>
    <3>1. Len(put') = 1 /\ put'[1] = held /\ put' # <<>>
      BY <1>0, <1>7, <2>2, PrintedAppends
    <3>2. \A i \in 1..Len(put') : put'[i] = held
      BY <3>1
    <3>3. put'[Len(put')] = held /\ ~(Len(put') = 2)
      BY <3>1
    <3>4. ~opts'.watch /\ ~OpensDashboard' => ~opts.watch /\ ~OpensDashboard
      BY <1>7 DEF OpensDashboard
    <3>5. held' # NoSample => put'[Len(put')].n <= held'.n
      BY <1>0, <1>7, <3>3
    <3> QED
      BY <1>7, <2>1, <3>1, <3>2, <3>3, <3>4, <3>5 DEF PutInv
  <2>3. CASE put # <<>>
    <3>0. Len(put) \in 1..Len(put)
      BY <1>0, <2>3
    <3>1. Len(put') = 2 /\ put'[1] = put[Len(put)] /\ put'[2] = held /\ put' # <<>>
      BY <1>0, <1>7, <2>3, PrintedAppends
    <3>2. \A i \in 1..Len(put') : put'[i] \in {put[Len(put)], held}
      BY <3>1
    <3>3. ~put[Len(put)].partial /\ put[Len(put)].n >= shared.firstWhole
      BY <3>0 DEF PutInv
    <3>4. put'[1].n < put'[2].n /\ put'[Len(put')] = held
      BY <1>7, <2>3, <3>1
    <3>5. ~(~opts'.watch /\ ~OpensDashboard')
      BY <1>7, <2>3 DEF OpensDashboard
    <3>6. held' # NoSample => put'[Len(put')].n <= held'.n
      BY <1>0, <1>7, <3>4
    <3>7. \A i \in 1..Len(put') : ~put'[i].partial /\ put'[i].n >= shared'.firstWhole
      BY <1>0, <1>7, <2>1, <3>2, <3>3
    <3> QED
      BY <1>7, <2>1, <3>4, <3>5, <3>6, <3>7 DEF PutInv
  <2> QED
    BY <2>2, <2>3
<1>8. CASE PrintReport
  <2>1. Printed /\ UNCHANGED <<opts, env, shared>> /\ stage = "print"
    BY <1>8 DEF PrintReport
  <2>2. held # NoSample /\ (opts.watch \/ (~OpensDashboard /\ held.n > shared.firstWhole))
    BY <2>1 DEF HeldInv
  <2>3. put # <<>> => put[Len(put)].n < held.n
    BY <2>1, <2>2 DEF PutInv
  <2>4. \/ opts.watch /\ stage' = "again" /\ held' = held
        \/ ~opts.watch /\ stage' = "ended" /\ held' = NoSample
    BY <1>8 DEF PrintReport, Ends
  <2>5. ~opts.watch /\ ~OpensDashboard => put = <<>>
    BY <2>1 DEF PutInv
  <2> QED
    BY <1>7, <2>1, <2>2, <2>3, <2>4, <2>5
<1>9. CASE PrintFails
  BY <1>1, <1>9 DEF PrintFails
<1>10. CASE Draw
  <2>1. UNCHANGED <<opts, env, shared>> /\ stage = "dash" /\ OpensDashboard
    BY <1>10 DEF Draw, HeldInv
  <2>2. held # NoSample /\ ~held.partial
    BY <2>1 DEF HeldInv
  <2>3. CASE Ends(4) /\ UNCHANGED put
    BY <1>1, <2>1, <2>3
  <2>4. CASE UNCHANGED <<stage, held, put>>
    BY <1>2, <2>1, <2>4
  <2>5. CASE UNCHANGED <<stage, held>> /\ Printed /\ ~(put # <<>> /\ Last(put) = held)
    <3>1. put # <<>> => put[Len(put)].n < held.n
      <4> SUFFICES ASSUME put # <<>> PROVE put[Len(put)].n < held.n
        OBVIOUS
      <4>1. Len(put) \in 1..Len(put)
        BY <1>0
      <4>2. put[Len(put)] \in Samples /\ put[Len(put)].partial = FALSE /\ held.partial = FALSE
        BY <1>0, <2>2, <4>1 DEF PutInv, Samples
      <4>3. put[Len(put)] # held
        BY <2>5 DEF Last
      <4>4. put[Len(put)].n # held.n
        BY <1>0, <4>2, <4>3 DEF Samples
      <4>5. put[Len(put)].n <= held.n
        BY <2>2 DEF PutInv
      <4> QED
        BY <1>0, <4>1, <4>4, <4>5
    <3> QED
      BY <1>7, <2>1, <2>2, <2>5, <3>1
  <2> QED
    BY <1>10, <2>3, <2>4, <2>5 DEF Draw, Drawn, Leave
<1>11. ASSUME NEW e \in {"none", "quit", "resize", "error"}, DashStep(e) PROVE PutInv'
  <2>1. UNCHANGED <<opts, env, shared, put>> /\ stage = "dash" /\ held # NoSample
    BY <1>11 DEF DashStep, HeldInv
  <2>2. \/ Ends(0) \/ Ends(4)
        \/ stage' = stage /\ held' = IF Fresh THEN shared.latest ELSE held
    BY <1>11 DEF DashStep, Leave
  <2>3. CASE stage' = stage /\ ~Fresh /\ held' = held
    BY <1>2, <2>1, <2>3
  <2>4. CASE stage' = stage /\ Fresh /\ held' = shared.latest
    <3>1. held'.n > held.n /\ held'.n \in Nat
      BY <2>1, <2>4, FreshIsLater DEF Samples
    <3>2. put # <<>> => put[Len(put)].n <= held'.n
      <4>1. put # <<>> => put[Len(put)].n <= held.n /\ put[Len(put)].n \in Nat
        BY <1>0, <2>1 DEF PutInv
      <4> QED
        BY <1>0, <3>1, <4>1
    <3> QED
      BY <2>1, <2>4, <3>2 DEF PutInv, OpensDashboard
  <2> QED
    BY <1>1, <2>1, <2>2, <2>3, <2>4
<1>12. CASE Interrupt
  <2>1. UNCHANGED <<opts, env, shared, put>> /\ stage' = "ended" /\ held' = NoSample
    BY <1>12 DEF Interrupt
  <2> QED
    BY <2>1 DEF PutInv, OpensDashboard
<1>13. CASE SampleLine
  <2>1. UNCHANGED <<opts, env, stage, held, put>>
    BY <1>13, LinesMove
  <2>2. shared.firstWhole >= 1 => shared'.firstWhole = shared.firstWhole
    BY <1>13, SampleMoves
  <2>3. put # <<>> => 1 \in 1..Len(put)
    BY <1>0
  <2>4. put # <<>> => shared'.firstWhole = shared.firstWhole
    BY <2>2, <2>3 DEF PutInv
  <2>5. \A i \in 1..Len(put) : put # <<>>
    BY <1>0
  <2> QED
    BY <2>1, <2>4, <2>5 DEF PutInv, OpensDashboard
<1>14. CASE Lines /\ ~SampleLine
  <2>1. /\ UNCHANGED <<opts, env, stage, held, put>>
        /\ shared'.sent = shared.sent /\ shared'.firstWhole = shared.firstWhole
    BY <1>14, LinesMove DEF Lines
  <2> QED
    BY <2>1 DEF PutInv, OpensDashboard
<1>15. CASE UNCHANGED cliVars
  BY <1>2, <1>15 DEF cliVars
<1> QED
  BY <1>5, <1>6, <1>8, <1>9, <1>10, <1>11, <1>12, <1>13, <1>14, <1>15
  DEF CliNext, Dashboard, Lines

-----------------------------------------------------------------------------
(* How a run ends.                                                         *)

LEMMA EndStep ==
  TypeInv /\ HeldInv /\ PutInv /\ EndInv /\ [CliNext]_cliVars => EndInv'
PROOF
<1> SUFFICES ASSUME TypeInv, HeldInv, PutInv, EndInv, [CliNext]_cliVars PROVE EndInv'
  OBVIOUS
<1>0. stage \in StageNames /\ put \in Seq(Samples) /\ Len(put) <= 2 /\ held \in Samples
      /\ pipe \in {"none", "open", "shut"} /\ statusLine \in [on: BOOLEAN, shown: BOOLEAN]
  BY DEF TypeInv
\* A run ends with an error.
<1>1. ASSUME Ends(4), ~raw' PROVE EndInv'
  <2>1. stage' = "ended" /\ code' = 4 /\ pipe' # "open"
    BY <1>0, <1>1 DEF Ends
  <2> QED
    BY <1>1, <2>1 DEF EndInv, EndsClean
\* It ends before it has tried to connect.
<1>2. ASSUME NEW c \in {0, 2, 3}, Ends(c), stage \in {"parse", "gate"},
             UNCHANGED <<raw, prompted>>
      PROVE  EndInv'
  <2>1. /\ stage' = "ended" /\ code' = c /\ pipe' = "none"
        /\ statusLine' = statusLine /\ ~statusLine.shown /\ ~prompted /\ ~raw
    BY <1>2 DEF Ends, EndInv
  <2> QED
    BY <1>2, <2>1 DEF EndInv, EndsClean
\* It ends with its work done.
<1>3. ASSUME Ends(0), stage \in {"print", "dash"}, ~raw', put' # <<>> PROVE EndInv'
  <2>1. /\ stage' = "ended" /\ code' = 0 /\ pipe' # "open"
        /\ statusLine' = statusLine /\ ~statusLine.shown
    BY <1>0, <1>3 DEF Ends, EndInv
  <2> QED
    BY <1>3, <2>1 DEF EndInv, EndsClean
<1>4. CASE ParseArgs
  <2>1. stage = "parse" /\ UNCHANGED <<raw, prompted, stale, put>>
    BY <1>4 DEF ParseArgs
  <2>2. Ends(0) \/ Ends(2) \/ (stage' = "gate" /\ UNCHANGED <<code, pipe, statusLine>>)
    BY <1>4 DEF ParseArgs
  <2>3. CASE stage' = "gate" /\ UNCHANGED <<code, pipe, statusLine>>
    BY <2>1, <2>3 DEF EndInv, EndsClean
  <2> QED
    BY <1>2, <2>1, <2>2, <2>3
<1>5. CASE Gate
  <2>1. stage = "gate" /\ UNCHANGED <<raw, prompted, stale, put>>
    BY <1>5 DEF Gate
  <2>2. Ends(3) \/ (stage' = "connect" /\ UNCHANGED <<code, pipe, statusLine>>)
    BY <1>5 DEF Gate
  <2>3. CASE stage' = "connect" /\ UNCHANGED <<code, pipe, statusLine>>
    BY <2>1, <2>3 DEF EndInv, EndsClean
  <2> QED
    BY <1>2, <2>1, <2>2, <2>3
<1>6. CASE ConnectPhase
  BY <1>6 DEF ConnectPhase, EndInv, EndsClean
<1>7. CASE ConnectFails \/ PrintFails
  <2>1. Ends(4) /\ raw' = raw /\ stage # "dash"
    BY <1>7 DEF ConnectFails, PrintFails
  <2> QED
    BY <1>1, <2>1 DEF EndInv
<1>8. CASE ConnectReady
  BY <1>8 DEF ConnectReady, EndInv, EndsClean
<1>9. CASE Look
  <2>1. Waiting /\ UNCHANGED <<raw, prompted, stale, put>> /\ ~raw
    BY <1>9 DEF Look, Waiting, EndInv
  <2>2. CASE Ends(4)
    BY <1>1, <2>1, <2>2
  <2>3. CASE UNCHANGED <<stage, code, pipe>>
    BY <2>1, <2>3 DEF Waiting, EndInv, EndsClean
  <2>4. CASE /\ stage' = Found /\ UNCHANGED <<code, pipe>>
             /\ statusLine' = IF stage' = "second" THEN statusLine ELSE Done
    <3>1. stage' \in {"open", "second", "print"}
      BY <2>4 DEF Found
    <3>2. stage' # "second" => ~statusLine'.shown
      BY <2>4 DEF Done
    <3> QED
      BY <2>1, <2>4, <3>1, <3>2 DEF Waiting, EndInv, EndsClean
  <2> QED
    BY <1>9, <2>2, <2>3, <2>4 DEF Look
<1>10. CASE PrintReport
  <2>1. stage = "print" /\ UNCHANGED <<raw, prompted, stale>> /\ ~raw /\ put' # <<>>
    <3>1. stage = "print" /\ UNCHANGED <<raw, prompted, stale>> /\ Printed
      BY <1>10 DEF PrintReport
    <3> QED
      BY <1>0, <3>1, PrintedAppends DEF EndInv
  <2>2. Ends(0) \/ (stage' = "again" /\ UNCHANGED <<code, pipe, statusLine>>)
    BY <1>10 DEF PrintReport
  <2>3. CASE stage' = "again" /\ UNCHANGED <<code, pipe, statusLine>>
    BY <2>1, <2>3 DEF EndInv, EndsClean
  <2> QED
    BY <1>3, <2>1, <2>2, <2>3
<1>11. CASE OpenDashboard
  <2>1. stage = "open" /\ UNCHANGED <<prompted, put>> /\ ~raw
    BY <1>11 DEF OpenDashboard, EndInv
  <2>2. CASE stage' = "dash" /\ stale' = TRUE /\ UNCHANGED <<code, pipe, statusLine>>
    BY <2>1, <2>2 DEF EndInv, EndsClean
  <2>3. CASE Ends(4) /\ raw' = raw
    BY <1>1, <2>1, <2>3
  <2> QED
    BY <1>11, <2>2, <2>3 DEF OpenDashboard
<1>12. CASE Draw
  <2>1. stage = "dash" /\ UNCHANGED prompted
    BY <1>12 DEF Draw
  <2>2. CASE Drawn /\ UNCHANGED <<stage, code, pipe, statusLine, raw>>
    <3>1. put' # <<>>
      <4>1. CASE Printed
        BY <1>0, <4>1, PrintedAppends
      <4>2. CASE put # <<>> /\ put' = put
        BY <4>2
      <4> QED
        BY <2>2, <4>1, <4>2 DEF Drawn
    <3> QED
      BY <2>1, <2>2, <3>1 DEF EndInv, EndsClean
  <2>3. CASE Leave(4)
    BY <1>1, <2>3 DEF Leave
  <2> QED
    BY <1>12, <2>2, <2>3 DEF Draw
<1>13. ASSUME NEW e \in {"none", "quit", "resize", "error"}, DashStep(e) PROVE EndInv'
  <2>1. stage = "dash" /\ ~stale /\ UNCHANGED <<prompted, put>> /\ put # <<>>
    BY <1>13 DEF DashStep, EndInv
  <2>2. CASE Leave(4)
    BY <1>1, <2>2 DEF Leave
  <2>3. CASE Leave(0)
    <3>1. Ends(0) /\ ~raw' /\ put' # <<>>
      BY <2>1, <2>3 DEF Leave
    <3> QED
      BY <1>3, <2>1, <3>1
  <2>4. CASE UNCHANGED <<stage, code, pipe, statusLine, raw>>
    BY <2>1, <2>4 DEF EndInv, EndsClean
  <2> QED
    BY <1>13, <2>2, <2>3, <2>4 DEF DashStep
<1>14. CASE Interrupt
  <2>1. /\ stage' = "ended" /\ code' = 130 /\ pipe' # "open" /\ statusLine' = Done
        /\ raw' = raw /\ stage # "dash"
    BY <1>0, <1>14 DEF Interrupt
  <2> QED
    BY <2>1 DEF EndInv, EndsClean
<1>15. CASE Lines
  <2>1. UNCHANGED <<stage, code, raw, prompted, pipe, statusLine, stale, put>>
    BY <1>15, LinesMove DEF Lines
  <2> QED
    BY <2>1 DEF EndInv, EndsClean
<1>16. CASE UNCHANGED cliVars
  BY <1>16 DEF cliVars, EndInv, EndsClean
<1> QED
  BY <1>4, <1>5, <1>6, <1>7, <1>8, <1>9, <1>10, <1>11, <1>12, <1>13, <1>14, <1>15, <1>16
  DEF CliNext, Dashboard, Lines

LEMMA StartInv == CliInit => StreamInv /\ HeldInv /\ PutInv /\ EndInv
PROOF
<1> SUFFICES ASSUME CliInit PROVE StreamInv /\ HeldInv /\ PutInv /\ EndInv
  OBVIOUS
<1>1. StreamInv
  BY NoSampleType DEF CliInit, StreamInv
<1>2. HeldInv
  BY DEF CliInit, HeldInv
<1>3. PutInv
  <2>1. put = <<>> /\ Len(put) = 0
    BY EmptySeq DEF CliInit
  <2> QED
    BY <2>1 DEF PutInv
<1>4. EndInv
  BY DEF CliInit, EndInv, EndsClean
<1> QED
  BY <1>1, <1>2, <1>3, <1>4

LEMMA RunHolds == CliSpec => [](TypeInv /\ StreamInv /\ HeldInv /\ PutInv /\ EndInv)
  BY TypeHolds, StartInv, StreamStep, HeldStep, PutStep, EndStep, PTL DEF CliSpec

\* No report and no frame is ever made from a sample taken while a category was
\* loading, none repeats the one before, and a single report comes from a sample after
\* the first whole one, at whatever moments the main thread looked (is_complete,
\* is_new_sample, the second next_sample of report_loop).
THEOREM SamplesAreSettledCorrect == CliSpec => []SamplesAreSettled
PROOF
<1>1. TypeInv /\ PutInv => SamplesAreSettled
  <2> SUFFICES ASSUME TypeInv, PutInv PROVE SamplesAreSettled
    OBVIOUS
  <2>1. put \in Seq(Samples) /\ DOMAIN put = 1..Len(put)
    BY DEF TypeInv
  <2>2. ASSUME ~opts.watch, opts.once \/ opts.json \/ ~env.tty PROVE ~OpensDashboard
    BY <2>2 DEF OpensDashboard, Plain
  <2> QED
    BY <2>1, <2>2 DEF PutInv, SamplesAreSettled
<1> QED
  BY <1>1, RunHolds, PTL

\* However a run ends, by its own exit codes or a Ctrl+C, the pipe is closed, the
\* terminal restored, and code 0 is given only for work that was done (run, live::run,
\* ratatui::restore, Status::finish).
THEOREM EndsCleanCorrect == CliSpec => []EndsClean
PROOF
<1>1. EndInv => EndsClean
  BY DEF EndInv
<1> QED
  BY <1>1, RunHolds, PTL
=============================================================================
