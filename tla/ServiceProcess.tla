--------------------------- MODULE ServiceProcess ---------------------------
(***************************************************************************)
(* What the sensor service promises a client that sees only its process    *)
(* and its pipe: SensorSession implements this module, and Connect builds  *)
(* on it.  There is one pipe instance; a client that finds the process     *)
(* without it cannot tell that from no process at all.                     *)
(***************************************************************************)
VARIABLE svc

\* "unpiped": the process is still there, its pipe is not there any more.
SvcState == {"stopped", "starting", "listening", "held", "closing", "unpiped"}

Move(from, to) == svc \in from /\ svc' = to

Launch   == Move({"stopped"}, "starting")
Listen   == Move({"starting"}, "listening")
Attach   == Move({"listening"}, "held")
\* The last handle of the client's end closes.
Detach   == Move({"held"}, "closing")
\* No pipe could be made, no client came, or the session is torn down.
DropPipe == Move({"starting", "listening", "held", "closing"}, "unpiped")
Exit     == Move({"starting", "listening", "held", "closing", "unpiped"}, "stopped")

SvcInit == svc \in {"stopped", "starting"}
SvcNext == Launch \/ Listen \/ Attach \/ Detach \/ DropPipe \/ Exit
SvcSpec == SvcInit /\ [][SvcNext]_svc

\* It gets ready or gives up, waits for a client for a bounded time only, and
\* once its client has left or its pipe is gone it ends.
Ready   == svc = "starting" /\ (Listen \/ DropPipe \/ Exit)
Wait    == svc = "listening" /\ (Attach \/ DropPipe \/ Exit)
WindsUp == svc \in {"closing", "unpiped"} /\ (DropPipe \/ Exit)

SvcFairSpec == SvcSpec /\ WF_svc(Ready) /\ WF_svc(Wait) /\ WF_svc(WindsUp)
=============================================================================
