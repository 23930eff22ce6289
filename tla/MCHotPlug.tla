----------------------------- MODULE MCHotPlug -----------------------------
(* A CPU, which is always enabled, a GPU of the first staged category and a  *)
(* disk of the second.                                                       *)
EXTENDS HotPlug

MCDevices == {"cpu", "gpu", "disk"}
MCCategory == [d \in MCDevices |-> CASE d = "cpu"  -> 0
                                     [] d = "gpu"  -> 1
                                     [] d = "disk" -> 2]

\* A set that no identifiers make up, comparable with those that do.
MCNone == {"no topology"}
=============================================================================
