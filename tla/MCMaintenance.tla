--------------------------- MODULE MCMaintenance ---------------------------
(* Instance of Repair, GC and Console for TLC: the tools around the mount  *)
(* daemon.  Repair and GC meet only in that a repair drops rows, which     *)
(* GC's DropRow does too, and Console knows nothing of files, so each      *)
(* behaviour runs one of the three.                                        *)
EXTENDS Repair, GC, Console, TLC

VARIABLE part

Symmetry == Permutations(Requests) \cup Permutations(Keys)

Init == /\ part \in {"repair", "gc", "console"}
        /\ RepairInit /\ GCInit /\ ConsoleInit
        /\ part # "gc" => channel = {}

Next == /\ UNCHANGED part
        /\ \/ part = "repair" /\ RepairNext /\ UNCHANGED <<gcVars, consoleVars>>
           \/ part = "gc" /\ GCNext /\ UNCHANGED <<repairVars, consoleVars>>
           \/ part = "console" /\ ConsoleNext /\ UNCHANGED <<repairVars, gcVars>>

Spec == Init /\ [][Next]_<<part, repairVars, gcVars, consoleVars>>

=============================================================================
