----------------------------- MODULE MCTelegram -----------------------------
(* Instance of the three models of internal/tg for TLC.  They share the    *)
(* connection but no state a property of one of them depends on, so each   *)
(* behaviour runs one of them and the state space is a sum, not a product. *)
EXTENDS Session, Documents, RateControl

VARIABLE part

vars == <<part, sessionVars, documentVars, rateVars>>

Init ==
  /\ part \in {"session", "documents", "rate"}
  /\ SessionInit /\ DocumentsInit /\ RateInit

Next ==
  /\ UNCHANGED part
  /\ \/ part = "session" /\ SessionNext /\ UNCHANGED <<documentVars, rateVars>>
     \/ part = "documents" /\ DocumentsNext /\ UNCHANGED <<sessionVars, rateVars>>
     \/ part = "rate" /\ RateNext /\ UNCHANGED <<sessionVars, documentVars>>

(* Goroutines are scheduled, timers fire, and a connection that answers    *)
(* does so in the end.  Nothing is assumed of a wedged connection.         *)
InSession(A) == part = "session" /\ A /\ UNCHANGED <<part, documentVars, rateVars>>

Spec ==
  /\ Init /\ [][Next]_vars
  /\ WF_vars(InSession(Manager)) /\ WF_vars(InSession(Preflight)) /\ WF_vars(InSession(Watchdog))
  /\ \A u \in Uploads : WF_vars(InSession(UploadRuns(u)))
=============================================================================
