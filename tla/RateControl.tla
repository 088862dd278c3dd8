----------------------------- MODULE RateControl -----------------------------
(***************************************************************************)
(* How fast the daemon sends requests: the tracker that counts what every  *)
(* RPC came to (internal/tg/tracker.go), the controller that moves the     *)
(* upload cap by additive increase and halving (adaptive.go), the limiter  *)
(* it drives (ratelimit.go), the operator's pin and mode, kept in the      *)
(* metadata store and read by a poller of cmd/telfs/main.go, and the       *)
(* lifetime totals that are saved and seed the next process.               *)
(*                                                                         *)
(* Time is counted in ticks of the controller (30 s).  Only what the       *)
(* controller reads is kept: per lane the RPCs that succeeded and those    *)
(* answered with FLOOD_WAIT.                                               *)
(***************************************************************************)
EXTENDS Integers, FiniteSets

CONSTANTS
  StartCap, MinCap, MaxCap, StepCap,   \* Adaptive{StartingCap,MinCap,MaxCap,Step}
  QuietTicks,      \* AdaptiveQuietBeforeRaise, in ticks
  RingCap,         \* requests the tracker's ring shows
  Pins,            \* caps the operator may pin; 0 clears the pin
  MaxRPCs,         \* bound: RPCs of the first process; each restart has one fewer
  MaxMounts        \* bound: restarts of the daemon

ASSUME RateConstants ==
  /\ {StartCap, MinCap, MaxCap, StepCap, QuietTicks, RingCap} \subseteq Nat \ {0}
  /\ MinCap <= StartCap /\ StartCap <= MaxCap
  /\ Pins \subseteq Nat /\ 0 \in Pins
  /\ {MaxRPCs, MaxMounts} \subseteq Nat

VARIABLES
  kv,       \* stored: mode, upload pin, lifetime totals
  tracker,  \* requests begun, those in flight, totals of the upload lane
  limit,    \* the limiter's upload cap, 0 for unlimited
  ctl,      \* the controller
  view,     \* the tracker snapshot a step is deciding on, or NoView
  poll,     \* the poller: pin and mode it applied last
  mounts,
  hist      \* history: floods not yet sampled, sampled, ticks since one

rateVars == <<kv, tracker, limit, ctl, view, poll, mounts, hist>>

Lanes == {"up", "down"}
NoView == [flood |-> -1, ok |-> -1]

(* A new process: the totals of the last save seed the tracker, the        *)
(* controller starts from zero totals and as if a flood had just been seen.*)
Seeded(stats) == [seq |-> 0, pending |-> {}, ok |-> stats.ok, flood |-> stats.flood,
                  downFlood |-> 0]

\* Mutant: no flood is assumed at the start.
NewControllerWarm == [running |-> FALSE, pinned |-> 0, manual |-> FALSE, cap |-> StartCap,
                      lastFlood |-> 0, lastOK |-> 0, quiet |-> QuietTicks, first |-> TRUE]

NewController == [running |-> FALSE, pinned |-> 0, manual |-> FALSE, cap |-> StartCap,
                  lastFlood |-> 0, lastOK |-> 0, quiet |-> 0, first |-> TRUE]

RateInit ==
  /\ kv = [mode |-> "adaptive", pin |-> 0, ok |-> 0, flood |-> 0]
  /\ tracker = Seeded(kv)
  /\ limit = 0
  /\ ctl = NewController
  /\ view = NoView
  /\ poll = [pin |-> -1, mode |-> "unread", settled |-> FALSE]
  /\ mounts = 0
  /\ hist = [unseen |-> 0, seen |-> 0, calm |-> 0, seeded |-> 0]

----------------------------------------------------------------------------
(* The tracking middleware, below the flood-wait middleware: every attempt *)
(* on the wire is one request.                                             *)

Begin(lane) ==
  /\ tracker.seq + mounts < MaxRPCs
  /\ tracker' = [tracker EXCEPT !.seq = @ + 1,
                                !.pending = @ \cup {<<tracker.seq + 1, lane>>}]
  /\ UNCHANGED <<kv, limit, ctl, view, poll, mounts, hist>>

\* Mutant: accounting by a scan of the ring.
AccountedInRing(r) == r \in tracker.pending /\ r[1] > tracker.seq - RingCap

(* End accounts what the pending map knows, whether or not the ring still  *)
(* shows the request.                                                      *)
Accounted(r) == r \in tracker.pending

Counted(r, outcome) ==
  [tracker EXCEPT
    !.pending = @ \ {r},
    !.ok = IF Accounted(r) /\ r[2] = "up" /\ outcome = "ok" THEN @ + 1 ELSE @,
    !.flood = IF Accounted(r) /\ r[2] = "up" /\ outcome = "flood" THEN @ + 1 ELSE @,
    !.downFlood = IF Accounted(r) /\ r[2] = "down" /\ outcome = "flood" THEN @ + 1 ELSE @]

End(r, outcome) ==
  /\ tracker' = Counted(r, outcome)
  /\ hist' = [hist EXCEPT !.unseen = IF r[2] = "up" /\ outcome = "flood" THEN @ + 1 ELSE @]
  /\ UNCHANGED <<kv, limit, ctl, view, poll, mounts>>

----------------------------------------------------------------------------
(* The controller.  SetUploadPerMinute stores the cap it is given.         *)

SetPinnedUpload(c, n) ==
  IF n > 0 \/ c.manual THEN [c EXCEPT !.pinned = n]
                       ELSE [c EXCEPT !.pinned = n, !.cap = StartCap]

SetManualMode(c, on) ==
  IF c.manual = on THEN c
  ELSE IF ~on /\ c.pinned = 0 THEN [c EXCEPT !.manual = on, !.cap = StartCap]
  ELSE [c EXCEPT !.manual = on]

(* What the limiter is set to by each of the two.                          *)
LimitOfPin(c, n) == IF n > 0 THEN n ELSE IF c.manual THEN 0 ELSE StartCap

LimitOfMode(c, on) ==
  IF c.manual = on THEN limit
  ELSE IF on THEN c.pinned
  ELSE IF c.pinned = 0 THEN StartCap
  ELSE limit

(* The head of Run.                                                        *)
ControllerStarts ==
  /\ ~ctl.running
  /\ ctl' = [ctl EXCEPT !.running = TRUE]
  /\ limit' = IF ctl.pinned = 0 /\ ~ctl.manual THEN ctl.cap ELSE limit
  /\ UNCHANGED <<kv, tracker, view, poll, mounts, hist>>

(* Totals of the upload lane: the download methods are left out.           *)
FloodTotal == tracker.flood

(* A tick samples the tracker before it takes the controller's lock.       *)
StepSample ==
  /\ ctl.running /\ view = NoView
  /\ view' = [flood |-> FloodTotal, ok |-> tracker.ok]
  /\ hist' = [hist EXCEPT !.unseen = 0, !.seen = hist.unseen,
                          !.calm = IF hist.unseen > 0 THEN 0
                                   ELSE IF hist.calm < QuietTicks THEN @ + 1 ELSE @]
  /\ UNCHANGED <<kv, tracker, limit, ctl, poll, mounts>>

Halved(cap) == IF cap \div 2 < MinCap THEN MinCap ELSE cap \div 2
Raised(cap) == IF cap + StepCap > MaxCap THEN MaxCap ELSE cap + StepCap

\* Mutant: manual mode is not looked at.
HandsOffPinned == ctl.pinned > 0

HandsOff == ctl.manual \/ ctl.pinned > 0

(* The decision, under the lock: quiet is the number of ticks since the    *)
(* last one that saw a flood.                                              *)
StepDecide ==
  LET flooded == view.flood - ctl.lastFlood > 0
      active == view.ok - ctl.lastOK # 0
      quiet == IF flooded THEN 0 ELSE IF ctl.quiet < QuietTicks THEN ctl.quiet + 1 ELSE ctl.quiet
      cap == IF HandsOff THEN ctl.cap
             ELSE IF flooded THEN Halved(ctl.cap)
             ELSE IF quiet >= QuietTicks /\ active THEN Raised(ctl.cap)
             ELSE ctl.cap
  IN  /\ view # NoView
      /\ view' = NoView
      /\ ctl' = [ctl EXCEPT !.lastFlood = view.flood, !.lastOK = view.ok,
                            !.quiet = quiet, !.cap = cap, !.first = FALSE]
      /\ limit' = IF cap = ctl.cap THEN limit ELSE cap
      /\ UNCHANGED <<kv, tracker, poll, mounts, hist>>

----------------------------------------------------------------------------
(* applyRateLimit, every five seconds: the mode first, then the pin under  *)
(* that mode; a change of mode applies the pin again.                      *)
Poll ==
  LET changed == kv.mode # poll.mode
      c == IF changed THEN SetManualMode(ctl, kv.mode = "manual") ELSE ctl
      l == IF changed THEN LimitOfMode(ctl, kv.mode = "manual") ELSE limit
      repin == changed \/ kv.pin # poll.pin
  IN  /\ ctl' = IF repin THEN SetPinnedUpload(c, kv.pin) ELSE c
      /\ limit' = IF repin THEN LimitOfPin(c, kv.pin) ELSE l
      /\ poll' = [pin |-> kv.pin, mode |-> kv.mode, settled |-> TRUE]
      /\ UNCHANGED <<kv, tracker, view, mounts, hist>>

(* telfs ratelimit, and the web form: stored, applied at the next poll.    *)
OperatorPins(n) ==
  /\ kv.pin # n
  /\ kv' = [kv EXCEPT !.pin = n]
  /\ poll' = [poll EXCEPT !.settled = FALSE]
  /\ UNCHANGED <<tracker, limit, ctl, view, mounts, hist>>

OperatorSwitches ==
  /\ kv' = [kv EXCEPT !.mode = IF kv.mode = "manual" THEN "adaptive" ELSE "manual"]
  /\ poll' = [poll EXCEPT !.settled = FALSE]
  /\ UNCHANGED <<tracker, limit, ctl, view, mounts, hist>>

(* persistStats, every minute and at shutdown.                             *)
Persist ==
  /\ kv' = [kv EXCEPT !.ok = tracker.ok, !.flood = tracker.flood]
  /\ UNCHANGED <<tracker, limit, ctl, view, poll, mounts, hist>>

(* The process ends, with or without a last save, and the next one mounts. *)
Remount ==
  /\ mounts < MaxMounts
  /\ mounts' = mounts + 1
  /\ tracker' = Seeded(kv)
  /\ limit' = 0
  /\ ctl' = NewController
  /\ view' = NoView
  /\ poll' = [pin |-> -1, mode |-> "unread", settled |-> FALSE]
  /\ hist' = [unseen |-> 0, seen |-> 0, calm |-> 0, seeded |-> kv.flood]
  /\ UNCHANGED kv

RateNext ==
  \/ \E lane \in Lanes : Begin(lane)
  \/ \E r \in tracker.pending, outcome \in {"ok", "flood", "error"} : End(r, outcome)
  \/ ControllerStarts \/ StepSample \/ StepDecide \/ Poll
  \/ \E n \in Pins : OperatorPins(n)
  \/ OperatorSwitches \/ Persist \/ Remount

RateSpec == RateInit /\ [][RateNext]_rateVars

----------------------------------------------------------------------------
(* Properties.                                                             *)

(* Once the poller has seen the operator's last word the limiter enforces  *)
(* it: the pin, or no limit in manual mode, and otherwise a cap between    *)
(* the floor and the ceiling that the controller also reports, whatever    *)
(* steps, pins and mode changes came in between (adaptive.go:93, 191).     *)
RateObeysOperator ==
  poll.settled =>
    IF kv.mode = "manual" \/ kv.pin > 0
    THEN limit = kv.pin
    ELSE limit = ctl.cap /\ ctl.cap \in MinCap..MaxCap

(* A step under adaptive control halves the cap exactly when Telegram      *)
(* answered an upload-lane request with FLOOD_WAIT since the last sample,  *)
(* also when the ring has lost the request.  The first step of a process   *)
(* is excused: it takes the seeded lifetime total for news                 *)
(* (adaptive.go:205, tracker.go:145, main.go:606).                         *)
CutIffFlooded ==
  [][StepDecide /\ ~(ctl.manual \/ ctl.pinned > 0) /\ ~(ctl.first /\ hist.seeded > 0)
       => (hist.seen > 0 <=> ctl'.cap < ctl.cap \/ (ctl.cap = MinCap /\ ctl'.quiet = 0))]_rateVars

(* A step raises the cap only after a full quiet window of this process    *)
(* without a flood on the upload lane, floods under a pin or in manual     *)
(* mode included (adaptive.go:79, 221, 250).                               *)
RaiseOnlyWhenQuiet ==
  [][StepDecide /\ ctl'.cap > ctl.cap => hist.calm >= QuietTicks]_rateVars
=============================================================================
