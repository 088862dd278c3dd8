------------------------------- MODULE Session -------------------------------
(***************************************************************************)
(* The Telegram side of a mounted daemon: the SessionManager that keeps    *)
(* one gotd client bound to a long-lived Session and replaces it           *)
(* (internal/tg/manager.go), the upload call with its retries              *)
(* (internal/tg/session.go), the flood-wait middleware it passes           *)
(* (floodwait.go), and the stall watchdog of cmd/telfs/main.go that asks   *)
(* the manager for a new connection.  Telegram itself is external: it      *)
(* posts a message once per random id, may answer FLOOD_WAIT and may stop  *)
(* answering (a wedged connection).                                        *)
(*                                                                         *)
(* Time is counted in samples of the watchdog (30 s); a duration is a      *)
(* number of samples still to run.                                         *)
(***************************************************************************)
EXTENDS Integers, Sequences, FiniteSets

CONSTANTS
  Uploads,            \* calls of UploadDocument
  Registered,         \* those that carry a Writer's chunk (UploadPool.Register)
  MaxAttempts,        \* uploadMaxAttempts
  MaxFloodWait,       \* the longest wait the middleware honours, in samples
  StallThreshold,     \* samples without a successful RPC that make a stall
  ReconnectCooldown,  \* samples between two forced reconnects
  FloodWaits,         \* waits Telegram may ask for, in samples
  MaxFaults           \* bound: failures of the network and of Telegram

ASSUME SessionConstants ==
  /\ Registered \subseteq Uploads
  /\ {MaxAttempts, StallThreshold, ReconnectCooldown} \subseteq Nat \ {0}
  /\ FloodWaits \subseteq Nat \ {0}
  /\ {MaxFloodWait, MaxFaults} \subseteq Nat

None == -1

VARIABLES
  mount,     \* cmdMount: "starting", "mounted" or "failed"
  mgr,       \* the manager's loop: where it is, why a run ended, first connect due
  api,       \* Session.api is set
  token,     \* the reconnect channel holds a request
  link,      \* the connection of the running client answers
  up,        \* the uploads
  chan,      \* the backing channel: the random id each message was sent with
  floodLeft, \* Tracker.floodUntil, from now
  dog,       \* the watchdog: samples stalled or None, cooldown, RPC succeeded
  faults

managerVars == <<mgr, api, token, link>>
sessionVars == <<mount, managerVars, up, chan, floodLeft, dog, faults>>

(* The RPCs that a nap of the flood-wait middleware may suspend.           *)
OnWire == {"parts", "send"}

NewDog == [stalled |-> None, cool |-> 0, ok |-> FALSE]

SessionInit ==
  /\ mount = "starting"
  /\ mgr = [pc |-> "dial", err |-> "none", first |-> TRUE]
  /\ api = FALSE /\ token = FALSE /\ link = TRUE
  /\ up = [u \in Uploads |->
            [pc |-> "idle", att |-> 0, bound |-> FALSE, left |-> None, id |-> 0]]
  /\ chan = << >>
  /\ floodLeft = 0
  /\ dog = NewDog
  /\ faults = 0

Fault == faults < MaxFaults /\ faults' = faults + 1

----------------------------------------------------------------------------
(* The manager.  A client is live from Connect to the moment its run       *)
(* returns; a caller that took the client before that keeps it and finds   *)
(* it closed afterwards.                                                   *)

Live == mgr.pc = "up"

RunReturns(err) ==
  /\ mgr' = [mgr EXCEPT !.pc = "ending", !.err = err]
  /\ up' = [u \in Uploads |-> [up[u] EXCEPT !.bound = FALSE]]

(* The top of the loop: a new client, an authorised session, swapAPI.      *)
Connect ==
  /\ mgr.pc = "dial"
  /\ mgr' = [mgr EXCEPT !.pc = "up", !.first = FALSE]
  /\ api' = TRUE /\ link' = TRUE
  /\ UNCHANGED <<mount, token, up, chan, floodLeft, dog, faults>>

(* session.json is gone or the login was revoked: the manager gives up.   *)
NotAuthorized ==
  /\ mgr.pc = "dial"
  /\ Fault
  /\ mgr' = [mgr EXCEPT !.pc = "gone"]
  /\ UNCHANGED <<mount, api, token, link, up, chan, floodLeft, dog>>

(* The connection cannot be made: fatal before the first connect, a        *)
(* back-off of five seconds after it.                                      *)
DialFails ==
  /\ mgr.pc = "dial"
  /\ Fault
  /\ mgr' = [mgr EXCEPT !.pc = IF mgr.first THEN "gone" ELSE "backoff"]
  /\ UNCHANGED <<mount, api, token, link, up, chan, floodLeft, dog>>

Drop ==
  /\ Live
  /\ Fault
  /\ RunReturns("drop")
  /\ UNCHANGED <<mount, api, token, link, chan, floodLeft, dog>>

TakeReconnect ==
  /\ Live
  /\ token
  /\ token' = FALSE
  /\ RunReturns("reconnect")
  /\ UNCHANGED <<mount, api, link, chan, floodLeft, dog, faults>>

Unbind ==
  /\ mgr.pc = "ending"
  /\ api' = FALSE
  /\ mgr' = [mgr EXCEPT !.pc = CASE mgr.err = "stop" -> "gone"
                                 [] mgr.err = "reconnect" -> "dial"
                                 [] OTHER -> "backoff",
                       !.err = "none"]
  /\ UNCHANGED <<mount, token, link, up, chan, floodLeft, dog, faults>>

BackoffOver ==
  /\ mgr.pc = "backoff"
  /\ mgr' = [mgr EXCEPT !.pc = "dial"]
  /\ UNCHANGED <<mount, api, token, link, up, chan, floodLeft, dog, faults>>

Manager == Connect \/ TakeReconnect \/ Unbind \/ BackoffOver

(* The server stops answering on the current connection.                   *)
Wedge ==
  /\ Live /\ link
  /\ Fault
  /\ link' = FALSE
  /\ UNCHANGED <<mount, mgr, api, token, up, chan, floodLeft, dog>>

----------------------------------------------------------------------------
(* cmdMount: wait for the first connect, then verify that the account can  *)
(* reach the channel; any failure stops the manager and the mount, and the *)
(* watchdog and what it asked for end with it.                             *)

StopManager ==
  /\ mount' = "failed"
  /\ dog' = NewDog /\ token' = FALSE
  /\ IF mgr.pc = "gone"
     THEN UNCHANGED <<mgr, up>>
     ELSE RunReturns("stop")

Preflight ==
  /\ mount = "starting" /\ ~mgr.first
  /\ \/ /\ api /\ Live /\ link
        /\ mount' = "mounted"
        /\ dog' = [dog EXCEPT !.ok = TRUE]
        /\ UNCHANGED <<mgr, token, up, faults>>
     \/ /\ ~(api /\ Live /\ link)
        /\ StopManager
        /\ UNCHANGED faults
     \/ /\ Fault                              \* a bot session, or no access
        /\ StopManager
  /\ UNCHANGED <<api, link, chan, floodLeft>>

FirstConnectFails ==
  /\ mount = "starting" /\ mgr.first /\ mgr.pc = "gone"
  /\ mount' = "failed"
  /\ UNCHANGED <<managerVars, up, chan, floodLeft, dog, faults>>

(* Unmount: the manager's context is cancelled after the final snapshot.   *)
Unmount ==
  /\ mount = "mounted"
  /\ StopManager
  /\ UNCHANGED <<api, link, chan, floodLeft, faults>>

----------------------------------------------------------------------------
(* What every RPC of an upload meets.                                      *)

Awake(who) == who.left = None
Answers(who) == who.bound /\ link /\ Awake(who)
Closed(who) == ~who.bound /\ Awake(who)

Later(a, b) == IF a > b THEN a ELSE b

\* Mutant: the last wait announced replaces a longer one.
FloodUntilLast(w) == w

(* Tracker.End extends the quiet period to the latest one announced.       *)
FloodUntil(w) == Later(floodLeft, w)

RPCSucceeds == dog' = [dog EXCEPT !.ok = TRUE]

----------------------------------------------------------------------------
(* UploadDocument.  One random id is drawn before the first attempt.       *)

\* Mutant: each attempt draws its own random id.
RandomIDPerAttempt(u, attempt) == <<u, attempt>>

RandomID(u, attempt) == <<u, 1>>

Posted(rid) == \E i \in 1..Len(chan) : chan[i] = rid

(* External: sendMedia posts one message per random id.                    *)
Post(rid) == IF Posted(rid) THEN chan ELSE Append(chan, rid)

(* External: what sendMedia answers.  An update that names the random id   *)
(* comes with updates about other new messages, in any order; it is left   *)
(* out only when the answer is about this message alone.                   *)
Answer(rid) ==
  LET own == CHOOSE i \in 1..Len(chan) : chan[i] = rid
      new(i) == [kind |-> "new", id |-> i, rid |-> << >>]
      named == [kind |-> "id", id |-> own, rid |-> rid]
  IN  {<<new(own)>>} \cup {<<new(i), named>> : i \in 1..Len(chan)}

(* The id in the first update at one of the positions S, 0 if there is none. *)
FirstOf(updates, S) ==
  IF S = {} THEN 0 ELSE updates[CHOOSE i \in S : \A j \in S : i <= j].id

(* The update naming the caller's random id, else the first new message.   *)
findIDByRandomID(updates, rid) ==
  LET named == {i \in 1..Len(updates) : updates[i].kind = "id" /\ updates[i].rid = rid}
      fresh == {i \in 1..Len(updates) : updates[i].kind = "new"}
  IN  IF named # {} THEN FirstOf(updates, named) ELSE FirstOf(updates, fresh)

(* The call returns: the id of the message, or an error (0).               *)
UpEnds(u, id) ==
  up' = [up EXCEPT ![u] = [pc |-> IF id = 0 THEN "failed" ELSE "done", att |-> 0,
                           bound |-> FALSE, left |-> None, id |-> id]]

(* cmdMount returns, and the process ends, once the manager has.           *)
Running == ~(mount = "failed" /\ mgr.pc = "gone")

UpActive(u) == up[u].pc \notin {"idle", "done", "failed"}

(* A failed attempt that is worth retrying: the next one after a back-off, *)
(* or the error once the attempts are used up.                             *)
Retriable(u) ==
  IF up[u].att < MaxAttempts
  THEN up' = [up EXCEPT ![u].pc = "backoff", ![u].att = @ + 1, ![u].bound = FALSE]
  ELSE UpEnds(u, 0)

UploadStart(u) ==
  /\ mount = "mounted" /\ up[u].pc = "idle"
  /\ up' = [up EXCEPT ![u].pc = "ready", ![u].att = 1]
  /\ UNCHANGED <<mount, managerVars, chan, floodLeft, dog, faults>>

(* tryUploadOnce takes the client the session holds, which may already be  *)
(* closed; without one the attempt fails with ErrNotConnected.             *)
TryOnce(u) ==
  /\ up[u].pc = "ready"
  /\ IF api
     THEN up' = [up EXCEPT ![u].pc = "parts", ![u].bound = Live]
     ELSE Retriable(u)
  /\ UNCHANGED <<mount, managerVars, chan, floodLeft, dog, faults>>

SaveParts(u) ==
  /\ up[u].pc = "parts" /\ Answers(up[u])
  /\ up' = [up EXCEPT ![u].pc = "send"]
  /\ RPCSucceeds
  /\ UNCHANGED <<mount, managerVars, chan, floodLeft, faults>>

SendMediaPosts(u) ==
  /\ up[u].pc = "send" /\ Answers(up[u])
  /\ chan' = Post(RandomID(u, up[u].att))
  /\ up' = [up EXCEPT ![u].pc = "sent"]
  /\ UNCHANGED <<mount, managerVars, floodLeft, dog, faults>>

SendMediaReturns(u) ==
  /\ up[u].pc = "sent" /\ Answers(up[u])
  /\ LET rid == RandomID(u, up[u].att)
     IN  \E updates \in Answer(rid) :
           UpEnds(u, findIDByRandomID(updates, rid))
  /\ RPCSucceeds
  /\ UNCHANGED <<mount, managerVars, chan, floodLeft, faults>>

ClientClosed(u) ==
  /\ up[u].pc \in {"parts", "send", "sent"} /\ Closed(up[u])
  /\ Retriable(u)
  /\ UNCHANGED <<mount, managerVars, chan, floodLeft, dog, faults>>

RetryDue(u) ==
  /\ up[u].pc = "backoff"
  /\ up' = [up EXCEPT ![u].pc = "ready"]
  /\ UNCHANGED <<mount, managerVars, chan, floodLeft, dog, faults>>

(* FLOOD_WAIT: the request sleeps and is sent again on the same client;    *)
(* a wait over the cap is an error no attempt follows.                     *)
UploadFlooded(u) ==
  /\ up[u].pc \in OnWire /\ Answers(up[u])
  /\ Fault
  /\ \E w \in FloodWaits :
       /\ floodLeft' = FloodUntil(w)
       /\ IF w > MaxFloodWait THEN UpEnds(u, 0) ELSE up' = [up EXCEPT ![u].left = w]
  /\ UNCHANGED <<mount, managerVars, chan, dog>>

UploadWakes(u) ==
  /\ up[u].left = 0
  /\ up' = [up EXCEPT ![u].left = None]
  /\ UNCHANGED <<mount, managerVars, chan, floodLeft, dog, faults>>

(* An error that is not on the allow-list, or the caller's context ends.   *)
UploadAborts(u) ==
  /\ UpActive(u) /\ Running
  /\ Fault
  /\ UpEnds(u, 0)
  /\ UNCHANGED <<mount, managerVars, chan, floodLeft, dog>>

UploadRuns(u) ==
  /\ Running
  /\ \/ TryOnce(u) \/ SaveParts(u) \/ SendMediaPosts(u) \/ SendMediaReturns(u)
     \/ ClientClosed(u) \/ RetryDue(u) \/ UploadWakes(u)

----------------------------------------------------------------------------
(* stallWatchdog, once per sample, with the time that has passed since the *)
(* last one.                                                               *)

Elapsed(n) == IF n > 0 THEN n - 1 ELSE n

(* pool.Pending.Total() > 0.  Snapshots, journal batches and the wires of   *)
(* recoverPending are uploaded without a reservation and do not count.      *)
Pending == \E u \in Registered : UpActive(u)

(* The verdict of a sample: [stalled, cool, ok] after it.                  *)
Sample(flood, cool) ==
  IF ~Pending \/ dog.ok
  THEN [stalled |-> None, cool |-> cool, ok |-> FALSE]
  ELSE IF flood > 0
  THEN [stalled |-> None, cool |-> cool, ok |-> FALSE]
  ELSE IF dog.stalled = None
  THEN [stalled |-> 0, cool |-> cool, ok |-> FALSE]
  ELSE IF dog.stalled + 1 < StallThreshold
  THEN [stalled |-> dog.stalled + 1, cool |-> cool, ok |-> FALSE]
  ELSE IF cool > 0
  THEN [stalled |-> dog.stalled, cool |-> cool, ok |-> FALSE]
  ELSE [stalled |-> None, cool |-> ReconnectCooldown, ok |-> FALSE]

\* Mutant: the watchdog asks only while no client is bound.
StalledUnbound(flood, cool) ==
  /\ Pending /\ ~dog.ok /\ flood = 0 /\ cool = 0 /\ ~api
  /\ dog.stalled # None /\ dog.stalled + 1 >= StallThreshold

Stalled(flood, cool) ==
  /\ Pending /\ ~dog.ok /\ flood = 0 /\ cool = 0
  /\ dog.stalled # None /\ dog.stalled + 1 >= StallThreshold

Watchdog ==
  LET flood == Elapsed(floodLeft)
      cool == Elapsed(dog.cool)
  IN  /\ mount = "mounted"
      /\ floodLeft' = flood
      /\ dog' = Sample(flood, cool)
      /\ token' = (token \/ Stalled(flood, cool))
      /\ up' = [u \in Uploads |-> [up[u] EXCEPT !.left = Elapsed(@)]]
      /\ UNCHANGED <<mount, mgr, api, link, chan, faults>>

----------------------------------------------------------------------------
SessionNext ==
  \/ Manager \/ NotAuthorized \/ DialFails \/ Drop \/ Wedge
  \/ Preflight \/ FirstConnectFails \/ Unmount \/ Watchdog
  \/ \E u \in Uploads :
       UploadStart(u) \/ UploadRuns(u) \/ UploadFlooded(u) \/ UploadAborts(u)

SessionSpec == SessionInit /\ [][SessionNext]_sessionVars

----------------------------------------------------------------------------
(* Properties.                                                             *)

(* An upload whose acknowledgement is lost is retried, and posts nothing   *)
(* twice; the id an upload returns is the message it posted, whatever      *)
(* other messages its answer mentions (session.go:379, 895).               *)
PostsExact ==
  /\ \A i, j \in 1..Len(chan) : chan[i][1] = chan[j][1] => i = j
  /\ \A u \in Uploads : up[u].pc = "done" => up[u].id \in 1..Len(chan) /\ chan[up[u].id][1] = u

(* The watchdog asks for no reconnect while a request sleeps through a     *)
(* wait Telegram imposed on it (main.go:1264, tracker.go:195).             *)
QuietDuringFlood ==
  [][token' /\ ~token => \A u \in Uploads : up'[u].left <= 0]_sessionVars

(* While the daemon runs every chunk upload a Writer registered ends, also  *)
(* one whose connection stops answering: the watchdog replaces the          *)
(* connection and the call fails or is retried (main.go:1253).  A snapshot, *)
(* a journal batch or a recovered wire that hangs alone is not promised     *)
(* this: with nothing registered the watchdog sees an idle daemon.          *)
UploadsSettle ==
  \A u \in Registered : UpActive(u) ~> ~UpActive(u) \/ mount = "failed"
=============================================================================
