---------------------------- MODULE TelegramProofs ----------------------------
(***************************************************************************)
(* Theorems about the three models of internal/tg: Session and RateControl *)
(* for any number of uploads, attempts, faults and restarts and any        *)
(* lengths of waits, thresholds, caps and windows; Documents for any       *)
(* document, any number of downloads and rotations and any byte range.     *)
(***************************************************************************)
EXTENDS Session, Documents, RateControl, SequenceTheorems, WellFoundedInduction, TLAPS

-----------------------------------------------------------------------------
(***************************************************************************)
(* Session                                                                 *)
(***************************************************************************)

UpStates == [pc : {"idle", "ready", "parts", "send", "sent", "backoff", "done", "failed"},
             att : Nat, bound : BOOLEAN, left : Nat \cup {None}, id : Nat]

Dogs == [stalled : Nat \cup {None}, cool : Nat, ok : BOOLEAN]

SessionTypeOK ==
  /\ up \in [Uploads -> UpStates]
  /\ chan \in Seq(Uploads \X {1})
  /\ floodLeft \in Nat
  /\ token \in BOOLEAN
  /\ dog \in Dogs

----------------------------------------------------------------------------
(* The inductive invariant.                                                *)

(* No request sleeps longer than the tracker knows of.                     *)
NapsWithinFlood == \A u \in Uploads : up[u].left <= floodLeft

(* No random id is on the channel twice.                                   *)
SentOnce == \A i, j \in 1..Len(chan) : chan[i] = chan[j] => i = j

(* An upload that has sent is on the channel, and one that has returned    *)
(* names the message with its random id.                                   *)
OnRecord ==
  \A u \in Uploads :
    /\ up[u].pc = "sent" => Posted(<<u, 1>>)
    /\ up[u].pc = "done" => up[u].id \in 1..Len(chan) /\ chan[up[u].id] = <<u, 1>>

SessionInv == SessionTypeOK /\ NapsWithinFlood /\ SentOnce /\ OnRecord

----------------------------------------------------------------------------
(* Steps of one upload.                                                    *)

(* A step that moves one upload, and lets the quiet period grow at most,   *)
(* keeps the invariant if what it returns is on the channel.               *)
LEMMA UploadStep ==
  ASSUME SessionInv, NEW u \in Uploads, NEW x \in UpStates,
         up' = [up EXCEPT ![u] = x], UNCHANGED <<chan, token>>,
         floodLeft' \in Nat, floodLeft' >= floodLeft, x.left <= floodLeft',
         x.pc = "sent" => up[u].pc = "sent",
         x.pc = "done" => x.id \in 1..Len(chan) /\ chan[x.id] = <<u, 1>>,
         dog' \in Dogs
  PROVE  SessionInv'
  <1>0. \A v \in Uploads : up'[v] = IF v = u THEN x ELSE up[v]
    BY DEF SessionInv, SessionTypeOK
  <1>1. SessionTypeOK'
    BY DEF SessionInv, SessionTypeOK
  <1>2. NapsWithinFlood'
    <2>1. \A v \in Uploads : up[v].left <= floodLeft /\ up[v].left \in Int
      BY DEF SessionInv, SessionTypeOK, NapsWithinFlood, UpStates, None
    <2> QED BY <1>0, <2>1 DEF SessionInv, SessionTypeOK, NapsWithinFlood
  <1>3. SentOnce'
    BY DEF SessionInv, SentOnce
  <1>4. OnRecord'
    BY <1>0, ZenonT(40) DEF SessionInv, OnRecord, Posted
  <1> QED BY <1>1, <1>2, <1>3, <1>4 DEF SessionInv

(* A step that touches neither uploads nor channel nor the quiet period    *)
(* keeps it too.                                                           *)
LEMMA OtherStep ==
  ASSUME SessionInv, UNCHANGED <<up, chan, floodLeft>>, token' \in BOOLEAN, dog' \in Dogs
  PROVE  SessionInv'
  BY DEF SessionInv, SessionTypeOK, NapsWithinFlood, SentOnce, OnRecord, Posted

(* The end of a client's run leaves its callers unbound.                   *)
LEMMA RunReturnsStep ==
  ASSUME SessionInv, NEW err, RunReturns(err), UNCHANGED <<chan, floodLeft>>,
         token' \in BOOLEAN, dog' \in Dogs
  PROVE  SessionInv'
  <1>0. \A v \in Uploads : /\ up'[v] \in UpStates /\ up'[v].pc = up[v].pc
                           /\ up'[v].left = up[v].left /\ up'[v].id = up[v].id
    BY DEF RunReturns, SessionInv, SessionTypeOK, UpStates
  <1>1. SessionTypeOK'
    BY <1>0 DEF RunReturns, SessionInv, SessionTypeOK
  <1>2. NapsWithinFlood' /\ SentOnce' /\ OnRecord'
    BY <1>0 DEF SessionInv, NapsWithinFlood, SentOnce, OnRecord, Posted
  <1> QED BY <1>1, <1>2 DEF SessionInv

(* A call that returns an error or the id of its message.                  *)
LEMMA UpEndsStep ==
  ASSUME SessionInv, NEW u \in Uploads, NEW id \in Nat, UpEnds(u, id),
         id # 0 => id \in 1..Len(chan) /\ chan[id] = <<u, 1>>,
         UNCHANGED <<chan, token>>, floodLeft' \in Nat, floodLeft' >= floodLeft, dog' \in Dogs
  PROVE  SessionInv'
  <1> DEFINE x == [pc |-> IF id = 0 THEN "failed" ELSE "done", att |-> 0,
                   bound |-> FALSE, left |-> None, id |-> id]
  <1>1. /\ x \in UpStates /\ x.left = -1 /\ x.pc # "sent" /\ x.id = id
        /\ x.pc = "done" => id # 0
    BY DEF UpStates, None
  <1>2. up' = [up EXCEPT ![u] = x]
    BY DEF UpEnds
  <1> HIDE DEF x
  <1>3. x.left <= floodLeft'
    BY <1>1
  <1> QED BY <1>1, <1>2, <1>3, UploadStep

(* An attempt that failed and may be followed by another.                  *)
LEMMA RetriableStep ==
  ASSUME SessionInv, NEW u \in Uploads, Retriable(u), UNCHANGED <<chan, token, floodLeft, dog>>
  PROVE  SessionInv'
  <1>0. up[u] \in UpStates
    BY DEF SessionInv, SessionTypeOK
  <1>1. CASE up[u].att < MaxAttempts
    <2> DEFINE x == [up[u] EXCEPT !.pc = "backoff", !.att = up[u].att + 1, !.bound = FALSE]
    <2>0. up[u].att + 1 \in Nat
      BY <1>0 DEF UpStates
    <2>1. x \in UpStates /\ x.left = up[u].left /\ x.pc = "backoff"
      BY <1>0, <2>0 DEF UpStates
    <2>2. up' = [up EXCEPT ![u] = x]
      BY <1>1 DEF Retriable, SessionInv, SessionTypeOK
    <2>3. x.left <= floodLeft' /\ floodLeft' \in Nat /\ floodLeft' >= floodLeft /\ dog' \in Dogs
      BY <2>1 DEF SessionInv, SessionTypeOK, NapsWithinFlood
    <2> HIDE DEF x
    <2> QED BY <2>1, <2>2, <2>3, UploadStep
  <1>2. CASE ~(up[u].att < MaxAttempts)
    BY <1>2, UpEndsStep DEF Retriable, SessionInv, SessionTypeOK
  <1> QED BY <1>1, <1>2

(* Steps that change the pc, the binding or the nap of one upload.         *)
LEMMA UploadMoves ==
  ASSUME SessionInv, NEW u \in Uploads,
         UploadStart(u) \/ TryOnce(u) \/ SaveParts(u) \/ RetryDue(u) \/ UploadWakes(u)
  PROVE  SessionInv'
  <1>0. /\ up[u] \in UpStates /\ up[u].left <= floodLeft /\ floodLeft \in Nat /\ dog \in Dogs
    BY DEF SessionInv, SessionTypeOK, NapsWithinFlood
  <1>1. CASE TryOnce(u) /\ ~api
    BY <1>1, RetriableStep DEF TryOnce, managerVars
  <1>2. CASE ~(TryOnce(u) /\ ~api)
    <2> DEFINE x == up'[u]
    <2>1. /\ up' = [up EXCEPT ![u] = x] /\ x \in UpStates
          /\ x.pc \in {"ready", "parts", "send", up[u].pc} /\ x.id = up[u].id
          /\ x.left = up[u].left \/ x.left = None
      <3>1. CASE UploadStart(u)
        <4>1. up' = [up EXCEPT ![u] = [up[u] EXCEPT !.pc = "ready", !.att = 1]]
          BY <3>1 DEF UploadStart, SessionInv, SessionTypeOK
        <4> QED BY <1>0, <4>1 DEF SessionInv, SessionTypeOK, UpStates
      <3>2. CASE TryOnce(u)
        <4>1. up' = [up EXCEPT ![u] = [up[u] EXCEPT !.pc = "parts", !.bound = Live]]
          BY <1>2, <3>2 DEF TryOnce, SessionInv, SessionTypeOK
        <4> QED BY <1>0, <4>1 DEF SessionInv, SessionTypeOK, UpStates, Live
      <3>3. CASE SaveParts(u)
        <4>1. up' = [up EXCEPT ![u] = [up[u] EXCEPT !.pc = "send"]]
          BY <3>3 DEF SaveParts, SessionInv, SessionTypeOK
        <4> QED BY <1>0, <4>1 DEF SessionInv, SessionTypeOK, UpStates
      <3>4. CASE RetryDue(u)
        <4>1. up' = [up EXCEPT ![u] = [up[u] EXCEPT !.pc = "ready"]]
          BY <3>4 DEF RetryDue, SessionInv, SessionTypeOK
        <4> QED BY <1>0, <4>1 DEF SessionInv, SessionTypeOK, UpStates
      <3>5. CASE UploadWakes(u)
        <4>1. up' = [up EXCEPT ![u] = [up[u] EXCEPT !.left = None]]
          BY <3>5 DEF UploadWakes, SessionInv, SessionTypeOK
        <4> QED BY <1>0, <4>1 DEF SessionInv, SessionTypeOK, UpStates
      <3> QED BY <3>1, <3>2, <3>3, <3>4, <3>5
    <2>2. UNCHANGED <<chan, token, floodLeft>> /\ dog' \in Dogs
      BY <1>0 DEF UploadStart, TryOnce, SaveParts, RetryDue, UploadWakes, RPCSucceeds,
         managerVars, Dogs
    <2>3. x.left <= floodLeft'
      BY <1>0, <2>1, <2>2 DEF None
    <2>4. x.pc = "done" => x.id \in 1..Len(chan) /\ chan[x.id] = <<u, 1>>
      BY <2>1 DEF SessionInv, OnRecord
    <2> HIDE DEF x
    <2>5. floodLeft' \in Nat /\ floodLeft' >= floodLeft
      BY <1>0, <2>2
    <2> QED BY <2>1, <2>2, <2>3, <2>4, <2>5, UploadStep
  <1> QED BY <1>1, <1>2

(* sendMedia posts the message unless its random id is known.              *)
LEMMA SendMediaPostsStep ==
  ASSUME SessionInv, NEW u \in Uploads, SendMediaPosts(u)
  PROVE  SessionInv'
  <1> DEFINE rid == <<u, 1>>
  <1>0. /\ up[u] \in UpStates /\ chan \in Seq(Uploads \X {1}) /\ rid \in Uploads \X {1}
        /\ up' = [up EXCEPT ![u] = [up[u] EXCEPT !.pc = "sent"]]
        /\ UNCHANGED <<token, floodLeft, dog>>
    BY DEF SessionInv, SessionTypeOK, SendMediaPosts, managerVars
  <1>1. chan' = IF Posted(rid) THEN chan ELSE Append(chan, rid)
    BY DEF SendMediaPosts, Post, RandomID
  <1> HIDE DEF rid
  <1>2. /\ chan' \in Seq(Uploads \X {1})
        /\ 1..Len(chan) \subseteq 1..Len(chan')
        /\ \A i \in 1..Len(chan) : chan'[i] = chan[i]
        /\ \E i \in 1..Len(chan') : chan'[i] = rid
        /\ SentOnce'
    <2>1. CASE Posted(rid)
      BY <1>0, <1>1, <2>1 DEF Posted, SessionInv, SentOnce
    <2>2. CASE ~Posted(rid)
      <3>1. /\ chan' \in Seq(Uploads \X {1}) /\ Len(chan') = Len(chan) + 1
            /\ \A i \in 1..Len(chan) : chan'[i] = chan[i]
            /\ chan'[Len(chan) + 1] = rid
        BY <1>0, <1>1, <2>2
      <3>2. \A i \in 1..Len(chan) : chan[i] # rid
        BY <2>2 DEF Posted
      <3>3. Len(chan) \in Nat
        BY <1>0
      <3>4. 1..Len(chan') = 1..Len(chan) \cup {Len(chan) + 1}
        BY <3>1, <3>3
      <3>5. SentOnce'
        BY <3>1, <3>2, <3>3, <3>4 DEF SessionInv, SentOnce
      <3> QED BY <3>1, <3>4, <3>5
    <2> QED BY <2>1, <2>2
  <1>3. \A v \in Uploads : /\ up'[v] \in UpStates /\ up'[v].left = up[v].left
                           /\ up'[v].id = up[v].id
                           /\ up'[v].pc = IF v = u THEN "sent" ELSE up[v].pc
    BY <1>0 DEF SessionInv, SessionTypeOK, UpStates
  <1>4. SessionTypeOK'
    BY <1>0, <1>2, <1>3 DEF SessionInv, SessionTypeOK
  <1>5. NapsWithinFlood'
    BY <1>0, <1>3 DEF SessionInv, NapsWithinFlood
  <1>6. OnRecord'
    <2>1. Posted(rid)'
      BY <1>2 DEF Posted
    <2>2. \A v \in Uploads : Posted(<<v, 1>>) => Posted(<<v, 1>>)'
      BY <1>2 DEF Posted
    <2> QED BY <1>2, <1>3, <2>1, <2>2 DEF SessionInv, OnRecord, rid
  <1> QED BY <1>2, <1>4, <1>5, <1>6 DEF SessionInv

(* The first update at one of a set of positions that has a single one.    *)
LEMMA FirstOfOne ==
  ASSUME NEW updates, NEW k \in Nat
  PROVE  FirstOf(updates, {k}) = updates[k].id
  <1>1. (CHOOSE i \in {k} : \A j \in {k} : i <= j) = k
    OBVIOUS
  <1> QED BY <1>1 DEF FirstOf

(* The answer names the message with the caller's random id, or mentions   *)
(* no other.                                                               *)
LEMMA FindsOwn ==
  ASSUME NEW rid, rid # << >>, Posted(rid), chan \in Seq(Uploads \X {1}),
         NEW updates \in Answer(rid)
  PROVE  LET id == findIDByRandomID(updates, rid)
         IN  id \in 1..Len(chan) /\ chan[id] = rid
  <1> DEFINE own == CHOOSE i \in 1..Len(chan) : chan[i] = rid
             new(i) == [kind |-> "new", id |-> i, rid |-> << >>]
             name == [kind |-> "id", id |-> own, rid |-> rid]
             named == {i \in 1..Len(updates) : updates[i].kind = "id" /\ updates[i].rid = rid}
             fresh == {i \in 1..Len(updates) : updates[i].kind = "new"}
  <1>1. own \in 1..Len(chan) /\ chan[own] = rid
    BY DEF Posted
  <1>2. findIDByRandomID(updates, rid) = IF named # {} THEN FirstOf(updates, named)
                                         ELSE FirstOf(updates, fresh)
    BY DEF findIDByRandomID
  <1>3. updates = <<new(own)>> \/ \E i \in 1..Len(chan) : updates = <<new(i), name>>
    BY DEF Answer
  <1> HIDE DEF own
  <1>4. CASE updates = <<new(own)>>
    <2>1. Len(updates) = 1 /\ updates[1] = new(own)
      BY <1>4
    <2>2. named = {} /\ fresh = {1}
      BY <2>1
    <2> QED BY <1>1, <1>2, <2>1, <2>2, FirstOfOne
  <1>5. ASSUME NEW i \in 1..Len(chan), updates = <<new(i), name>>
        PROVE  findIDByRandomID(updates, rid) = own
    <2>1. Len(updates) = 2 /\ updates[1] = new(i) /\ updates[2] = name
      BY <1>5
    <2>2. named = {2}
      BY <2>1
    <2> QED BY <1>2, <2>1, <2>2, FirstOfOne
  <1> QED BY <1>1, <1>3, <1>4, <1>5

(* The call returns the message it posted.                                 *)
LEMMA SendMediaReturnsStep ==
  ASSUME SessionInv, NEW u \in Uploads, SendMediaReturns(u)
  PROVE  SessionInv'
  <1>1. PICK updates \in Answer(<<u, 1>>) : UpEnds(u, findIDByRandomID(updates, <<u, 1>>))
    BY DEF SendMediaReturns, RandomID
  <1> DEFINE id == findIDByRandomID(updates, <<u, 1>>)
  <1>2. Posted(<<u, 1>>) /\ chan \in Seq(Uploads \X {1})
    BY DEF SendMediaReturns, SessionInv, SessionTypeOK, OnRecord
  <1>3. id \in 1..Len(chan) /\ chan[id] = <<u, 1>>
    <2>1. <<u, 1>> # << >>
      OBVIOUS
    <2> QED BY <1>2, <2>1, FindsOwn
  <1>4. UNCHANGED <<chan, token, floodLeft>> /\ dog' \in Dogs
    BY DEF SendMediaReturns, managerVars, RPCSucceeds, SessionInv, SessionTypeOK, Dogs
  <1>6. floodLeft' \in Nat /\ floodLeft' >= floodLeft
    BY <1>4 DEF SessionInv, SessionTypeOK
  <1> HIDE DEF id
  <1>5. id \in Nat
    BY <1>2, <1>3
  <1> QED BY <1>1, <1>3, <1>4, <1>5, <1>6, UpEndsStep DEF id

(* FLOOD_WAIT puts a request to sleep and extends the quiet period.        *)
LEMMA UploadFloodedStep ==
  ASSUME SessionInv, NEW u \in Uploads, UploadFlooded(u)
  PROVE  SessionInv'
  <1>0. up[u] \in UpStates /\ floodLeft \in Nat /\ dog \in Dogs
    BY DEF SessionInv, SessionTypeOK
  <1>1. PICK w \in FloodWaits :
          /\ floodLeft' = FloodUntil(w)
          /\ IF w > MaxFloodWait THEN UpEnds(u, 0) ELSE up' = [up EXCEPT ![u].left = w]
    BY DEF UploadFlooded
  <1>2. w \in Nat
    BY SessionConstants
  <1>3. floodLeft' \in Nat /\ floodLeft' >= floodLeft /\ w <= floodLeft'
    BY <1>0, <1>1, <1>2 DEF FloodUntil, Later
  <1>4. UNCHANGED <<chan, token, dog>> /\ up[u].pc \in OnWire
    BY DEF UploadFlooded, managerVars
  <1>5. CASE w > MaxFloodWait
    BY <1>0, <1>1, <1>3, <1>4, <1>5, UpEndsStep
  <1>6. CASE ~(w > MaxFloodWait)
    <2> DEFINE x == [up[u] EXCEPT !.left = w]
    <2>1. up' = [up EXCEPT ![u] = x]
      BY <1>1, <1>6 DEF SessionInv, SessionTypeOK
    <2>2. x \in UpStates /\ x.left = w /\ x.pc = up[u].pc
      BY <1>0, <1>2 DEF UpStates
    <2>3. x.pc # "done"
      BY <1>4, <2>2 DEF OnWire
    <2> HIDE DEF x
    <2> QED BY <1>0, <1>3, <1>4, <2>1, <2>2, <2>3, UploadStep
  <1> QED BY <1>5, <1>6

(* A sample of the watchdog lets the same time pass for the naps and the   *)
(* quiet period.                                                           *)
LEMMA WatchdogStep ==
  ASSUME SessionInv, Watchdog
  PROVE  SessionInv'
  <1>0. \A n \in Nat \cup {None} : Elapsed(n) \in Nat \cup {None}
                                   /\ (n \in Nat => Elapsed(n) \in Nat)
    BY DEF Elapsed, None
  <1>1. \A m, n \in Nat \cup {None} : m <= n => Elapsed(m) <= Elapsed(n)
    BY DEF Elapsed, None
  <1>2. /\ floodLeft' = Elapsed(floodLeft) /\ chan' = chan
        /\ up' = [u \in Uploads |-> [up[u] EXCEPT !.left = Elapsed(@)]]
        /\ dog' = Sample(Elapsed(floodLeft), Elapsed(dog.cool))
        /\ token' \in BOOLEAN
    BY DEF Watchdog
  <1>3. \A u \in Uploads : /\ up'[u] \in UpStates /\ up'[u].pc = up[u].pc
                           /\ up'[u].left = Elapsed(up[u].left) /\ up'[u].id = up[u].id
    BY <1>0, <1>2 DEF SessionInv, SessionTypeOK, UpStates
  <1>4. dog' \in Dogs
    <2>1. dog.stalled \in Nat \cup {None} /\ Elapsed(dog.cool) \in Nat
      BY <1>0 DEF SessionInv, SessionTypeOK, Dogs
    <2>2. ReconnectCooldown \in Nat
      BY SessionConstants
    <2> QED BY <1>2, <2>1, <2>2 DEF Sample, Dogs, None
  <1>5. SessionTypeOK'
    BY <1>0, <1>2, <1>3, <1>4 DEF SessionInv, SessionTypeOK
  <1>6. NapsWithinFlood'
    <2>1. \A u \in Uploads : up[u].left \in Nat \cup {None} /\ up[u].left <= floodLeft
      BY DEF SessionInv, SessionTypeOK, UpStates, NapsWithinFlood
    <2> QED BY <1>1, <1>2, <1>3, <2>1 DEF SessionInv, SessionTypeOK, NapsWithinFlood
  <1>7. SentOnce' /\ OnRecord'
    BY <1>2, <1>3 DEF SessionInv, SentOnce, OnRecord, Posted
  <1> QED BY <1>5, <1>6, <1>7 DEF SessionInv

----------------------------------------------------------------------------
(* Theorems.                                                               *)

(* Every step keeps the invariant.                                         *)
LEMMA SessionStep ==
  ASSUME SessionInv, SessionNext
  PROVE  SessionInv'
  <1>0. dog \in Dogs /\ token \in BOOLEAN /\ NewDog \in Dogs /\ [dog EXCEPT !.ok = TRUE] \in Dogs
        /\ floodLeft \in Nat
    BY DEF SessionInv, SessionTypeOK, Dogs, NewDog, None
  <1>1. CASE Connect \/ Unbind \/ BackoffOver \/ NotAuthorized \/ DialFails \/ Wedge
             \/ FirstConnectFails
    BY <1>0, <1>1, OtherStep DEF Connect, Unbind, BackoffOver, NotAuthorized, DialFails, Wedge,
       FirstConnectFails, managerVars
  <1>2. CASE Drop \/ TakeReconnect
    BY <1>0, <1>2, RunReturnsStep DEF Drop, TakeReconnect
  <1>3. ASSUME StopManager, UNCHANGED <<chan, floodLeft>> PROVE SessionInv'
    BY <1>0, <1>3, OtherStep, RunReturnsStep DEF StopManager
  <1>4. CASE Preflight \/ Unmount
    <2>1. CASE StopManager
      BY <1>3, <1>4, <2>1 DEF Preflight, Unmount
    <2>2. CASE ~StopManager
      BY <1>0, <1>4, <2>2, OtherStep DEF Preflight, Unmount
    <2> QED BY <2>1, <2>2
  <1>5. ASSUME NEW u \in Uploads, ClientClosed(u) PROVE SessionInv'
    BY <1>5, RetriableStep DEF ClientClosed, managerVars
  <1>6. ASSUME NEW u \in Uploads, UploadAborts(u) PROVE SessionInv'
    BY <1>0, <1>6, UpEndsStep DEF UploadAborts, managerVars
  <1>7. ASSUME NEW u \in Uploads, UploadStart(u) \/ UploadRuns(u) \/ UploadFlooded(u) PROVE SessionInv'
    BY <1>5, <1>7, UploadMoves, SendMediaPostsStep, SendMediaReturnsStep, UploadFloodedStep
       DEF UploadRuns
  <1> QED BY <1>1, <1>2, <1>4, <1>6, <1>7, WatchdogStep DEF SessionNext, Manager

(* The invariant holds of every behaviour.                                 *)
THEOREM SessionInvariant == SessionSpec => []SessionInv
  <1>1. SessionInit => SessionInv
    <2> SUFFICES ASSUME SessionInit PROVE SessionInv
      OBVIOUS
    <2>1. up \in [Uploads -> UpStates] /\ dog \in Dogs
      BY DEF SessionInit, UpStates, Dogs, NewDog, None
    <2>2. \A u \in Uploads : up[u].pc = "idle" /\ up[u].left = -1
      BY DEF SessionInit, None
    <2>3. chan = << >> /\ chan \in Seq(Uploads \X {1}) /\ Len(chan) = 0
      BY DEF SessionInit
    <2>4. SessionTypeOK
      BY <2>1, <2>3 DEF SessionInit, SessionTypeOK
    <2> QED BY <2>2, <2>3, <2>4 DEF SessionInit, SessionInv, NapsWithinFlood, SentOnce, OnRecord
  <1>2. SessionInv /\ [SessionNext]_sessionVars => SessionInv'
    <2>1. ASSUME SessionInv, UNCHANGED sessionVars PROVE SessionInv'
      BY <2>1, OtherStep DEF SessionInv, SessionTypeOK, sessionVars, managerVars
    <2> QED BY <2>1, SessionStep
  <1> QED BY <1>1, <1>2, PTL DEF SessionSpec

(* However often its acknowledgement is lost, an upload posts one message, *)
(* and the id it returns is that message's.                                *)
THEOREM UploadsPostOnce == SessionSpec => []PostsExact
  <1>1. SessionInv => PostsExact
    <2> SUFFICES ASSUME SessionInv PROVE PostsExact
      OBVIOUS
    <2>1. \A i \in 1..Len(chan) : \E u \in Uploads : chan[i] = <<u, 1>>
      BY DEF SessionInv, SessionTypeOK
    <2>2. \A i, j \in 1..Len(chan) : chan[i][1] = chan[j][1] => i = j
      BY <2>1 DEF SessionInv, SentOnce
    <2>3. \A u \in Uploads : up[u].pc = "done" => up[u].id \in 1..Len(chan) /\ chan[up[u].id][1] = u
      <3>1. ASSUME NEW u \in Uploads, up[u].pc = "done"
            PROVE  up[u].id \in 1..Len(chan) /\ chan[up[u].id] = <<u, 1>>
        BY <3>1 DEF SessionInv, OnRecord
      <3>2. \A u \in Uploads : <<u, 1>>[1] = u
        OBVIOUS
      <3> QED BY <3>1, <3>2
    <2> QED BY <2>2, <2>3 DEF PostsExact
  <1> QED BY <1>1, SessionInvariant, PTL

(* The watchdog never forces a reconnect on a request that sleeps through  *)
(* a wait Telegram imposed.                                                *)
THEOREM WatchdogIsPatient == SessionSpec => QuietDuringFlood
  <1>1. SessionInv' /\ [SessionNext]_sessionVars =>
          [token' /\ ~token => \A u \in Uploads : up'[u].left <= 0]_sessionVars
    <2> SUFFICES ASSUME SessionInv', [SessionNext]_sessionVars, token', ~token
                 PROVE  \A u \in Uploads : up'[u].left <= 0
      OBVIOUS
    <2>1. Watchdog
      BY DEF SessionNext, Manager, Connect, Unbind, BackoffOver, NotAuthorized, DialFails,
         Wedge, FirstConnectFails, Drop, TakeReconnect, StopManager, Preflight, Unmount,
         UploadStart, UploadRuns, UploadFlooded, UploadAborts, TryOnce, SaveParts,
         SendMediaPosts, SendMediaReturns, ClientClosed, RetryDue, UploadWakes,
         sessionVars, managerVars
    <2>2. floodLeft' = 0
      BY <2>1 DEF Watchdog, Stalled
    <2> QED BY <2>2 DEF SessionInv, NapsWithinFlood
  <1> QED BY <1>1, SessionInvariant, PTL DEF QuietDuringFlood, SessionSpec

-----------------------------------------------------------------------------
(***************************************************************************)
(* Documents                                                               *)
(***************************************************************************)

DocumentsSpec == DocumentsInit /\ [][DocumentsNext]_documentVars

Fields == {"pc", "ref", "retried", "off", "len", "got", "out", "rotated"}

(* A retry works with the reference of a moment of the call: if that one   *)
(* is stale by now, the rotation was during the call.                      *)
RetryFresh ==
  \A d \in Calls :
    /\ down[d].pc = "store" /\ down[d].ref # fileRef => down[d].rotated
    /\ down[d].pc = "get" /\ down[d].retried /\ down[d].ref # fileRef => down[d].rotated

DocumentsInv ==
  /\ DOMAIN down = Calls /\ down = [d \in Calls |-> down[d]]
  /\ \A d \in Calls : DOMAIN down[d] = Fields
  /\ RetryFresh /\ ExpiredOnlyIfRotated

(* What a step may make of the call d.                                     *)
Goes(d, x) ==
  /\ down' = [down EXCEPT ![d] = x] /\ DOMAIN x = Fields
  /\ (x.pc = "store" \/ (x.pc = "get" /\ x.retried)) /\ x.ref # fileRef' => x.rotated
  /\ x.pc = "expired" => x.rotated

LEMMA CallStep ==
  ASSUME DocumentsInv, NEW d \in Calls, NEW x, Goes(d, x), fileRef' = fileRef
  PROVE  DocumentsInv'
  BY DEF DocumentsInv, Goes, RetryFresh, ExpiredOnlyIfRotated

LEMMA IdleFields == /\ DOMAIN Idle = Fields /\ Idle.pc = "idle" /\ ~Idle.retried /\ ~Idle.rotated
  BY DEF Idle, Fields

LEMMA DocumentsStep ==
  ASSUME DocumentsInv, [DocumentsNext]_documentVars
  PROVE  DocumentsInv'
  <1>0. /\ \A d \in Calls : DOMAIN down[d] = Fields
        /\ DOMAIN down = Calls
    BY DEF DocumentsInv
  <1>1. ASSUME NEW d \in Calls, FetchDocument(d) PROVE DocumentsInv'
    <2> PICK pc : pc = IF docCache # NoDoc THEN "get" ELSE "refresh"
      OBVIOUS
    <2>1. PICK off, len : down' = [down EXCEPT ![d] = [Idle EXCEPT !.pc = pc,
                                             !.ref = docCache, !.off = off, !.len = len]]
      BY <1>1 DEF FetchDocument
    <2> PICK x : x = [Idle EXCEPT !.pc = pc, !.ref = docCache, !.off = off, !.len = len]
      OBVIOUS
    <2>2. DOMAIN x = Fields /\ x.pc = pc /\ ~x.retried
      BY IdleFields DEF Idle, Fields
    <2>3. Goes(d, x)
      BY <2>1, <2>2 DEF Goes
    <2> QED BY <1>1, <2>3, CallStep DEF FetchDocument
  <1>2. ASSUME NEW d \in Calls, MessageReturns(d) PROVE DocumentsInv'
    <2> PICK x : x = [down[d] EXCEPT !.pc = "store", !.ref = fileRef]
      OBVIOUS
    <2>1. DOMAIN x = Fields /\ x.pc = "store" /\ x.ref = fileRef
      BY <1>0 DEF Fields
    <2>2. down' = [down EXCEPT ![d] = x] /\ fileRef' = fileRef
      BY <1>0, <1>2 DEF MessageReturns
    <2> QED BY <2>1, <2>2, CallStep DEF Goes
  <1>3. ASSUME NEW d \in Calls, StoreDocument(d) PROVE DocumentsInv'
    <2> PICK x : x = [down[d] EXCEPT !.pc = "get"]
      OBVIOUS
    <2>1. DOMAIN x = Fields /\ x.pc = "get" /\ x.ref = down[d].ref /\ x.rotated = down[d].rotated
      BY <1>0 DEF Fields
    <2>2. down' = [down EXCEPT ![d] = x] /\ fileRef' = fileRef /\ down[d].pc = "store"
      BY <1>0, <1>3 DEF StoreDocument
    <2>3. Goes(d, x)
      BY <2>1, <2>2 DEF Goes, DocumentsInv, RetryFresh
    <2> QED BY <2>2, <2>3, CallStep
  <1>4. ASSUME NEW d \in Calls, NEW out, NEW got, fileRef' = fileRef,
               \/ down' = [down EXCEPT ![d].pc = "done", ![d].out = out]
               \/ down' = [down EXCEPT ![d].pc = "done", ![d].got = got, ![d].out = out]
        PROVE  DocumentsInv'
    <2> PICK x : x = [down[d] EXCEPT !.pc = "done", !.out = out]
      OBVIOUS
    <2> PICK y : y = [down[d] EXCEPT !.pc = "done", !.got = got, !.out = out]
      OBVIOUS
    <2>1. DOMAIN x = Fields /\ x.pc = "done" /\ DOMAIN y = Fields /\ y.pc = "done"
      BY <1>0 DEF Fields
    <2>2. Goes(d, x) \/ Goes(d, y)
      BY <1>0, <1>4, <2>1 DEF Goes
    <2> QED BY <1>4, <2>2, CallStep
  <1>5. ASSUME NEW d \in Calls, PartReturns(d) PROVE DocumentsInv'
    <2>1. PICK i : down' = [down EXCEPT ![d].got = @ \cup {i}] /\ down[d].pc = "get"
                   /\ down[d].ref = fileRef /\ fileRef' = fileRef
      BY <1>5 DEF PartReturns
    <2> PICK x : x = [down[d] EXCEPT !.got = down[d].got \cup {i}]
      OBVIOUS
    <2>2. DOMAIN x = Fields /\ x.pc = "get" /\ x.ref = fileRef
      BY <1>0, <2>1 DEF Fields
    <2>3. Goes(d, x)
      BY <1>0, <2>1, <2>2 DEF Goes
    <2> QED BY <2>1, <2>3, CallStep
  <1>6. ASSUME NEW d \in Calls, ReferenceExpired(d) PROVE DocumentsInv'
    <2>0. down[d].pc = "get" /\ down[d].ref # fileRef /\ fileRef' = fileRef
      BY <1>6 DEF ReferenceExpired
    <2>1. CASE down[d].retried
      <3> PICK x : x = [down[d] EXCEPT !.pc = "expired"]
        OBVIOUS
      <3>1. DOMAIN x = Fields /\ x.pc = "expired" /\ x.rotated = down[d].rotated
        BY <1>0 DEF Fields
      <3>2. down[d].rotated
        BY <2>0, <2>1 DEF DocumentsInv, RetryFresh
      <3>3. down' = [down EXCEPT ![d] = x]
        BY <1>0, <1>6, <2>1 DEF ReferenceExpired
      <3> QED BY <2>0, <3>1, <3>2, <3>3, CallStep DEF Goes
    <2>2. CASE ~down[d].retried
      <3> PICK x : x = AfterExpiry(d)
        OBVIOUS
      <3>1. DOMAIN x = Fields /\ x.pc = "refresh"
        BY <1>0 DEF Fields, AfterExpiry
      <3>2. down' = [down EXCEPT ![d] = x]
        BY <1>6, <2>2 DEF ReferenceExpired
      <3> QED BY <2>0, <3>1, <3>2, CallStep DEF Goes
    <2> QED BY <2>1, <2>2
  <1>7. ASSUME NEW d \in Calls, DownloadFails(d) PROVE DocumentsInv'
    <2> PICK x : x = [Idle EXCEPT !.pc = "failed"]
      OBVIOUS
    <2>1. DOMAIN x = Fields /\ x.pc = "failed"
      BY IdleFields DEF Idle, Fields
    <2> QED BY <1>7, <2>1, CallStep DEF Goes, DownloadFails
  <1>8. ASSUME NEW d \in Calls, DownloadAgain(d) PROVE DocumentsInv'
    <2> PICK x : x = Idle
      OBVIOUS
    <2> QED BY <1>8, IdleFields, CallStep DEF Goes, DownloadAgain
  <1>9. CASE RotateReference
    <2>1. \A d \in Calls : down'[d] = [down[d] EXCEPT !.rotated =
             down[d].rotated \/ down[d].pc \in {"refresh", "store", "get"}]
      BY <1>9 DEF RotateReference
    <2>2. \A d \in Calls : /\ down'[d].pc = down[d].pc /\ DOMAIN down'[d] = Fields
                           /\ down[d].rotated => down'[d].rotated
                           /\ down[d].pc \in {"refresh", "store", "get"} => down'[d].rotated
      BY <1>0, <2>1, ZenonT(40) DEF Fields
    <2>3. DOMAIN down' = Calls /\ down' = [d \in Calls |-> down'[d]]
      BY <1>9 DEF RotateReference
    <2> QED BY <2>2, <2>3 DEF DocumentsInv, RetryFresh, ExpiredOnlyIfRotated
  <1>10. CASE UNCHANGED <<down, fileRef>>
    BY <1>10 DEF DocumentsInv, RetryFresh, ExpiredOnlyIfRotated
  <1>11. ASSUME NEW d \in Calls, WholeReturns(d) \/ RangeReturns(d) PROVE DocumentsInv'
    BY <1>4, <1>11 DEF WholeReturns, RangeReturns
  <1> QED BY <1>1, <1>2, <1>3, <1>5, <1>6, <1>7, <1>8, <1>9, <1>10, <1>11
          DEF DocumentsNext, documentVars, DocumentAges

(* A download reports FILE_REFERENCE_EXPIRED only when the reference was   *)
(* rotated during the call, for any number of downloads and rotations.     *)
THEOREM ExpiredIsRotated == DocumentsSpec => []ExpiredOnlyIfRotated
  <1>1. DocumentsInit => DocumentsInv
    BY IdleFields DEF DocumentsInit, DocumentsInv, RetryFresh, ExpiredOnlyIfRotated
  <1>2. DocumentsInv /\ [DocumentsNext]_documentVars => DocumentsInv'
    BY DocumentsStep
  <1>3. DocumentsInv => ExpiredOnlyIfRotated
    BY DEF DocumentsInv
  <1> QED BY <1>1, <1>2, <1>3, PTL DEF DocumentsSpec

-----------------------------------------------------------------------------
(* The bytes of a range *)

\* The least-number principle, for a set of numbers.
LEMMA Smallest ==
  ASSUME NEW T \in SUBSET Nat, T # {}
  PROVE  \E m \in T : \A n \in T : m <= n
  <1> DEFINE R == OpToRel(<, Nat)
  <1>1. IsWellFoundedOn(R, Nat)
    BY NatLessThanWellFounded
  <1>2. \A x, y \in Nat : x < y => <<x, y>> \in R
    BY DEF OpToRel
  <1> HIDE DEF R
  <1>3. PICK x \in T : \A y \in T : ~(<<y, x>> \in R)
    BY <1>1, WFMin
  <1>4. \A y \in T : y \in Nat /\ ~(y < x)
    BY <1>2, <1>3
  <1>5. \A y \in T : x <= y
    BY <1>4
  <1> QED BY <1>5


LEMMA Division ==
  ASSUME NEW n \in Nat, NEW m \in Nat \ {0}
  PROVE  n \div m \in Nat /\ n = m * (n \div m) + (n % m) /\ n % m \in 0 .. m - 1
  OBVIOUS

LEMMA NextBoundary ==
  ASSUME NEW n \in Nat, NEW m \in Nat \ {0}
  PROVE  n < (n \div m + 1) * m /\ (n \div m + 1) * m \in Nat
  <1> PICK q : q = n \div m
    OBVIOUS
  <1> PICK r : r = n % m
    OBVIOUS
  <1>1. q \in Nat /\ n = m * q + r /\ r \in 0 .. m - 1
    BY Division
  <1> PICK y : y = m * q
    OBVIOUS
  <1>2. y \in Nat /\ (q + 1) * m = y + m
    BY <1>1
  <1>3. n < y + m /\ y + m \in Nat
    BY <1>1, <1>2
  <1> QED BY <1>2, <1>3

\* Arithmetic of blocks: b is the first multiple of m past a.
LEMMA Multiples ==
  ASSUME NEW a \in Nat, NEW b \in Nat, a < b, NEW m \in Nat
  PROVE  a * m + m <= b * m /\ a * m \in Nat /\ b * m \in Nat
  <1> PICK d : d = b - a - 1
    OBVIOUS
  <1>1. d \in Nat /\ b = a + 1 + d
    OBVIOUS
  <1>2. d * m \in Nat /\ a * m \in Nat /\ b * m = a * m + m + d * m
    BY <1>1
  <1> QED BY <1>2

LEMMA BytesLen ==
  ASSUME NEW i \in Nat, NEW j \in Nat, i <= j
  PROVE  /\ Bytes(i, j) \in Seq(Nat)
         /\ Len(Bytes(i, j)) = j - i
         /\ \A k \in 1 .. j - i : Bytes(i, j)[k] = i + k - 1
         /\ Bytes(i, j) = [k \in 1 .. j - i |-> i + k - 1]
  <1>1. (IF j > i THEN j - i ELSE 0) = j - i
    OBVIOUS
  <1>2. Bytes(i, j) = [k \in 1 .. j - i |-> i + k - 1]
    BY <1>1 DEF Bytes
  <1>3. j - i \in Nat /\ \A k \in 1 .. j - i : i + k - 1 \in Nat
    OBVIOUS
  <1> PICK s : s = Bytes(i, j)
    OBVIOUS
  <1>4. s = [k \in 1 .. j - i |-> i + k - 1]
    BY <1>2
  <1>5. s \in Seq(Nat) /\ Len(s) = j - i
    BY <1>3, <1>4
  <1>6. \A k \in 1 .. j - i : s[k] = i + k - 1
    BY <1>4
  <1> QED BY <1>2, <1>5, <1>6

LEMMA BytesNone ==
  ASSUME NEW i \in Nat, NEW j \in Nat, j <= i
  PROVE  Bytes(i, j) = <<>>
  <1>1. (IF j > i THEN j - i ELSE 0) = 0
    OBVIOUS
  <1>2. Bytes(i, j) = [k \in 1 .. 0 |-> i + k - 1]
    BY <1>1 DEF Bytes
  <1> PICK s : s = Bytes(i, j)
    OBVIOUS
  <1>3. s = [k \in 1 .. 0 |-> i + k - 1]
    BY <1>2
  <1>4. s \in Seq(Nat) /\ Len(s) = 0
    BY <1>3
  <1>5. s = <<>>
    BY <1>4
  <1> QED BY <1>5

LEMMA BytesSeq ==
  ASSUME NEW i \in Nat, NEW j \in Nat, i <= j
  PROVE  Bytes(i, j) \in Seq(Nat) /\ Len(Bytes(i, j)) = j - i
  BY BytesLen

\* A list with the length and the elements of a range is that range.
LEMMA IsBytes ==
  ASSUME NEW S, NEW s \in Seq(S), NEW i \in Nat, NEW j \in Nat, i <= j, Len(s) = j - i,
         \A k \in 1 .. j - i : s[k] = i + k - 1
  PROVE  s = Bytes(i, j)
  <1>1. Bytes(i, j) = [k \in 1 .. j - i |-> i + k - 1]
    BY BytesLen
  <1>2. s = [k \in 1 .. Len(s) |-> s[k]]
    OBVIOUS
  <1>3. s = [k \in 1 .. j - i |-> s[k]]
    BY <1>2
  <1>4. [k \in 1 .. j - i |-> s[k]] = [k \in 1 .. j - i |-> i + k - 1]
    OBVIOUS
  <1> QED BY <1>1, <1>3, <1>4

LEMMA BytesJoin ==
  ASSUME NEW i \in Nat, NEW j \in Nat, NEW k \in Nat, i <= j, j <= k
  PROVE  Bytes(i, j) \o Bytes(j, k) = Bytes(i, k)
  <1>0. /\ Bytes(i, j) \in Seq(Nat) /\ Len(Bytes(i, j)) = j - i
        /\ \A x \in 1 .. j - i : Bytes(i, j)[x] = i + x - 1
        /\ Bytes(j, k) \in Seq(Nat) /\ Len(Bytes(j, k)) = k - j
        /\ \A x \in 1 .. k - j : Bytes(j, k)[x] = j + x - 1
    BY BytesLen
  <1> PICK a : a = Bytes(i, j)
    OBVIOUS
  <1> PICK b : b = Bytes(j, k)
    OBVIOUS
  <1> PICK s : s = a \o b
    OBVIOUS
  <1>1. /\ a \in Seq(Nat) /\ Len(a) = j - i /\ \A x \in 1 .. j - i : a[x] = i + x - 1
        /\ b \in Seq(Nat) /\ Len(b) = k - j /\ \A x \in 1 .. k - j : b[x] = j + x - 1
    BY <1>0
  <1>2. s \in Seq(Nat) /\ Len(s) = Len(a) + Len(b)
    <2>1. a \in Seq(Nat) /\ b \in Seq(Nat)
      BY <1>1
    <2> QED BY <2>1, ConcatProperties
  <1>3. Len(s) = k - i
    BY <1>1, <1>2
  <1>4. \A x \in 1 .. k - i : s[x] = i + x - 1
    <2> TAKE x \in 1 .. k - i
    <2>1. CASE x <= j - i
      <3>1. x \in 1 .. j - i /\ x \in 1..Len(a)
        BY <1>1, <2>1
      <3>2. s[x] = a[x]
        BY <1>1, <3>1
      <3> QED BY <1>1, <3>1, <3>2
    <2>2. CASE ~(x <= j - i)
      <3> PICK y : y = x - (j - i)
        OBVIOUS
      <3>1. y \in 1 .. k - j /\ y \in 1..Len(b) /\ x = Len(a) + y
        BY <1>1, <2>2
      <3>2. s[Len(a) + y] = b[y]
        BY <1>1, <3>1, SMTT(40)
      <3>3. b[y] = j + y - 1
        BY <1>1, <3>1
      <3>4. j + y - 1 = i + x - 1
        BY <1>1, <3>1
      <3> QED BY <3>1, <3>2, <3>3, <3>4
    <2> QED BY <2>1, <2>2
  <1>5. i <= k
    OBVIOUS
  <1>6. s = Bytes(i, k)
    BY <1>2, <1>3, <1>4, <1>5, IsBytes
  <1> QED BY <1>6

\* What is left of a range without its first x and behind its first y bytes.
LEMMA BytesCut ==
  ASSUME NEW i \in Nat, NEW j \in Nat, i <= j, NEW x \in 0 .. j - i, NEW y \in x .. j - i
  PROVE  SubSeq(Bytes(i, j), x + 1, y) = Bytes(i + x, i + y)
  <1>0. /\ Bytes(i, j) \in Seq(Nat) /\ Len(Bytes(i, j)) = j - i
        /\ \A k \in 1 .. j - i : Bytes(i, j)[k] = i + k - 1
    BY BytesLen
  <1> PICK a : a = Bytes(i, j)
    OBVIOUS
  <1> PICK s : s = SubSeq(a, x + 1, y)
    OBVIOUS
  <1>1. a \in Seq(Nat) /\ Len(a) = j - i /\ \A k \in 1 .. j - i : a[k] = i + k - 1
    BY <1>0
  <1>2. x + 1 \in Nat /\ y \in Nat /\ y - (x + 1) + 1 = y - x /\ y - x \in Nat
    OBVIOUS
  <1>3. s = [k \in 1 .. y - x |-> a[k + (x + 1) - 1]]
    <2>1. s = [k \in 1 .. (y - (x + 1) + 1) |-> a[k + (x + 1) - 1]]
      BY DEF SubSeq
    <2> QED BY <1>2, <2>1
  <1>4. \A k \in 1 .. y - x : /\ k + (x + 1) - 1 = k + x /\ k + x \in 1 .. j - i
                              /\ i + (k + x) - 1 = (i + x) + k - 1
    BY <1>1
  <1>5. \A k \in 1 .. y - x : a[k + (x + 1) - 1] = (i + x) + k - 1
    BY <1>1, <1>4
  <1>6. s = [k \in 1 .. y - x |-> (i + x) + k - 1]
    BY <1>3, <1>5
  <1>7. i + x \in Nat /\ i + y \in Nat /\ i + x <= i + y /\ (i + y) - (i + x) = y - x
    BY <1>2
  <1>8. Bytes(i + x, i + y) = [k \in 1 .. (i + y) - (i + x) |-> (i + x) + k - 1]
    BY <1>7, BytesLen
  <1> QED BY <1>6, <1>7, <1>8

-----------------------------------------------------------------------------
(* The parts of a range *)

\* The length of the part at cur of a range that ends at end.
FirstLimit(cur, end) ==
  Least(Least(PartSize, end - cur), (cur \div PartSize + 1) * PartSize - cur)

LEMMA FirstLimitIs ==
  ASSUME NEW end \in Nat, NEW cur \in Nat, cur < end
  PROVE  FirstLimit(cur, end) \in Nat \ {0} /\ cur + FirstLimit(cur, end) <= end
  <1>1. PartSize \in Nat \ {0}
    BY DocumentsConstants
  <1> PICK q : q = cur \div PartSize
    OBVIOUS
  <1> PICK x : x = (q + 1) * PartSize
    OBVIOUS
  <1>2. q \in Nat /\ cur < x /\ x \in Nat
    <2>1. q \in Nat /\ cur = PartSize * q + (cur % PartSize) /\ cur % PartSize \in 0 .. PartSize - 1
      BY <1>1
    <2>2. (q + 1) * PartSize = PartSize * q + PartSize
      BY <1>1, <2>1
    <2>3. PartSize * q \in Nat
      BY <1>1, <2>1
    <2> PICK z : z = PartSize * q
      OBVIOUS
    <2>4. z \in Nat /\ cur = z + (cur % PartSize) /\ x = z + PartSize
      BY <2>1, <2>2, <2>3
    <2> QED BY <1>1, <2>1, <2>4
  <1> PICK l : l = Least(Least(PartSize, end - cur), x - cur)
    OBVIOUS
  <1>3. l \in Nat \ {0} /\ l <= end - cur
    BY <1>1, <1>2 DEF Least
  <1>4. FirstLimit(cur, end) = l
    BY DEF FirstLimit
  <1> QED BY <1>3, <1>4

\* The parts of a range exist, from the last to the first.
PlanAt(end) ==
  LET part[cur \in 0..end] ==
        IF cur >= end THEN << >>
        ELSE <<[offset |-> cur, limit |-> FirstLimit(cur, end)]>> \o part[cur + FirstLimit(cur, end)]
  IN  part

LEMMA PlanAtIs ==
  ASSUME NEW end \in Nat
  PROVE  PlanAt(end) = [cur \in 0..end |->
           IF cur >= end THEN << >>
           ELSE <<[offset |-> cur, limit |-> FirstLimit(cur, end)]>>
                   \o PlanAt(end)[cur + FirstLimit(cur, end)]]
  <1> DEFINE Next1(f, cur) == <<[offset |-> cur, limit |-> FirstLimit(cur, end)]>>
                                \o f[cur + FirstLimit(cur, end)]
             Is(f, n) == f = [cur \in end - n .. end |-> IF cur >= end THEN << >> ELSE Next1(f, cur)]
             T == {n \in 0..end : ~\E f : Is(f, n)}
  <1>1. \E f : Is(f, end)
    <2> SUFFICES ASSUME end \in T PROVE FALSE
      OBVIOUS
    <2>1. T \in SUBSET Nat /\ T # {}
      <3> HIDE DEF Is
      <3> QED OBVIOUS
    <2>2. PICK n \in T : \A m \in T : n <= m
      <3> HIDE DEF T
      <3> QED BY <2>1, Smallest
    <2>3. n \in 0..end /\ n \in Nat /\ ~\E f : Is(f, n)
      BY <2>1, <2>2
    <2>4. n # 0
      <3> SUFFICES ASSUME n = 0 PROVE FALSE
        OBVIOUS
      <3> DEFINE f == [cur \in end - 0 .. end |-> << >>]
      <3>0. \A cur \in end - 0 .. end : cur >= end
        OBVIOUS
      <3>1. Is(f, 0)
        BY <3>0
      <3> HIDE DEF Is
      <3> QED BY <2>3, <3>1
    <2>5. n - 1 \in 0..end /\ ~(n <= n - 1)
      BY <2>3, <2>4
    <2>6. PICK f : Is(f, n - 1)
      <3>1. n - 1 \notin T
        <4> HIDE DEF T
        <4> QED BY <2>2, <2>5
      <3> HIDE DEF Is
      <3> QED BY <2>5, <3>1
    <2> DEFINE g == [cur \in end - n .. end |-> IF cur = end - n THEN Next1(f, cur) ELSE f[cur]]
    <2>7. \A cur \in end - n .. end : g[cur] = IF cur >= end THEN << >> ELSE Next1(g, cur)
      <3> TAKE cur \in end - n .. end
      <3>0. cur \in Nat
        BY <2>3
      <3>1. CASE cur >= end
        <4>1. cur # end - n /\ cur \in end - (n - 1) .. end
          BY <2>3, <2>4, <3>1
        <4>2. g[cur] = f[cur] /\ f[cur] = << >>
          BY <2>6, <3>1, <4>1
        <4> QED BY <3>1, <4>2
      <3>2. CASE ~(cur >= end)
        <4> PICK nxt : nxt = cur + FirstLimit(cur, end)
          OBVIOUS
        <4>1. nxt \in end - (n - 1) .. end /\ nxt \in end - n .. end /\ nxt # end - n
          <5>1. FirstLimit(cur, end) \in Nat \ {0} /\ cur + FirstLimit(cur, end) <= end
            BY <3>0, <3>2, FirstLimitIs
          <5> QED BY <2>3, <3>0, <5>1
        <4>2. g[nxt] = f[nxt]
          BY <4>1
        <4>3. Next1(g, cur) = Next1(f, cur)
          BY <4>2
        <4>4. g[cur] = Next1(f, cur)
          <5>1. CASE cur = end - n
            BY <5>1
          <5>2. CASE cur # end - n
            <6>1. cur \in end - (n - 1) .. end
              BY <2>3, <3>0, <5>2
            <6>2. f[cur] = Next1(f, cur)
              BY <2>6, <3>2, <6>1
            <6> QED BY <5>2, <6>2
          <5> QED BY <5>1, <5>2
        <4> HIDE DEF g
        <4> QED BY <3>2, <4>3, <4>4
      <3> QED BY <3>1, <3>2
    <2>8. Is(g, n)
      <3>1. g = [cur \in end - n .. end |-> g[cur]]
        OBVIOUS
      <3> HIDE DEF g
      <3> QED BY <2>7, <3>1
    <2> HIDE DEF Is
    <2> QED BY <2>3, <2>8
  <1> DEFINE F == CHOOSE f : f = [cur \in 0..end |-> IF cur >= end THEN << >> ELSE Next1(f, cur)]
  <1>2. PlanAt(end) = F
    BY DEF PlanAt
  <1>3. F = [cur \in 0..end |-> IF cur >= end THEN << >> ELSE Next1(F, cur)]
    <2>1. end - end = 0
      OBVIOUS
    <2> QED BY <1>1, <2>1
  <1> HIDE DEF F
  <1> QED BY <1>2, <1>3

LEMMA PlanIs ==
  ASSUME NEW start, NEW end
  PROVE  planRangeParts(start, end) = PlanAt(end)[start]
  BY DEF planRangeParts, PlanAt, FirstLimit

\* The parts follow one another from cur to the end.
PartsFrom(s, cur, end) ==
  /\ s \in Seq([offset : Nat, limit : Nat \ {0}])
  /\ s = << >> <=> cur >= end
  /\ cur < end => s[1] = [offset |-> cur, limit |-> FirstLimit(cur, end)]
  /\ \A k \in 1..Len(s) :
       /\ s[k].offset + s[k].limit <= end
       /\ s[k].offset + s[k].limit = IF k < Len(s) THEN s[k + 1].offset ELSE end

LEMMA PlanShape ==
  ASSUME NEW end \in Nat, NEW cur \in 0..end
  PROVE  PartsFrom(PlanAt(end)[cur], cur, end)
  <1> DEFINE T == {n \in 0..end : ~PartsFrom(PlanAt(end)[end - n], end - n, end)}
  <1> SUFFICES ASSUME ~PartsFrom(PlanAt(end)[cur], cur, end) PROVE FALSE
    OBVIOUS
  <1>1. T \in SUBSET Nat /\ T # {}
    <2>1. end - cur \in 0..end /\ end - (end - cur) = cur
      OBVIOUS
    <2>2. end - cur \in T
      <3> HIDE DEF PartsFrom
      <3> QED BY <2>1
    <2>3. T \subseteq 0..end
      OBVIOUS
    <2> HIDE DEF T
    <2> QED BY <2>2, <2>3
  <1>2. PICK n \in T : \A m \in T : n <= m
    <2> HIDE DEF T
    <2> QED BY <1>1, Smallest
  <1> PICK c : c = end - n
    OBVIOUS
  <1>3. n \in 0..end /\ c \in 0..end /\ c \in Nat /\ ~PartsFrom(PlanAt(end)[c], c, end)
    <2>1. n \in 0..end /\ ~PartsFrom(PlanAt(end)[end - n], end - n, end)
      BY <1>2
    <2> QED BY <2>1
  <1>4. PlanAt(end)[c] = IF c >= end THEN << >>
           ELSE <<[offset |-> c, limit |-> FirstLimit(c, end)]>>
                   \o PlanAt(end)[c + FirstLimit(c, end)]
    <2> PICK f : f = PlanAt(end)
      OBVIOUS
    <2>1. f = [x \in 0..end |-> IF x >= end THEN << >>
           ELSE <<[offset |-> x, limit |-> FirstLimit(x, end)]>> \o f[x + FirstLimit(x, end)]]
      BY PlanAtIs
    <2>2. f[c] = IF c >= end THEN << >>
           ELSE <<[offset |-> c, limit |-> FirstLimit(c, end)]>> \o f[c + FirstLimit(c, end)]
      BY <1>3, <2>1
    <2> QED BY <2>2
  <1>5. CASE c >= end
    <2> PICK s : s = PlanAt(end)[c]
      OBVIOUS
    <2>1. s = << >>
      BY <1>4, <1>5
    <2>2. s \in Seq([offset : Nat, limit : Nat \ {0}]) /\ Len(s) = 0
      BY <2>1
    <2>3. PartsFrom(s, c, end)
      BY <1>3, <1>5, <2>1, <2>2 DEF PartsFrom
    <2> QED BY <1>3, <2>3
  <1>6. CASE ~(c >= end)
    <2> PICK l : l = FirstLimit(c, end)
      OBVIOUS
    <2>1. l \in Nat \ {0} /\ c + l <= end
      BY <1>3, <1>6, FirstLimitIs
    <2> PICK d : d = c + l
      OBVIOUS
    <2>2. d \in 0..end /\ end - d \in 0..end /\ ~(n <= end - d) /\ end - (end - d) = d
      BY <1>3, <2>1
    <2>3. PartsFrom(PlanAt(end)[d], d, end)
      <3>1. end - d \notin T
        <4> HIDE DEF T
        <4> QED BY <1>2, <2>2
      <3>2. PartsFrom(PlanAt(end)[end - (end - d)], end - (end - d), end)
        BY <2>2, <3>1
      <3> QED BY <2>2, <3>2
    <2> PICK r : r = PlanAt(end)[d]
      OBVIOUS
    <2> PICK p : p = [offset |-> c, limit |-> l]
      OBVIOUS
    <2> PICK s : s = <<p>> \o r
      OBVIOUS
    <2>4. PlanAt(end)[c] = s
      BY <1>4, <1>6
    <2>5. p \in [offset : Nat, limit : Nat \ {0}] /\ p.offset = c /\ p.limit = l
      BY <1>3, <2>1
    <2>6. /\ r \in Seq([offset : Nat, limit : Nat \ {0}])
          /\ r = << >> <=> d >= end
          /\ d < end => r[1].offset = d
          /\ \A k \in 1..Len(r) :
               /\ r[k].offset + r[k].limit <= end
               /\ r[k].offset + r[k].limit = IF k < Len(r) THEN r[k + 1].offset ELSE end
      <3>1. PartsFrom(r, d, end)
        BY <2>3
      <3>2. d < end => r[1] = [offset |-> d, limit |-> FirstLimit(d, end)]
        BY <3>1 DEF PartsFrom
      <3>3. d < end => r[1].offset = d
        BY <3>2
      <3>4. r \in Seq([offset : Nat, limit : Nat \ {0}]) /\ (r = << >> <=> d >= end)
        BY <3>1 DEF PartsFrom
      <3>5. \A k \in 1..Len(r) :
              /\ r[k].offset + r[k].limit <= end
              /\ r[k].offset + r[k].limit = IF k < Len(r) THEN r[k + 1].offset ELSE end
        BY <3>1 DEF PartsFrom
      <3> QED BY <3>3, <3>4, <3>5
    <2>7. <<p>> \in Seq([offset : Nat, limit : Nat \ {0}]) /\ Len(<<p>>) = 1
      BY <2>5
    <2>8. s \in Seq([offset : Nat, limit : Nat \ {0}]) /\ Len(s) = 1 + Len(r) /\ Len(r) \in Nat
      BY <2>6, <2>7, ConcatProperties
    <2>9. s[1] = p
      BY <2>5, <2>6
    <2>10. \A k \in 1..Len(r) : s[k + 1] = r[k]
      BY <2>5, <2>6
    <2>11. s # << >>
      BY <2>8
    <2>12. \A k \in 1..Len(s) :
             /\ s[k].offset + s[k].limit <= end
             /\ s[k].offset + s[k].limit = IF k < Len(s) THEN s[k + 1].offset ELSE end
      <3> TAKE k \in 1..Len(s)
      <3>1. CASE k = 1
        <4>1. s[k].offset + s[k].limit = d
          BY <2>5, <2>9, <3>1
        <4>2. CASE Len(r) = 0
          <5>1. d = end
            BY <2>2, <2>6, <4>2
          <5> QED BY <2>8, <3>1, <4>1, <4>2, <5>1
        <4>3. CASE Len(r) # 0
          <5>0. r # << >>
            BY <4>3
          <5>1. d < end
            <6>1. ~(d >= end)
              BY <2>6, <5>0, Zenon
            <6> QED BY <2>2, <6>1
          <5>2. 1 \in 1..Len(r) /\ k + 1 = 1 + 1
            BY <2>8, <3>1, <4>3
          <5>3. s[k + 1] = r[1] /\ r[1].offset = d
            BY <2>6, <2>10, <5>1, <5>2
          <5> QED BY <2>8, <3>1, <4>1, <4>3, <5>1, <5>3
        <4> QED BY <4>2, <4>3
      <3>2. CASE k # 1
        <4> PICK j : j = k - 1
          OBVIOUS
        <4>1. j \in 1..Len(r) /\ k = j + 1 /\ (k < Len(s) <=> j < Len(r))
          BY <2>8, <3>2, SMTT(40)
        <4>2. s[k] = r[j]
          BY <2>10, <4>1
        <4>3. j < Len(r) => s[k + 1] = r[j + 1]
          <5>1. SUFFICES ASSUME j < Len(r) PROVE s[k + 1] = r[j + 1]
            OBVIOUS
          <5>2. j + 1 \in 1..Len(r) /\ k + 1 = (j + 1) + 1
            BY <2>8, <4>1, <5>1
          <5> QED BY <2>10, <5>2
        <4> QED BY <2>6, <4>1, <4>2, <4>3, ZenonT(40)
      <3> QED BY <3>1, <3>2
    <2>13. c < end => s[1] = [offset |-> c, limit |-> FirstLimit(c, end)]
      BY <2>9
    <2>14. PartsFrom(s, c, end)
      BY <1>3, <1>6, <2>8, <2>11, <2>12, <2>13 DEF PartsFrom
    <2> QED BY <1>3, <2>4, <2>14
  <1> QED BY <1>5, <1>6

LEMMA PlanParts ==
  ASSUME NEW end \in Nat, NEW start \in 0..end
  PROVE  PartsFrom(planRangeParts(start, end), start, end)
  BY PlanIs, PlanShape
-----------------------------------------------------------------------------
(* The stitch *)

\* What part i contributes when so many bytes are wanted.
Kept(parts, surplus, i) ==
  IF i = 1 THEN SubSeq(PartBytes(parts[i]), surplus + 1, Len(PartBytes(parts[i])))
           ELSE PartBytes(parts[i])
Taken(parts, surplus, i, wanted) ==
  SubSeq(Kept(parts, surplus, i), 1, Least(wanted, Len(Kept(parts, surplus, i))))
Skips(parts, surplus, i) == i = 1 /\ surplus > 0 /\ Len(PartBytes(parts[i])) <= surplus
Short(parts, i) == Len(PartBytes(parts[i])) < parts[i].limit

Cell(parts, surplus, from, i, wanted) ==
  IF i > Len(parts) \/ wanted = 0 THEN << >>
  ELSE IF Skips(parts, surplus, i) THEN from[2][wanted]
  ELSE IF Taken(parts, surplus, i, wanted) = << >> THEN << >>
  ELSE IF Short(parts, i) THEN Taken(parts, surplus, i, wanted)
  ELSE Taken(parts, surplus, i, wanted)
         \o from[i + 1][wanted - Len(Taken(parts, surplus, i, wanted))]

StitchFrom(parts, surplus, len) ==
  LET from[i \in 1..(Len(parts) + 1)] == [wanted \in 0..len |-> Cell(parts, surplus, from, i, wanted)]
  IN  from

LEMMA StitchIs ==
  ASSUME NEW parts, NEW off, NEW len
  PROVE  Stitch(parts, off, len) = StitchFrom(parts, off - AlignedStart(off), len)[1][len]
  BY DEF Stitch, StitchFrom, Cell, Taken, Kept, Skips, Short

LEMMA StitchFromIs ==
  ASSUME NEW parts, Len(parts) \in Nat, NEW surplus, NEW len
  PROVE  StitchFrom(parts, surplus, len) =
           [i \in 1..(Len(parts) + 1) |-> [wanted \in 0..len |->
             Cell(parts, surplus, StitchFrom(parts, surplus, len), i, wanted)]]
  <1> PICK n : n = Len(parts)
    OBVIOUS
  <1> DEFINE Row(f, i) == [wanted \in 0..len |-> Cell(parts, surplus, f, i, wanted)]
             Is(f, m) == f = [i \in (n + 1) - m .. n + 1 |-> Row(f, i)]
             T == {m \in 0..n : ~\E f : Is(f, m)}
  <1>0. n \in Nat
    OBVIOUS
  \* A row depends on the next one only.
  <1>1. ASSUME NEW f, NEW g, NEW i \in Nat, f[i + 1] = g[i + 1] PROVE Row(f, i) = Row(g, i)
    <2>1. Skips(parts, surplus, i) => i + 1 = 2
      BY DEF Skips
    <2>2. Skips(parts, surplus, i) => f[2] = g[2]
      BY <1>1, <2>1
    <2>3. \A wanted \in 0..len : Cell(parts, surplus, f, i, wanted) = Cell(parts, surplus, g, i, wanted)
      BY <1>1, <2>2, Zenon DEF Cell
    <2> QED BY <2>3
  <1>2. ASSUME NEW f, NEW g PROVE Row(f, n + 1) = Row(g, n + 1)
    <2>1. n + 1 > Len(parts)
      BY <1>0
    <2>2. \A wanted \in 0..len : Cell(parts, surplus, f, n + 1, wanted) = Cell(parts, surplus, g, n + 1, wanted)
      BY <2>1 DEF Cell
    <2> QED BY <2>2
  <1>3. \E f : Is(f, n)
    <2> HIDE DEF Row
    <2> SUFFICES ASSUME n \in T PROVE FALSE
      BY <1>0
    <2>1. T \in SUBSET Nat /\ T # {}
      <3> HIDE DEF Is
      <3> QED OBVIOUS
    <2>2. PICK m \in T : \A k \in T : m <= k
      <3> HIDE DEF T
      <3> QED BY <2>1, Smallest
    <2>3. m \in 0..n /\ m \in Nat /\ ~\E f : Is(f, m)
      BY <2>1, <2>2
    <2>4. m # 0
      <3> SUFFICES ASSUME m = 0 PROVE FALSE
        OBVIOUS
      <3> DEFINE f == [i \in (n + 1) - 0 .. n + 1 |-> Row(<<>>, n + 1)]
      <3>1. \A i \in (n + 1) - 0 .. n + 1 : i = n + 1
        BY <1>0
      <3>2. \A i \in (n + 1) - 0 .. n + 1 : f[i] = Row(f, i)
        <4> TAKE i \in (n + 1) - 0 .. n + 1
        <4>1. f[i] = Row(<<>>, n + 1) /\ i = n + 1
          BY <3>1
        <4> HIDE DEF f
        <4>2. Row(f, n + 1) = Row(<<>>, n + 1)
          BY <1>2
        <4> QED BY <4>1, <4>2
      <3>3. f = [i \in (n + 1) - 0 .. n + 1 |-> f[i]]
        OBVIOUS
      <3> HIDE DEF f
      <3>4. Is(f, 0)
        BY <3>2, <3>3
      <3> HIDE DEF Is
      <3> QED BY <2>3, <3>4
    <2>5. m - 1 \in 0..n /\ ~(m <= m - 1)
      BY <1>0, <2>3, <2>4
    <2>6. PICK f : Is(f, m - 1)
      <3>1. m - 1 \notin T
        <4> HIDE DEF T
        <4> QED BY <2>2, <2>5
      <3> HIDE DEF Is
      <3> QED BY <2>5, <3>1
    <2> DEFINE g == [i \in (n + 1) - m .. n + 1 |-> IF i = (n + 1) - m THEN Row(f, i) ELSE f[i]]
    <2>7. ASSUME NEW i \in (n + 1) - m .. n + 1 PROVE g[i] = Row(g, i)
      <3>0. i \in Nat
        BY <1>0, <2>3
      <3>1. g[i] = Row(f, i)
        <4>1. CASE i = (n + 1) - m
          BY <4>1
        <4>2. CASE i # (n + 1) - m
          <5>1. i \in (n + 1) - (m - 1) .. n + 1
            BY <1>0, <2>3, <4>2
          <5> QED BY <2>6, <4>2, <5>1
        <4> QED BY <4>1, <4>2
      <3>2. Row(f, i) = Row(g, i)
        <4>1. CASE i = n + 1
          <5> HIDE DEF g
          <5> QED BY <1>2, <4>1
        <4>2. CASE i # n + 1
          <5>1. i + 1 \in (n + 1) - m .. n + 1 /\ i + 1 # (n + 1) - m
            BY <1>0, <2>3, <4>2
          <5>2. g[i + 1] = f[i + 1]
            BY <5>1
          <5> HIDE DEF g
          <5> QED BY <1>1, <3>0, <5>2
        <4> QED BY <4>1, <4>2
      <3> HIDE DEF g
      <3> QED BY <3>1, <3>2
    <2>8. Is(g, m)
      <3>1. g = [i \in (n + 1) - m .. n + 1 |-> g[i]]
        OBVIOUS
      <3> HIDE DEF g
      <3> QED BY <2>7, <3>1
    <2> HIDE DEF Is
    <2> QED BY <2>3, <2>8
  <1> DEFINE F == CHOOSE f : f = [i \in 1..(Len(parts) + 1) |-> Row(f, i)]
  <1>4. StitchFrom(parts, surplus, len) = F
    BY DEF StitchFrom
  <1>5. F = [i \in 1..(Len(parts) + 1) |-> Row(F, i)]
    <2>1. (n + 1) - n = 1 /\ n + 1 = Len(parts) + 1
      BY <1>0
    <2>2. \E f : f = [i \in 1..(Len(parts) + 1) |-> Row(f, i)]
      <3> HIDE DEF Row
      <3> QED BY <1>3, <2>1
    <2> HIDE DEF Row
    <2> QED BY <2>2
  <1> HIDE DEF F
  <1> QED BY <1>4, <1>5

LEMMA StitchCell ==
  ASSUME NEW parts, Len(parts) \in Nat, NEW surplus, NEW len,
         NEW j \in 1..(Len(parts) + 1), NEW w \in 0..len
  PROVE  StitchFrom(parts, surplus, len)[j][w] =
           Cell(parts, surplus, StitchFrom(parts, surplus, len), j, w)
  <1> PICK F : F = StitchFrom(parts, surplus, len)
    OBVIOUS
  <1>1. F = [i \in 1..(Len(parts) + 1) |-> [wanted \in 0..len |-> Cell(parts, surplus, F, i, wanted)]]
    <2>1. StitchFrom(parts, surplus, len) =
           [i \in 1..(Len(parts) + 1) |-> [wanted \in 0..len |->
             Cell(parts, surplus, StitchFrom(parts, surplus, len), i, wanted)]]
      BY StitchFromIs
    <2> QED BY <2>1, Zenon
  <1>2. F[j][w] = Cell(parts, surplus, F, j, w)
    <2>1. F[j] = [wanted \in 0..len |-> Cell(parts, surplus, F, j, wanted)]
      BY <1>1, Zenon
    <2> QED BY <2>1
  <1> QED BY <1>2

LEMMA RowEnds ==
  ASSUME NEW parts, Len(parts) \in Nat, NEW surplus, NEW len,
         NEW j \in 1..(Len(parts) + 1), NEW w \in 0..len, j > Len(parts) \/ w = 0
  PROVE  StitchFrom(parts, surplus, len)[j][w] = << >>
  <1>1. StitchFrom(parts, surplus, len)[j][w] =
          Cell(parts, surplus, StitchFrom(parts, surplus, len), j, w)
    BY StitchCell
  <1> QED BY <1>1 DEF Cell

LEMMA RowSkips ==
  ASSUME NEW parts, Len(parts) \in Nat, NEW surplus, NEW len,
         NEW j \in 1..(Len(parts) + 1), NEW w \in 0..len, ~(j > Len(parts) \/ w = 0),
         Skips(parts, surplus, j)
  PROVE  StitchFrom(parts, surplus, len)[j][w] = StitchFrom(parts, surplus, len)[2][w]
  <1>1. StitchFrom(parts, surplus, len)[j][w] =
          Cell(parts, surplus, StitchFrom(parts, surplus, len), j, w)
    BY StitchCell
  <1> QED BY <1>1 DEF Cell

LEMMA RowTakes ==
  ASSUME NEW parts, Len(parts) \in Nat, NEW surplus, NEW len,
         NEW j \in 1..(Len(parts) + 1), NEW w \in 0..len, ~(j > Len(parts) \/ w = 0),
         ~Skips(parts, surplus, j)
  PROVE  StitchFrom(parts, surplus, len)[j][w] =
           IF Taken(parts, surplus, j, w) = << >> THEN << >>
           ELSE IF Short(parts, j) THEN Taken(parts, surplus, j, w)
           ELSE Taken(parts, surplus, j, w) \o
             StitchFrom(parts, surplus, len)[j + 1][w - Len(Taken(parts, surplus, j, w))]
  <1>1. StitchFrom(parts, surplus, len)[j][w] =
          Cell(parts, surplus, StitchFrom(parts, surplus, len), j, w)
    BY StitchCell
  <1> QED BY <1>1 DEF Cell

\* The first bytes of a part, cut where the document ends.
LEMMA PieceIs ==
  ASSUME NEW o \in Nat, NEW e \in Nat, o < e, NEW wanted \in Nat, wanted # 0,
         NEW b, b = Bytes(o, Least(e, Size)), NEW t, t = SubSeq(b, 1, Least(wanted, Len(b)))
  PROVE  /\ Size <= o => t = << >> /\ Len(b) = 0
         /\ o < Size => /\ Len(b) = Least(e, Size) - o
                        /\ t = Bytes(o, o + Least(wanted, Least(e, Size) - o))
                        /\ Len(t) = Least(wanted, Least(e, Size) - o)
                        /\ t # << >>
  <1>0. Size \in Nat
    BY DocumentsConstants
  <1> PICK z : z = Least(e, Size)
    OBVIOUS
  <1>1. z \in Nat /\ (Size <= o => z <= o) /\ (o < Size => o < z)
    BY <1>0 DEF Least
  <1>2. b = Bytes(o, z)
    OBVIOUS
  <1>3. CASE Size <= o
    <2>1. b = << >>
      BY <1>1, <1>2, <1>3, BytesNone
    <2>2. Len(b) = 0 /\ Least(wanted, Len(b)) = 0
      BY <2>1 DEF Least
    <2>3. SubSeq(<< >>, 1, 0) = << >>
      OBVIOUS
    <2>4. t = << >>
      BY <2>1, <2>2, <2>3
    <2> QED BY <1>0, <1>3, <2>2, <2>4
  <1>4. CASE o < Size
    <2>0. o <= z
      BY <1>1, <1>4
    <2>1. Bytes(o, z) \in Seq(Nat) /\ Len(Bytes(o, z)) = z - o
      BY <1>1, <2>0, BytesSeq
    <2>2. Len(b) = z - o
      BY <1>2, <2>1
    <2> PICK k : k = Least(wanted, z - o)
      OBVIOUS
    <2>3. k \in Nat /\ k # 0 /\ k <= z - o /\ k \in 0 .. z - o /\ 0 \in 0 .. z - o /\ o <= z
      BY <1>1, <1>4 DEF Least
    <2>4. t = SubSeq(Bytes(o, z), 0 + 1, k)
      BY <1>2, <2>2
    <2>5. SubSeq(Bytes(o, z), 0 + 1, k) = Bytes(o + 0, o + k)
      BY <1>1, <2>3, BytesCut, ZenonT(40)
    <2>6. t = Bytes(o, o + k)
      <3>1. o + 0 = o
        OBVIOUS
      <3>2. SubSeq(Bytes(o, z), 0 + 1, k) = Bytes(o, o + k)
        BY <2>5, <3>1
      <3> QED BY <2>4, <3>2, Zenon
    <2>7. Bytes(o, o + k) \in Seq(Nat) /\ Len(Bytes(o, o + k)) = (o + k) - o
      <3>1. o + k \in Nat /\ o <= o + k
        BY <2>3
      <3> QED BY <3>1, BytesSeq
    <2>8. Len(t) = k
      <3>1. Len(t) = (o + k) - o
        BY <2>6, <2>7, Zenon
      <3>2. (o + k) - o = k
        BY <2>3
      <3> QED BY <3>1, <3>2, Zenon
    <2>9. t # << >>
      BY <2>3, <2>8
    <2>10. ~(Size <= o)
      BY <1>0, <1>4
    <2> QED BY <2>2, <2>6, <2>8, <2>9, <2>10, Zenon
  <1> QED BY <1>0, <1>3, <1>4

Piece(o, e, wanted) ==
  SubSeq(Bytes(o, Least(e, Size)), 1, Least(wanted, Len(Bytes(o, Least(e, Size)))))

\* A piece and what the following parts give make up the range.
LEMMA PieceThenRest ==
  ASSUME NEW o \in Nat, NEW e \in Nat, o < e, NEW wanted \in Nat, wanted # 0
  PROVE  /\ Piece(o, e, wanted) = << >> => Bytes(o, Least(o + wanted, Size)) = << >>
         /\ Size < e => Piece(o, e, wanted) = Bytes(o, Least(o + wanted, Size))
         /\ Piece(o, e, wanted) # << >> /\ e <= Size =>
              /\ Len(Piece(o, e, wanted)) = Least(wanted, e - o)
              /\ Piece(o, e, wanted) \o Bytes(e, Least(e + (wanted - Least(wanted, e - o)), Size))
                   = Bytes(o, Least(o + wanted, Size))
  <1> PICK b : b = Bytes(o, Least(e, Size))
    OBVIOUS
  <1> PICK t : t = SubSeq(b, 1, Least(wanted, Len(b)))
    OBVIOUS
  <1>6. Piece(o, e, wanted) = t
    BY DEF Piece
  <1>0. Size \in Nat
    BY DocumentsConstants
  <1>1. /\ Size <= o => t = << >> /\ Len(b) = 0
        /\ o < Size => /\ t = Bytes(o, o + Least(wanted, Least(e, Size) - o))
                       /\ Len(t) = Least(wanted, Least(e, Size) - o)
                       /\ t # << >>
    BY PieceIs
  <1>2. Size <= o => Bytes(o, Least(o + wanted, Size)) = << >>
    <2> SUFFICES ASSUME Size <= o PROVE Bytes(o, Least(o + wanted, Size)) = << >>
      OBVIOUS
    <2>1. Least(o + wanted, Size) \in Nat /\ Least(o + wanted, Size) <= o
      BY <1>0 DEF Least
    <2> QED BY <2>1, BytesNone
  <1>3. t = << >> => Bytes(o, Least(o + wanted, Size)) = << >>
    <2> SUFFICES ASSUME t = << >> PROVE Bytes(o, Least(o + wanted, Size)) = << >>
      OBVIOUS
    <2>1. ~(o < Size)
      BY <1>1
    <2>2. Size <= o
      BY <1>0, <2>1
    <2> QED BY <1>2, <2>2
  <1>4. ASSUME Size < e PROVE t = Bytes(o, Least(o + wanted, Size))
    <2>1. CASE Size <= o
      BY <1>1, <1>2, <2>1
    <2>2. CASE ~(Size <= o)
      <3>1. o < Size
        BY <1>0, <2>2
      <3>2. t = Bytes(o, o + Least(wanted, Least(e, Size) - o))
        BY <1>1, <3>1
      <3>3. o + Least(wanted, Least(e, Size) - o) = Least(o + wanted, Size)
        BY <1>0, <1>4, <3>1 DEF Least
      <3> QED BY <3>2, <3>3
    <2> QED BY <2>1, <2>2
  <1>5. ASSUME t # << >>, e <= Size
        PROVE  /\ Len(t) = Least(wanted, e - o)
               /\ t \o Bytes(e, Least(e + (wanted - Least(wanted, e - o)), Size)) = Bytes(o, Least(o + wanted, Size))
    <2>1. o < Size /\ Least(e, Size) = e
      BY <1>0, <1>5 DEF Least
    <2> PICK k : k = Least(wanted, e - o)
      OBVIOUS
    <2>2. t = Bytes(o, o + k) /\ Len(t) = k
      BY <1>1, <2>1
    <2> PICK y : y = Least(e + (wanted - k), Size)
      OBVIOUS
    <2>3. k \in Nat /\ y \in Nat /\ o + k \in Nat
      BY <1>0 DEF Least
    <2>4. CASE wanted < e - o
      <3>1. k = wanted /\ wanted - k = 0
        BY <2>4 DEF Least
      <3>2. y = e /\ Least(o + wanted, Size) = o + wanted
        BY <1>0, <1>5, <2>4, <3>1 DEF Least
      <3>3. Bytes(e, e) = << >>
        BY BytesNone
      <3>4. Bytes(o, o + k) \in Seq(Nat)
        <4>1. o <= o + k
          BY <2>3
        <4> QED BY <2>3, <4>1, BytesSeq
      <3>5. Bytes(o, o + k) \o << >> = Bytes(o, o + k)
        BY <3>4, ConcatEmptySeq
      <3> QED BY <2>2, <3>1, <3>2, <3>3, <3>5
    <2>5. CASE ~(wanted < e - o)
      <3>1. k = e - o /\ o + k = e /\ e + (wanted - k) = o + wanted
        BY <2>5 DEF Least
      <3>2. y = Least(o + wanted, Size) /\ e <= y /\ o <= e
        BY <1>0, <1>5, <2>5, <3>1 DEF Least
      <3>3. Bytes(o, e) \o Bytes(e, y) = Bytes(o, y)
        BY <2>3, <3>2, BytesJoin
      <3> QED BY <2>2, <3>1, <3>2, <3>3
    <2> QED BY <2>4, <2>5
  <1> QED BY <1>3, <1>4, <1>5, <1>6, Zenon

LEMMA PieceNone ==
  ASSUME NEW o \in Nat, NEW e \in Nat, o < e, NEW wanted \in Nat, wanted # 0,
         Piece(o, e, wanted) = << >>
  PROVE  Bytes(o, Least(o + wanted, Size)) = << >>
  BY PieceThenRest

LEMMA PieceShort ==
  ASSUME NEW o \in Nat, NEW e \in Nat, o < e, NEW wanted \in Nat, wanted # 0, Size < e
  PROVE  Piece(o, e, wanted) = Bytes(o, Least(o + wanted, Size))
  BY PieceThenRest

LEMMA PieceLen ==
  ASSUME NEW o \in Nat, NEW e \in Nat, o < e, NEW wanted \in Nat, wanted # 0, e <= Size,
         Piece(o, e, wanted) # << >>
  PROVE  Len(Piece(o, e, wanted)) = Least(wanted, e - o)
  BY PieceThenRest

LEMMA PieceRest ==
  ASSUME NEW o \in Nat, NEW e \in Nat, o < e, NEW wanted \in Nat, wanted # 0, e <= Size,
         Piece(o, e, wanted) # << >>
  PROVE  Piece(o, e, wanted) \o Bytes(e, Least(e + (wanted - Least(wanted, e - o)), Size))
           = Bytes(o, Least(o + wanted, Size))
  BY PieceThenRest

\* A piece and the row of the next part.
Stitched(o, e, w, row) ==
  IF Piece(o, e, w) = << >> THEN << >>
  ELSE IF Size < e THEN Piece(o, e, w)
  ELSE Piece(o, e, w) \o row[w - Len(Piece(o, e, w))]

\* A row that gives the bytes from e on, as many as fit before the end.
RowFrom(row, e, len, end) ==
  \A y \in 0..len : e + y <= end => row[y] = Bytes(e, Least(e + y, Size))

\* A piece is right if the row it is stitched to is.
LEMMA PieceStitched ==
  ASSUME NEW o \in Nat, NEW e \in Nat, o < e, NEW len \in Nat, NEW w \in 0..len, w # 0,
         NEW end \in Nat, o + w <= end, e <= end, NEW row, RowFrom(row, e, len, end)
  PROVE  Stitched(o, e, w, row) = Bytes(o, Least(o + w, Size))
  <1> PICK out : out = Stitched(o, e, w, row)
    OBVIOUS
  <1>0. out = IF Piece(o, e, w) = << >> THEN << >> ELSE IF Size < e THEN Piece(o, e, w)
              ELSE Piece(o, e, w) \o row[w - Len(Piece(o, e, w))]
    BY DEF Stitched
  <1> PICK t : t = Piece(o, e, w)
    OBVIOUS
  <1>1. Size \in Nat /\ w \in Nat
    BY DocumentsConstants
  <1>2. CASE t = << >>
    <2>1. Piece(o, e, w) = << >> /\ out = << >>
      BY <1>0, <1>2
    <2>2. Bytes(o, Least(o + w, Size)) = << >>
      BY <1>1, <2>1, PieceNone
    <2> QED BY <2>1, <2>2
  <1>3. CASE t # << >> /\ Size < e
    <2>1. Piece(o, e, w) = Bytes(o, Least(o + w, Size))
      BY <1>1, <1>3, PieceShort
    <2> QED BY <1>0, <1>3, <2>1, Zenon
  <1>4. CASE t # << >> /\ ~(Size < e)
    <2>1. e <= Size /\ Piece(o, e, w) # << >>
      BY <1>1, <1>4
    <2> PICK k : k = Least(w, e - o)
      OBVIOUS
    <2>2. Len(Piece(o, e, w)) = k
      BY <1>1, <2>1, PieceLen
    <2>3. k \in 0..w /\ (k = w \/ k = e - o)
      BY <1>1 DEF Least
    <2>4. w - k \in 0..len /\ e + (w - k) <= end
      BY <1>1, <2>3
    <2>5. row[w - k] = Bytes(e, Least(e + (w - k), Size))
      BY <2>4 DEF RowFrom
    <2>6. out = t \o row[w - k]
      BY <1>0, <1>4, <2>2, Zenon
    <2>7. Piece(o, e, w) \o Bytes(e, Least(e + (w - Least(w, e - o)), Size)) = Bytes(o, Least(o + w, Size))
      BY <1>1, <2>1, PieceRest
    <2> QED BY <2>5, <2>6, <2>7, Zenon
  <1> QED BY <1>2, <1>3, <1>4

\* Where part i starts, and where the last one ends.
Pos(parts, end, i) == IF i <= Len(parts) THEN parts[i].offset ELSE end

LEMMA PartIs ==
  ASSUME NEW end \in Nat, NEW start \in 0..end, NEW parts, PartsFrom(parts, start, end),
         NEW i \in 1..Len(parts)
  PROVE  /\ parts[i].offset \in Nat /\ parts[i].limit \in Nat \ {0}
         /\ Pos(parts, end, i) = parts[i].offset
         /\ Pos(parts, end, i + 1) = parts[i].offset + parts[i].limit
         /\ Pos(parts, end, i + 1) <= end /\ Pos(parts, end, i) < Pos(parts, end, i + 1)
  <1> PICK p : p = parts[i]
    OBVIOUS
  <1>1. parts \in Seq([offset : Nat, limit : Nat \ {0}]) /\ Len(parts) \in Nat
    BY DEF PartsFrom
  <1>2. p \in [offset : Nat, limit : Nat \ {0}]
    BY <1>1, ElementOfSeq
  <1>3. p.offset \in Nat /\ p.limit \in Nat \ {0}
    BY <1>2
  <1>4. /\ p.offset + p.limit <= end
        /\ p.offset + p.limit = IF i < Len(parts) THEN parts[i + 1].offset ELSE end
    BY DEF PartsFrom
  <1>5. i <= Len(parts) /\ (i + 1 <= Len(parts) <=> i < Len(parts))
    BY <1>1
  <1>6. Pos(parts, end, i) = p.offset
    BY <1>5 DEF Pos
  <1>7. Pos(parts, end, i + 1) = p.offset + p.limit
    BY <1>4, <1>5 DEF Pos
  <1>9. Pos(parts, end, i) < Pos(parts, end, i + 1)
    BY <1>3, <1>6, <1>7
  <1> QED BY <1>3, <1>4, <1>6, <1>7, <1>9

LEMMA PartHolds ==
  ASSUME NEW end \in Nat, NEW start \in 0..end, NEW parts, PartsFrom(parts, start, end),
         NEW i \in 1..Len(parts)
  PROVE  PartBytes(parts[i]) = Bytes(Pos(parts, end, i), Least(Pos(parts, end, i + 1), Size))
  <1>1. /\ Pos(parts, end, i) = parts[i].offset
        /\ Pos(parts, end, i + 1) = parts[i].offset + parts[i].limit
    BY PartIs
  <1>2. PartBytes(parts[i]) = Bytes(parts[i].offset, Least(parts[i].offset + parts[i].limit, Size))
    BY DEF PartBytes
  <1> QED BY <1>1, <1>2, Zenon

\* A part is short exactly when the document ends inside or before it.
LEMMA ShortIs ==
  ASSUME NEW end \in Nat, NEW start \in 0..end, NEW parts, PartsFrom(parts, start, end),
         NEW i \in 1..Len(parts)
  PROVE  Short(parts, i) <=> Size < Pos(parts, end, i + 1)
  <1> PICK o : o = Pos(parts, end, i)
    OBVIOUS
  <1> PICK e : e = Pos(parts, end, i + 1)
    OBVIOUS
  <1>1. Size \in Nat
    BY DocumentsConstants
  <1>2. o \in Nat /\ e \in Nat /\ o < e /\ parts[i].limit = e - o
    <2>1. parts[i].offset \in Nat /\ parts[i].limit \in Nat \ {0}
          /\ Pos(parts, end, i) = parts[i].offset
          /\ Pos(parts, end, i + 1) = parts[i].offset + parts[i].limit
      BY PartIs
    <2>2. o = parts[i].offset /\ e = parts[i].offset + parts[i].limit
      BY <2>1
    <2>3. o \in Nat /\ e \in Nat
      BY <2>1, <2>2
    <2> QED BY <2>1, <2>2, <2>3
  <1>3. PartBytes(parts[i]) = Bytes(o, Least(e, Size))
    BY PartHolds
  <1>4. CASE Least(e, Size) <= o
    <2>1. Least(e, Size) \in Nat
      BY <1>1, <1>2 DEF Least
    <2>2. PartBytes(parts[i]) = << >>
      BY <1>2, <1>3, <1>4, <2>1, BytesNone
    <2>3. Len(PartBytes(parts[i])) = 0
      BY <2>2
    <2>4. Size < e
      BY <1>1, <1>2, <1>4 DEF Least
    <2> QED BY <1>2, <2>3, <2>4 DEF Short
  <1>5. CASE ~(Least(e, Size) <= o)
    <2>1. Least(e, Size) \in Nat /\ o <= Least(e, Size)
      BY <1>1, <1>2, <1>5 DEF Least
    <2>2. Len(Bytes(o, Least(e, Size))) = Least(e, Size) - o
      BY <1>2, <2>1, BytesSeq
    <2>3. Short(parts, i) <=> Least(e, Size) - o < e - o
      BY <1>2, <1>3, <2>2 DEF Short
    <2>4. Least(e, Size) - o < e - o <=> Size < e
      BY <1>1, <1>2 DEF Least
    <2> QED BY <2>3, <2>4
  <1> QED BY <1>4, <1>5

\* Behind the end of the document there is nothing to write.
LEMMA StitchPast ==
  ASSUME NEW end \in Nat, NEW start \in 0..end, NEW parts, PartsFrom(parts, start, end),
         NEW surplus, NEW len \in Nat, NEW i \in 2..(Len(parts) + 1), NEW w \in 0..len,
         Size <= Pos(parts, end, i)
  PROVE  StitchFrom(parts, surplus, len)[i][w] = << >>
  <1>1. Len(parts) \in Nat
    BY DEF PartsFrom
  <1>2. i \in 1..(Len(parts) + 1) /\ ~Skips(parts, surplus, i) /\ i # 1
    BY <1>1 DEF Skips
  <1>3. CASE i > Len(parts) \/ w = 0
    BY <1>1, <1>2, <1>3, RowEnds
  <1>4. CASE ~(i > Len(parts) \/ w = 0)
    <2>1. i \in 1..Len(parts) /\ w \in Nat /\ w # 0
      BY <1>1, <1>2, <1>4
    <2> PICK o : o = Pos(parts, end, i)
      OBVIOUS
    <2> PICK e : e = Pos(parts, end, i + 1)
      OBVIOUS
    <2>2. o \in Nat /\ e \in Nat /\ o < e /\ PartBytes(parts[i]) = Bytes(o, Least(e, Size))
      <3>1. parts[i].offset \in Nat /\ parts[i].limit \in Nat \ {0}
            /\ o = parts[i].offset /\ e = parts[i].offset + parts[i].limit
        BY <2>1, PartIs
      <3>2. PartBytes(parts[i]) = Bytes(o, Least(e, Size))
        BY <2>1, PartHolds
      <3>3. o \in Nat /\ e \in Nat
        BY <3>1
      <3> QED BY <3>1, <3>2, <3>3, SMTT(40)
    <2> PICK b : b = Bytes(o, Least(e, Size))
      OBVIOUS
    <2> PICK t : t = SubSeq(b, 1, Least(w, Len(b)))
      OBVIOUS
    <2>3. Size <= o => t = << >>
      BY <2>1, <2>2, PieceIs
    <2>4. Taken(parts, surplus, i, w) = t
      BY <1>2, <2>2 DEF Taken, Kept
    <2>5. Taken(parts, surplus, i, w) = << >>
      BY <2>3, <2>4
    <2>6. StitchFrom(parts, surplus, len)[i][w] =
            IF Taken(parts, surplus, i, w) = << >> THEN << >>
            ELSE IF Short(parts, i) THEN Taken(parts, surplus, i, w)
            ELSE Taken(parts, surplus, i, w) \o
              StitchFrom(parts, surplus, len)[i + 1][w - Len(Taken(parts, surplus, i, w))]
      BY <1>1, <1>2, <1>4, RowTakes
    <2> QED BY <2>5, <2>6, Zenon
  <1> QED BY <1>3, <1>4

\* One part of the stitch, if the parts behind it give what is wanted of them.
LEMMA StitchStep ==
  ASSUME NEW end \in Nat, NEW start \in 0..end, NEW parts, PartsFrom(parts, start, end),
         NEW surplus, NEW len \in Nat, NEW j \in 2..Len(parts), NEW x \in 0..len, x # 0,
         Pos(parts, end, j) + x <= end,
         RowFrom(StitchFrom(parts, surplus, len)[j + 1], Pos(parts, end, j + 1), len, end)
  PROVE  StitchFrom(parts, surplus, len)[j][x]
           = Bytes(Pos(parts, end, j), Least(Pos(parts, end, j) + x, Size))
  <1>1. Len(parts) \in Nat /\ Size \in Nat
    BY DocumentsConstants DEF PartsFrom
  <1>2. /\ j \in 1..(Len(parts) + 1) /\ j \in 1..Len(parts) /\ j # 1 /\ x \in Nat
        /\ ~(j > Len(parts) \/ x = 0)
    BY <1>1
  <1>3. ~Skips(parts, surplus, j)
    BY <1>2 DEF Skips
  <1>4. /\ parts[j].offset \in Nat /\ parts[j].limit \in Nat \ {0}
        /\ Pos(parts, end, j) = parts[j].offset
        /\ Pos(parts, end, j + 1) = parts[j].offset + parts[j].limit
        /\ Pos(parts, end, j + 1) <= end
    BY <1>2, PartIs
  <1>5. PartBytes(parts[j]) = Bytes(Pos(parts, end, j), Least(Pos(parts, end, j + 1), Size))
    BY <1>2, PartHolds
  <1>6. Short(parts, j) <=> Size < Pos(parts, end, j + 1)
    BY <1>2, ShortIs
  <1>7. StitchFrom(parts, surplus, len)[j][x] =
          IF Taken(parts, surplus, j, x) = << >> THEN << >>
          ELSE IF Short(parts, j) THEN Taken(parts, surplus, j, x)
          ELSE Taken(parts, surplus, j, x)
                 \o StitchFrom(parts, surplus, len)[j + 1][x - Len(Taken(parts, surplus, j, x))]
    BY <1>1, <1>2, <1>3, RowTakes
  <1>8. Taken(parts, surplus, j, x) = SubSeq(PartBytes(parts[j]), 1, Least(x, Len(PartBytes(parts[j]))))
    BY <1>2 DEF Taken, Kept
  <1> PICK o : o = Pos(parts, end, j)
    OBVIOUS
  <1> PICK e : e = Pos(parts, end, j + 1)
    OBVIOUS
  <1>9. o \in Nat /\ e \in Nat /\ o < e /\ e <= end
    BY <1>4
  <1>10. Taken(parts, surplus, j, x) = Piece(o, e, x)
    BY <1>5, <1>8 DEF Piece
  <1>11. StitchFrom(parts, surplus, len)[j][x] =
           Stitched(o, e, x, StitchFrom(parts, surplus, len)[j + 1])
    BY <1>6, <1>7, <1>10, Zenon DEF Stitched
  <1>12. RowFrom(StitchFrom(parts, surplus, len)[j + 1], e, len, end)
    OBVIOUS
  <1>13. o + x <= end
    OBVIOUS
  <1> PICK row : row = StitchFrom(parts, surplus, len)[j + 1]
    OBVIOUS
  <1>14. RowFrom(row, e, len, end)
    BY <1>12, Zenon
  <1>15. Stitched(o, e, x, row) = Bytes(o, Least(o + x, Size))
    BY <1>9, <1>13, <1>14, PieceStitched
  <1> QED BY <1>11, <1>15, Zenon

\* Nothing is wanted, or no part is left.
LEMMA StitchEnd ==
  ASSUME NEW end \in Nat, NEW start \in 0..end, NEW parts, PartsFrom(parts, start, end),
         NEW surplus, NEW len \in Nat, NEW j \in 1..(Len(parts) + 1), NEW x \in 0..len,
         j > Len(parts) \/ x = 0, Pos(parts, end, j) + x <= end
  PROVE  StitchFrom(parts, surplus, len)[j][x]
           = Bytes(Pos(parts, end, j), Least(Pos(parts, end, j) + x, Size))
  <1>1. Len(parts) \in Nat /\ Size \in Nat
    BY DocumentsConstants DEF PartsFrom
  <1>2. StitchFrom(parts, surplus, len)[j][x] = << >>
    BY <1>1, RowEnds
  <1> PICK o : o = Pos(parts, end, j)
    OBVIOUS
  <1>3. o \in Nat /\ x = 0
    <2>1. CASE j > Len(parts)
      <3>1. o = end
        BY <1>1, <2>1 DEF Pos
      <3>2. end + x <= end
        BY <3>1
      <3> QED BY <3>1, <3>2
    <2>2. CASE ~(j > Len(parts))
      <3>1. j \in 1..Len(parts)
        BY <1>1, <2>2
      <3>2. parts[j].offset \in Nat /\ Pos(parts, end, j) = parts[j].offset
        BY <3>1, PartIs, SMTT(40)
      <3> QED BY <2>2, <3>2
    <2> QED BY <2>1, <2>2
  <1>4. Least(o + x, Size) <= o /\ Least(o + x, Size) \in Nat
    BY <1>1, <1>3 DEF Least
  <1>5. Bytes(o, Least(o + x, Size)) = << >>
    BY <1>3, <1>4, BytesNone
  <1> QED BY <1>2, <1>5

\* A row gives its bytes if the next one does, and the one behind the last part does.
LEMMA RowStep ==
  ASSUME NEW end \in Nat, NEW start \in 0..end, NEW parts, PartsFrom(parts, start, end),
         NEW surplus, NEW len \in Nat, NEW j \in 2..Len(parts),
         RowFrom(StitchFrom(parts, surplus, len)[j + 1], Pos(parts, end, j + 1), len, end)
  PROVE  RowFrom(StitchFrom(parts, surplus, len)[j], Pos(parts, end, j), len, end)
  <1>1. ASSUME NEW x \in 0..len, Pos(parts, end, j) + x <= end
        PROVE  StitchFrom(parts, surplus, len)[j][x]
                 = Bytes(Pos(parts, end, j), Least(Pos(parts, end, j) + x, Size))
    <2>1. CASE x = 0
      <3>1. j \in 1..(Len(parts) + 1)
        BY DEF PartsFrom
      <3> QED BY <1>1, <2>1, <3>1, StitchEnd
    <2>2. CASE x # 0
      BY <1>1, <2>2, StitchStep
    <2> QED BY <2>1, <2>2
  <1> QED BY <1>1 DEF RowFrom

LEMMA LastRow ==
  ASSUME NEW end \in Nat, NEW start \in 0..end, NEW parts, PartsFrom(parts, start, end),
         NEW surplus, NEW len \in Nat, NEW j \in 1..(Len(parts) + 1), j > Len(parts)
  PROVE  RowFrom(StitchFrom(parts, surplus, len)[j], Pos(parts, end, j), len, end)
  <1>1. ASSUME NEW x \in 0..len, Pos(parts, end, j) + x <= end
        PROVE  StitchFrom(parts, surplus, len)[j][x]
                 = Bytes(Pos(parts, end, j), Least(Pos(parts, end, j) + x, Size))
    BY <1>1, StitchEnd
  <1> QED BY <1>1 DEF RowFrom

\* From the second part on, the stitch gives the bytes that are wanted.
LEMMA StitchRest ==
  ASSUME NEW end \in Nat, NEW start \in 0..end, NEW parts, PartsFrom(parts, start, end),
         NEW surplus, NEW len \in Nat, NEW i \in 2..(Len(parts) + 1)
  PROVE  RowFrom(StitchFrom(parts, surplus, len)[i], Pos(parts, end, i), len, end)
  <1> DEFINE Right(k) == RowFrom(StitchFrom(parts, surplus, len)[k], Pos(parts, end, k), len, end)
  <1> PICK n : n = Len(parts)
    OBVIOUS
  <1>1. n \in Nat /\ i \in Nat /\ i <= n + 1 /\ 2 <= i
    BY DEF PartsFrom
  <1>2. \A k \in 2..n : Right(k + 1) => Right(k)
    BY RowStep
  <1>3. \A k \in 1..(n + 1) : k > n => Right(k)
    BY LastRow
  <1> DEFINE T == {m \in 0 .. n + 1 - i : ~Right(n + 1 - m)}
  <1> HIDE DEF Right
  <1> SUFFICES ASSUME ~Right(i) PROVE FALSE
    BY DEF Right
  <1>5. T \in SUBSET Nat /\ T # {}
    <2>1. n + 1 - i \in 0 .. n + 1 - i /\ n + 1 - (n + 1 - i) = i
      BY <1>1
    <2>2. n + 1 - i \in T
      BY <2>1
    <2>3. T \subseteq 0 .. n + 1 - i
      OBVIOUS
    <2> HIDE DEF T
    <2> QED BY <1>1, <2>2, <2>3
  <1>6. PICK m \in T : \A k \in T : m <= k
    <2> HIDE DEF T
    <2> QED BY <1>5, Smallest
  <1> PICK j : j = n + 1 - m
    OBVIOUS
  <1>7. ~Right(j)
    BY <1>6
  <1>8. m \in 0 .. n + 1 - i /\ j \in Nat /\ 2 <= j /\ j <= n + 1 /\ j \in 1..(n + 1)
    BY <1>1, <1>6
  <1>9. ~(j > n)
    BY <1>3, <1>7, <1>8
  <1>10. j \in 2..n /\ m # 0 /\ m - 1 \in 0 .. n + 1 - i /\ ~(m <= m - 1) /\ n + 1 - (m - 1) = j + 1
    BY <1>1, <1>8, <1>9
  <1>11. m - 1 \notin T
    <2> HIDE DEF T
    <2> QED BY <1>6, <1>10
  <1>12. Right(j + 1)
    BY <1>10, <1>11
  <1> QED BY <1>2, <1>7, <1>10, <1>12

\* The first part without its surplus is the range from the offset.
LEMMA KeptFirst ==
  ASSUME NEW start \in Nat, NEW off \in Nat, NEW e \in Nat, start <= off, off < e, NEW parts,
         PartBytes(parts[1]) = Bytes(start, Least(e, Size))
  PROVE  /\ Skips(parts, off - start, 1) => Size <= off
         /\ ~Skips(parts, off - start, 1) => Kept(parts, off - start, 1) = Bytes(off, Least(e, Size))
  <1>1. Size \in Nat
    BY DocumentsConstants
  <1> PICK z : z = Least(e, Size)
    OBVIOUS
  <1>2. z \in Nat /\ (z = e \/ z = Size)
    BY <1>1 DEF Least
  <1>3. CASE z <= start
    <2>1. PartBytes(parts[1]) = << >>
      BY <1>2, <1>3, BytesNone
    <2>2. Len(PartBytes(parts[1])) = 0
      BY <2>1
    <2>3. Size <= off
      BY <1>1, <1>2, <1>3
    <2>4. ASSUME ~Skips(parts, off - start, 1) PROVE Kept(parts, off - start, 1) = Bytes(off, z)
      <3>1. off = start
        BY <2>2, <2>4 DEF Skips
      <3>2. off - start + 1 = 1
        BY <3>1
      <3>3. Kept(parts, off - start, 1) = SubSeq(<< >>, 1, 0)
        BY <2>1, <2>2, <3>2 DEF Kept
      <3>4. SubSeq(<< >>, 1, 0) = << >>
        OBVIOUS
      <3>5. Bytes(off, z) = << >>
        BY <1>2, <1>3, <3>1, BytesNone
      <3> QED BY <3>3, <3>4, <3>5
    <2> QED BY <2>3, <2>4
  <1>4. CASE ~(z <= start)
    <2>1. start <= z
      BY <1>2, <1>4
    <2>2. Len(PartBytes(parts[1])) = z - start
      BY <1>2, <2>1, BytesSeq
    <2>3. ASSUME Skips(parts, off - start, 1) PROVE Size <= off
      <3>1. z - start <= off - start
        BY <2>2, <2>3 DEF Skips
      <3> QED BY <1>1, <1>2, <3>1
    <2>4. ASSUME ~Skips(parts, off - start, 1) PROVE Kept(parts, off - start, 1) = Bytes(off, z)
      <3>1. off - start <= z - start
        <4>1. ~(off - start > 0) \/ ~(z - start <= off - start)
          BY <2>2, <2>4 DEF Skips
        <4> QED BY <1>2, <2>1, <4>1
      <3> PICK x : x = off - start
        OBVIOUS
      <3> PICK y : y = z - start
        OBVIOUS
      <3>2. x \in 0 .. z - start /\ y \in x .. z - start /\ start + x = off /\ start + y = z
        BY <1>2, <2>1, <3>1
      <3>3. Kept(parts, off - start, 1) = SubSeq(Bytes(start, z), x + 1, y)
        BY <2>2 DEF Kept
      <3>4. SubSeq(Bytes(start, z), x + 1, y) = Bytes(start + x, start + y)
        BY <1>2, <2>1, <3>2, BytesCut
      <3> QED BY <3>2, <3>3, <3>4
    <2> QED BY <2>3, <2>4
  <1> QED BY <1>3, <1>4

\* Dropping the surplus and stitching the parts gives the bytes asked for.
LEMMA StitchExact ==
  ASSUME NEW end \in Nat, NEW start \in 0..end, NEW parts, PartsFrom(parts, start, end),
         NEW off \in Nat, NEW len \in Nat, len # 0, start <= off, off + len <= end,
         off - start < FirstLimit(start, end)
  PROVE  StitchFrom(parts, off - start, len)[1][len] = Bytes(off, Least(off + len, Size))
  <1>1. Len(parts) \in Nat /\ Size \in Nat /\ start \in Nat /\ start < end /\ off < end
    BY DocumentsConstants DEF PartsFrom
  <1>2. 1 \in 1..Len(parts) /\ parts[1] = [offset |-> start, limit |-> FirstLimit(start, end)]
    <2>1. ~(start >= end)
      BY <1>1
    <2>2. parts # << >> /\ parts \in Seq([offset : Nat, limit : Nat \ {0}])
      BY <2>1 DEF PartsFrom
    <2>3. Len(parts) # 0
      BY <2>2
    <2> QED BY <1>1, <2>3 DEF PartsFrom
  <1>3. /\ parts[1].offset = start /\ parts[1].limit = FirstLimit(start, end)
        /\ 1 \in 1..(Len(parts) + 1) /\ 2 \in 2..(Len(parts) + 1) /\ len \in 0..len
        /\ ~(1 > Len(parts) \/ len = 0) /\ 1 + 1 = 2
    BY <1>1, <1>2
  <1> PICK e : e = Pos(parts, end, 2)
    OBVIOUS
  <1>4. e \in Nat /\ off < e /\ e <= end
    <2>1. /\ parts[1].limit \in Nat \ {0}
          /\ Pos(parts, end, 1 + 1) = parts[1].offset + parts[1].limit /\ Pos(parts, end, 1 + 1) <= end
      BY <1>2, PartIs
    <2>2. e = start + FirstLimit(start, end) /\ FirstLimit(start, end) \in Nat /\ e <= end
      BY <1>3, <2>1
    <2> QED BY <1>1, <2>2
  <1>5. PartBytes(parts[1]) = Bytes(start, Least(e, Size))
    <2>1. Pos(parts, end, 1) = parts[1].offset
      BY <1>2, PartIs
    <2>2. PartBytes(parts[1]) = Bytes(Pos(parts, end, 1), Least(Pos(parts, end, 1 + 1), Size))
      BY <1>2, PartHolds
    <2> QED BY <1>3, <2>1, <2>2
  <1> PICK g : g = StitchFrom(parts, off - start, len)
    OBVIOUS
  <1>6. CASE Skips(parts, off - start, 1)
    <2>1. g[1][len] = g[2][len]
      <3>1. StitchFrom(parts, off - start, len)[1][len] = StitchFrom(parts, off - start, len)[2][len]
        BY <1>1, <1>3, <1>6, RowSkips
      <3> QED BY <3>1, Zenon
    <2>2. Size <= off
      BY <1>1, <1>4, <1>5, <1>6, KeptFirst
    <2>3. Size <= e
      BY <1>1, <1>4, <2>2
    <2>4. g[2][len] = << >>
      BY <1>3, <2>3, StitchPast
    <2>5. Least(off + len, Size) \in Nat /\ Least(off + len, Size) <= off
      BY <1>1, <2>2 DEF Least
    <2>6. Bytes(off, Least(off + len, Size)) = << >>
      BY <2>5, BytesNone
    <2> QED BY <2>1, <2>4, <2>6
  <1>7. CASE ~Skips(parts, off - start, 1)
    <2>1. Taken(parts, off - start, 1, len) = Piece(off, e, len)
      <3>1. Kept(parts, off - start, 1) = Bytes(off, Least(e, Size))
        BY <1>1, <1>4, <1>5, <1>7, KeptFirst
      <3> QED BY <3>1 DEF Taken, Piece
    <2>2. Short(parts, 1) <=> Size < e
      BY <1>2, <1>3, ShortIs
    <2>3. g[1][len] = IF Taken(parts, off - start, 1, len) = << >> THEN << >>
            ELSE IF Short(parts, 1) THEN Taken(parts, off - start, 1, len)
            ELSE Taken(parts, off - start, 1, len) \o g[1 + 1][len - Len(Taken(parts, off - start, 1, len))]
      <3>1. StitchFrom(parts, off - start, len)[1][len] =
              IF Taken(parts, off - start, 1, len) = << >> THEN << >>
              ELSE IF Short(parts, 1) THEN Taken(parts, off - start, 1, len)
              ELSE Taken(parts, off - start, 1, len) \o
                StitchFrom(parts, off - start, len)[1 + 1][len - Len(Taken(parts, off - start, 1, len))]
        BY <1>1, <1>3, <1>7, RowTakes
      <3> QED BY <3>1, Zenon
    <2>4. g[1][len] = Stitched(off, e, len, g[2])
      BY <1>3, <2>1, <2>2, <2>3, Zenon DEF Stitched
    <2>5. RowFrom(StitchFrom(parts, off - start, len)[2], Pos(parts, end, 2), len, end)
      BY <1>3, StitchRest
    <2>6. RowFrom(g[2], e, len, end)
      BY <2>5, Zenon
    <2>7. Stitched(off, e, len, g[2]) = Bytes(off, Least(off + len, Size))
      BY <1>3, <1>4, <2>6, PieceStitched
    <2> QED BY <2>4, <2>7, Zenon
  <1> QED BY <1>6, <1>7
-----------------------------------------------------------------------------
(* The range that is asked for lies in the aligned range. *)

LEMMA AlignedRange ==
  ASSUME NEW off \in Nat, NEW len \in Nat, len # 0
  PROVE  /\ AlignedEnd(off + len) \in Nat /\ AlignedStart(off) \in 0..AlignedEnd(off + len)
         /\ AlignedStart(off) <= off /\ off + len <= AlignedEnd(off + len)
         /\ off - AlignedStart(off) < FirstLimit(AlignedStart(off), AlignedEnd(off + len))
  <1> PICK A : A = Alignment
    OBVIOUS
  <1> PICK P : P = PartSize
    OBVIOUS
  <1>1. A \in Nat \ {0} /\ P \in Nat \ {0} /\ P % A = 0
    BY DocumentsConstants
  <1> PICK a : a = off \div A
    OBVIOUS
  <1> PICK s : s = AlignedStart(off)
    OBVIOUS
  <1>2. a \in Nat /\ s = a * A /\ s \in Nat /\ s <= off /\ off - s < A
    <2>1. a \in Nat /\ off = A * a + (off % A) /\ off % A \in 0 .. A - 1
      BY <1>1
    <2>2. s = a * A /\ a * A = A * a /\ A * a \in Nat
      BY <1>1, <2>1 DEF AlignedStart
    <2> QED BY <1>1, <2>1, <2>2
  <1> PICK z : z = AlignedEnd(off + len)
    OBVIOUS
  <1>3. z \in Nat /\ off + len <= z
    <2> PICK w : w = off + len + A - 1
      OBVIOUS
    <2> PICK c : c = w \div A
      OBVIOUS
    <2>1. w \in Nat
      BY <1>1
    <2>2. c \in Nat /\ w = A * c + (w % A) /\ w % A \in 0 .. A - 1
      BY <1>1, <2>1
    <2>3. z = c * A /\ c * A = A * c /\ A * c \in Nat
      BY <1>1, <2>2 DEF AlignedEnd
    <2> QED BY <1>1, <2>2, <2>3
  <1> PICK q : q = s \div P
    OBVIOUS
  <1> PICK x : x = (q + 1) * P
    OBVIOUS
  <1>4. x \in Nat /\ s < x
    <2>1. s < (s \div P + 1) * P /\ (s \div P + 1) * P \in Nat
      BY <1>1, <1>2, NextBoundary
    <2> QED BY <2>1
  \* The boundary is a multiple of the alignment too.
  <1>5. s + A <= x
    <2> PICK r : r = P \div A
      OBVIOUS
    <2>1. r \in Nat /\ P = r * A
      <3>1. r \in Nat /\ P = A * r + (P % A)
        BY <1>1
      <3> QED BY <1>1, <3>1
    <2>2. q \in Nat
      BY <1>1, <1>2
    <2> PICK b : b = (q + 1) * r
      OBVIOUS
    <2>3. b \in Nat /\ x = b * A
      BY <1>1, <2>1, <2>2, SMTT(40)
    <2>4. a < b
      <3> SUFFICES ASSUME ~(a < b) PROVE FALSE
        OBVIOUS
      <3>1. b * A <= a * A
        <4>1. CASE a = b
          BY <4>1, <1>2, <1>4, <2>3
        <4>2. CASE a # b
          <5>1. b < a
            BY <1>2, <2>3, <4>2
          <5>2. b * A + A <= a * A /\ b * A \in Nat /\ a * A \in Nat
            BY <1>1, <1>2, <2>3, <5>1, Multiples
          <5> QED BY <1>1, <5>2
        <4> QED BY <4>1, <4>2
      <3> QED BY <1>2, <1>4, <2>3, <3>1
    <2>5. a * A + A <= b * A
      BY <1>1, <1>2, <2>3, <2>4, Multiples
    <2> QED BY <1>2, <2>3, <2>5
  <1>6. A <= P
    <2>1. P < A => P % A = P
      BY <1>1
    <2> QED BY <1>1, <2>1
  <1>7. off - s < Least(Least(P, z - s), x - s)
    <2>1. off - s < P
      BY <1>1, <1>2, <1>6
    <2>2. off - s < z - s
      BY <1>2, <1>3
    <2>3. off - s < x - s
      BY <1>1, <1>2, <1>4, <1>5
    <2> QED BY <2>1, <2>2, <2>3 DEF Least
  <1>8. FirstLimit(s, z) = Least(Least(P, z - s), x - s)
    BY DEF FirstLimit
  <1>9. s \in 0..z
    BY <1>2, <1>3
  <1> QED BY <1>2, <1>3, <1>7, <1>8, <1>9

\* What a range download returns.
LEMMA RangeIsExact ==
  ASSUME NEW off \in Nat, NEW len \in Nat, len # 0
  PROVE  Stitch(planRangeParts(AlignedStart(off), AlignedEnd(off + len)), off, len)
           = Bytes(off, Least(off + len, Size))
  <1> PICK s : s = AlignedStart(off)
    OBVIOUS
  <1> PICK z : z = AlignedEnd(off + len)
    OBVIOUS
  <1>1. z \in Nat /\ s \in 0..z /\ s <= off /\ off + len <= z /\ off - s < FirstLimit(s, z)
    BY AlignedRange
  <1> PICK parts : parts = planRangeParts(s, z)
    OBVIOUS
  <1>2. PartsFrom(parts, s, z)
    BY <1>1, PlanParts
  <1>3. StitchFrom(parts, off - s, len)[1][len] = Bytes(off, Least(off + len, Size))
    BY <1>1, <1>2, StitchExact
  <1>4. Stitch(parts, off, len) = StitchFrom(parts, off - s, len)[1][len]
    BY StitchIs
  <1> QED BY <1>3, <1>4

-----------------------------------------------------------------------------
(* Downloads *)

(* What a call asks for, and what it has when it is done.                  *)
Asks(d, x) ==
  /\ DOMAIN x = Fields
  /\ x.off \in Nat /\ x.len \in Nat /\ x.len # 0
  /\ d \in Whole => x.off = 0 /\ x.len = Size
  /\ x.pc = "done" => x.out = Bytes(x.off, Least(x.off + x.len, Size))

ExactInv ==
  /\ DOMAIN down = Calls /\ down = [d \in Calls |-> down[d]]
  /\ \A d \in Calls : Asks(d, down[d])

LEMMA IdleAsks == \A d \in Calls : Asks(d, Idle)
  <1>1. Size \in Nat /\ Size # 0
    BY DocumentsConstants
  <1>2. DOMAIN Idle = Fields /\ Idle.off = 0 /\ Idle.len = Size /\ Idle.pc = "idle"
    BY DEF Idle, Fields
  <1> QED BY <1>1, <1>2 DEF Asks

LEMMA AskedStep ==
  ASSUME ExactInv, NEW d \in Calls, NEW x, Asks(d, x), down' = [down EXCEPT ![d] = x]
  PROVE  ExactInv'
  <1>1. DOMAIN down' = Calls /\ down' = [c \in Calls |-> down'[c]]
    BY DEF ExactInv
  <1>2. \A c \in Calls : Asks(c, down'[c])
    BY DEF ExactInv
  <1>3. \A c \in Calls : Asks(c, down[c])'
    BY <1>2 DEF Asks
  <1> QED BY <1>1, <1>3 DEF ExactInv

(* A step that leaves the request alone and is not the end of the call.    *)
LEMMA RequestKept ==
  ASSUME ExactInv, NEW d \in Calls, NEW x, DOMAIN x = Fields, x.off = down[d].off,
         x.len = down[d].len, x.pc # "done", down' = [down EXCEPT ![d] = x]
  PROVE  ExactInv'
  <1>1. Asks(d, x)
    BY DEF ExactInv, Asks
  <1> QED BY <1>1, AskedStep

LEMMA ExactStep ==
  ASSUME ExactInv, [DocumentsNext]_documentVars
  PROVE  ExactInv'
  <1>0. /\ \A d \in Calls : DOMAIN down[d] = Fields /\ Asks(d, down[d])
        /\ DOMAIN down = Calls
    BY DEF ExactInv, Asks
  <1>1. ASSUME NEW d \in Calls, FetchDocument(d) PROVE ExactInv'
    <2> PICK pc : pc = IF docCache # NoDoc THEN "get" ELSE "refresh"
      OBVIOUS
    <2>1. PICK off \in (IF d \in Ranged THEN Offsets ELSE {0}),
               len \in (IF d \in Ranged THEN Lengths ELSE {Size}) :
            down' = [down EXCEPT ![d] = [Idle EXCEPT !.pc = pc,
                                             !.ref = docCache, !.off = off, !.len = len]]
      BY <1>1 DEF FetchDocument
    <2> PICK x : x = [Idle EXCEPT !.pc = pc, !.ref = docCache, !.off = off, !.len = len]
      OBVIOUS
    <2>2. DOMAIN x = Fields /\ x.pc = pc /\ x.off = off /\ x.len = len /\ pc # "done"
      BY IdleFields DEF Idle, Fields
    <2>3. off \in Nat /\ len \in Nat /\ len # 0 /\ (d \in Whole => off = 0 /\ len = Size)
      <3>1. Offsets \subseteq Nat /\ Lengths \subseteq Nat \ {0} /\ Size \in Nat \ {0}
        BY DocumentsConstants
      <3>2. d \in Whole => d \notin Ranged
        BY DocumentsConstants
      <3>3. CASE d \in Ranged
        BY <3>1, <3>2, <3>3
      <3>4. CASE d \notin Ranged
        BY <3>1, <3>4
      <3> QED BY <3>3, <3>4
    <2>4. Asks(d, x)
      BY <2>2, <2>3 DEF Asks
    <2> QED BY <2>1, <2>4, AskedStep
  <1>2. ASSUME NEW d \in Calls, MessageReturns(d) PROVE ExactInv'
    <2> PICK x : x = [down[d] EXCEPT !.pc = "store", !.ref = fileRef]
      OBVIOUS
    <2>1. DOMAIN x = Fields /\ x.pc = "store" /\ x.off = down[d].off /\ x.len = down[d].len
      BY <1>0 DEF Fields
    <2>2. down' = [down EXCEPT ![d] = x]
      BY <1>0, <1>2 DEF MessageReturns
    <2> QED BY <2>1, <2>2, RequestKept
  <1>3. ASSUME NEW d \in Calls, StoreDocument(d) PROVE ExactInv'
    <2> PICK x : x = [down[d] EXCEPT !.pc = "get"]
      OBVIOUS
    <2>1. DOMAIN x = Fields /\ x.pc = "get" /\ x.off = down[d].off /\ x.len = down[d].len
      BY <1>0 DEF Fields
    <2>2. down' = [down EXCEPT ![d] = x]
      BY <1>0, <1>3 DEF StoreDocument
    <2> QED BY <2>1, <2>2, RequestKept
  <1>4. ASSUME NEW d \in Calls, WholeReturns(d) PROVE ExactInv'
    <2> PICK x : x = [down[d] EXCEPT !.pc = "done", !.out = Bytes(0, Size)]
      OBVIOUS
    <2>1. DOMAIN x = Fields /\ x.off = down[d].off /\ x.len = down[d].len /\ x.out = Bytes(0, Size)
      BY <1>0 DEF Fields
    <2>2. down' = [down EXCEPT ![d] = x]
      BY <1>0, <1>4 DEF WholeReturns
    <2>3. x.off = 0 /\ x.len = Size
      BY <1>0, <1>4, <2>1 DEF WholeReturns, Asks
    <2>4. Least(0 + Size, Size) = Size
      BY DocumentsConstants DEF Least
    <2>5. x.out = Bytes(x.off, Least(x.off + x.len, Size))
      BY <2>1, <2>3, <2>4
    <2>6. Asks(d, x)
      BY <1>0, <2>1, <2>5 DEF Asks
    <2> QED BY <2>2, <2>6, AskedStep
  <1>5. ASSUME NEW d \in Calls, PartReturns(d) PROVE ExactInv'
    <2>1. PICK i : down' = [down EXCEPT ![d].got = @ \cup {i}] /\ down[d].pc = "get"
      BY <1>5 DEF PartReturns
    <2> PICK x : x = [down[d] EXCEPT !.got = down[d].got \cup {i}]
      OBVIOUS
    <2>2. DOMAIN x = Fields /\ x.pc = "get" /\ x.off = down[d].off /\ x.len = down[d].len
      BY <1>0, <2>1 DEF Fields
    <2>3. down' = [down EXCEPT ![d] = x]
      BY <1>0, <2>1
    <2> QED BY <2>2, <2>3, RequestKept
  <1>6. ASSUME NEW d \in Calls, RangeReturns(d) PROVE ExactInv'
    <2> PICK out : out = Stitch(Parts(d), down[d].off, down[d].len)
      OBVIOUS
    <2> PICK x : x = [down[d] EXCEPT !.pc = "done", !.got = {}, !.out = out]
      OBVIOUS
    <2>1. DOMAIN x = Fields /\ x.off = down[d].off /\ x.len = down[d].len /\ x.out = out
      BY <1>0 DEF Fields
    <2>2. down' = [down EXCEPT ![d] = x]
      BY <1>0, <1>6 DEF RangeReturns
    <2>3. /\ down[d].off \in Nat /\ down[d].len \in Nat /\ down[d].len # 0
          /\ d \in Whole => down[d].off = 0 /\ down[d].len = Size
      BY <1>0 DEF Asks
    <2>4. out = Bytes(down[d].off, Least(down[d].off + down[d].len, Size))
      BY <2>3, RangeIsExact DEF Parts
    <2>5. Asks(d, x)
      BY <2>1, <2>3, <2>4 DEF Asks
    <2> QED BY <2>2, <2>5, AskedStep
  <1>7. ASSUME NEW d \in Calls, ReferenceExpired(d) PROVE ExactInv'
    <2> PICK x : x = [down[d] EXCEPT !.pc = "expired"]
      OBVIOUS
    <2> PICK y : y = AfterExpiry(d)
      OBVIOUS
    <2>1. /\ DOMAIN x = Fields /\ x.pc = "expired" /\ x.off = down[d].off /\ x.len = down[d].len
          /\ DOMAIN y = Fields /\ y.pc = "refresh" /\ y.off = down[d].off /\ y.len = down[d].len
      BY <1>0 DEF Fields, AfterExpiry
    <2>2. down' = [down EXCEPT ![d] = x] \/ down' = [down EXCEPT ![d] = y]
      BY <1>0, <1>7 DEF ReferenceExpired
    <2> QED BY <2>1, <2>2, RequestKept
  <1>8. ASSUME NEW d \in Calls, DownloadFails(d) PROVE ExactInv'
    <2> PICK x : x = [Idle EXCEPT !.pc = "failed"]
      OBVIOUS
    <2>1. DOMAIN x = Fields /\ x.pc = "failed" /\ x.off = Idle.off /\ x.len = Idle.len
      BY IdleFields DEF Idle, Fields
    <2>2. Asks(d, x)
      BY <2>1, IdleAsks DEF Asks
    <2> QED BY <1>8, <2>2, AskedStep DEF DownloadFails
  <1>9. ASSUME NEW d \in Calls, DownloadAgain(d) PROVE ExactInv'
    BY <1>9, IdleAsks, AskedStep DEF DownloadAgain
  <1>10. CASE RotateReference
    <2>1. DOMAIN down' = Calls /\ down' = [d \in Calls |-> down'[d]]
          /\ \A d \in Calls : down'[d] = [down[d] EXCEPT !.rotated =
               down[d].rotated \/ down[d].pc \in {"refresh", "store", "get"}]
      BY <1>10 DEF RotateReference
    <2>2. ASSUME NEW d \in Calls PROVE Asks(d, down'[d])
      <3> PICK x : x = down'[d]
        OBVIOUS
      <3>1. /\ DOMAIN x = Fields /\ x.off = down[d].off /\ x.len = down[d].len
            /\ x.pc = down[d].pc /\ x.out = down[d].out
        BY <1>0, <2>1, ZenonT(40) DEF Fields
      <3>2. Asks(d, x)
        BY <1>0, <3>1 DEF Asks
      <3> QED BY <3>2
    <2>3. \A d \in Calls : Asks(d, down[d])'
      BY <2>2 DEF Asks
    <2> QED BY <2>1, <2>3 DEF ExactInv
  <1>11. CASE UNCHANGED down
    <2>1. \A d \in Calls : Asks(d, down[d])'
      BY <1>0, <1>11 DEF Asks
    <2> QED BY <1>11, <2>1 DEF ExactInv
  <1> QED BY <1>1, <1>2, <1>3, <1>4, <1>5, <1>6, <1>7, <1>8, <1>9, <1>10, <1>11
          DEF DocumentsNext, documentVars, DocumentAges

(* A download that succeeds returns the bytes it was asked for and no      *)
(* others, for a document of any length, any offset and length of a range, *)
(* any alignment and any size of a part that is a multiple of it.          *)
THEOREM DownloadsExact == DocumentsSpec => []DownloadExact
  <1>1. DocumentsInit => ExactInv
    <2> SUFFICES ASSUME DocumentsInit PROVE ExactInv
      OBVIOUS
    <2>1. down = [d \in Calls |-> Idle]
      BY DEF DocumentsInit
    <2>2. \A d \in Calls : Asks(d, down[d])
      BY <2>1, IdleAsks
    <2> QED BY <2>1, <2>2 DEF ExactInv
  <1>2. ExactInv /\ [DocumentsNext]_documentVars => ExactInv'
    BY ExactStep
  <1>3. ExactInv => DownloadExact
    BY DEF ExactInv, Asks, DownloadExact
  <1> QED BY <1>1, <1>2, <1>3, PTL DEF DocumentsSpec

-----------------------------------------------------------------------------
(***************************************************************************)
(* RateControl                                                             *)
(***************************************************************************)

Stored == [mode : {"adaptive", "manual"}, pin : Nat, ok : Nat, flood : Nat]
Trackers == [seq : Nat, pending : SUBSET (Nat \X Lanes), ok : Nat, flood : Nat,
             downFlood : Nat]
Controllers == [running : BOOLEAN, pinned : Nat, manual : BOOLEAN, cap : MinCap .. MaxCap,
                lastFlood : Nat, lastOK : Nat, quiet : 0 .. QuietTicks, first : BOOLEAN]
Views == [flood : Nat, ok : Nat]
Pollers == [pin : Nat \cup {-1}, mode : {"unread", "adaptive", "manual"}, settled : BOOLEAN]
Histories == [unseen : Nat, seen : Nat, calm : 0 .. QuietTicks, seeded : Nat]

RateTypeOK ==
  /\ kv \in Stored /\ tracker \in Trackers /\ limit \in Nat
  /\ ctl \in Controllers /\ view \in Views \cup {NoView}
  /\ poll \in Pollers /\ mounts \in Nat /\ hist \in Histories

----------------------------------------------------------------------------
(* The inductive invariant.                                                *)

(* Once the poller has run, the controller has the pin and the mode it     *)
(* applied last and the limiter what they call for; the poller is settled  *)
(* only on what is stored.                                                 *)
PollApplied ==
  /\ poll.mode = "unread" => ~poll.settled
  /\ poll.mode # "unread" =>
       /\ ctl.pinned = poll.pin
       /\ ctl.manual <=> poll.mode = "manual"
       /\ IF poll.mode = "manual" \/ poll.pin > 0 THEN limit = poll.pin ELSE limit = ctl.cap
  /\ poll.settled => poll.pin = kv.pin /\ poll.mode = kv.mode

(* What the controller has taken note of: the seeded total counts as news  *)
(* to its first step.                                                      *)
Noted == IF ctl.first THEN hist.seeded ELSE ctl.lastFlood

(* The tracker's total is what was noted, what the pending sample has seen *)
(* and what came after it.                                                 *)
FloodsAccounted ==
  /\ ctl.first => ctl.lastFlood = 0
  /\ view = NoView => tracker.flood = Noted + hist.unseen
  /\ view # NoView => /\ view.flood = Noted + hist.seen
                      /\ tracker.flood = view.flood + hist.unseen

(* The controller counts no more quiet ticks than there were.              *)
QuietCounted ==
  /\ view = NoView => ctl.quiet <= hist.calm
  /\ view # NoView => \/ hist.seen > 0
                      \/ ctl.quiet < hist.calm
                      \/ hist.calm = QuietTicks

RateInv == RateTypeOK /\ PollApplied /\ FloodsAccounted /\ QuietCounted

----------------------------------------------------------------------------
(* One lemma per action.                                                   *)

(* A sample is never mistaken for the absence of one.                      *)
LEMMA ViewIsView == \A v \in Views : v # NoView
  <1>1. \A v \in Views : v.flood # -1
    BY DEF Views
  <1>2. NoView.flood = -1
    BY DEF NoView
  <1> QED BY <1>1, <1>2

(* The caps the controller computes stay between floor and ceiling, and    *)
(* halving lowers a cap above the floor.                                   *)
LEMMA CapRange ==
  ASSUME NEW cap \in MinCap .. MaxCap
  PROVE  /\ Halved(cap) \in MinCap .. MaxCap /\ Raised(cap) \in MinCap .. MaxCap
         /\ StartCap \in MinCap .. MaxCap
         /\ Raised(cap) >= cap
         /\ cap # MinCap => Halved(cap) < cap
         /\ cap = MinCap => Halved(cap) = cap
  <1>1. MinCap \in Nat \ {0} /\ MaxCap \in Nat /\ StepCap \in Nat /\ StartCap \in MinCap .. MaxCap
    BY RateConstants
  <1> QED BY <1>1 DEF Halved, Raised

(* A request begins.                                                       *)
LEMMA BeginInv ==
  ASSUME RateInv, NEW lane \in Lanes, Begin(lane)
  PROVE  RateInv'
  <1> USE DEF RateInv, Begin
  <1>1. RateTypeOK'
    <2>1. <<tracker.seq + 1, lane>> \in Nat \X Lanes
      BY DEF RateTypeOK, Trackers
    <2>2. tracker' \in Trackers
      BY <2>1 DEF RateTypeOK, Trackers
    <2> QED BY <2>2 DEF RateTypeOK
  <1>2. PollApplied'
    BY DEF PollApplied, RateTypeOK, Stored, Trackers, Controllers, Pollers, Histories
  <1>3. FloodsAccounted'
    BY DEF FloodsAccounted, Noted, RateTypeOK, Stored, Trackers, Controllers, Pollers, Histories
  <1>4. QuietCounted'
    BY DEF QuietCounted, RateTypeOK, Stored, Trackers, Controllers, Pollers, Histories
  <1> QED BY <1>1, <1>2, <1>3, <1>4

(* A request ends; a flood of the upload lane is counted once.             *)
LEMMA EndInv ==
  ASSUME RateInv, NEW r \in tracker.pending, NEW outcome, End(r, outcome)
  PROVE  RateInv'
  <1> USE DEF RateInv
  <1>a. /\ tracker' \in Trackers
        /\ tracker'.flood = IF r[2] = "up" /\ outcome = "flood" THEN tracker.flood + 1 ELSE tracker.flood
    <2> DEFINE plus(b, k) == IF b THEN k + 1 ELSE k
               ok == plus(r[2] = "up" /\ outcome = "ok", tracker.ok)
               flood == plus(r[2] = "up" /\ outcome = "flood", tracker.flood)
               downFlood == plus(r[2] = "down" /\ outcome = "flood", tracker.downFlood)
    <2>1. tracker' = [tracker EXCEPT !.pending = @ \ {r}, !.ok = ok, !.flood = flood,
                                     !.downFlood = downFlood]
      BY DEF End, Counted, Accounted
    <2>2. ok \in Nat /\ flood \in Nat /\ downFlood \in Nat
      BY DEF RateTypeOK, Trackers
    <2> HIDE DEF ok, flood, downFlood
    <2>3. tracker' \in Trackers /\ tracker'.flood = flood
      BY <2>1, <2>2 DEF RateTypeOK, Trackers
    <2> QED BY <2>3 DEF flood
  <1>b. /\ hist' \in Histories
        /\ hist'.unseen = IF r[2] = "up" /\ outcome = "flood" THEN hist.unseen + 1 ELSE hist.unseen
        /\ hist'.seen = hist.seen /\ hist'.calm = hist.calm /\ hist'.seeded = hist.seeded
    BY DEF End, RateTypeOK, Histories
  <1>c. UNCHANGED <<kv, limit, ctl, view, poll, mounts>>
    BY DEF End
  <1>1. RateTypeOK'
    BY <1>a, <1>b, <1>c DEF RateTypeOK
  <1>2. PollApplied'
    BY <1>c DEF PollApplied
  <1>3. FloodsAccounted'
    <2>1. /\ tracker.flood \in Nat /\ hist.unseen \in Nat /\ hist.seen \in Nat /\ Noted \in Nat
      BY DEF RateTypeOK, Trackers, Histories, Controllers, Noted
    <2>2. Noted' = Noted
      BY <1>b, <1>c DEF Noted
    <2>3. view # NoView => view.flood \in Nat
      BY DEF RateTypeOK, Views
    <2> QED BY <1>a, <1>b, <1>c, <2>1, <2>2, <2>3 DEF FloodsAccounted
  <1>4. QuietCounted'
    BY <1>b, <1>c DEF QuietCounted
  <1> QED BY <1>1, <1>2, <1>3, <1>4

(* The controller starts.                                                  *)
LEMMA ControllerStartsInv ==
  ASSUME RateInv, ControllerStarts
  PROVE  RateInv'
  <1> USE DEF RateInv, ControllerStarts
  <1>a. /\ ctl' \in Controllers
        /\ ctl'.pinned = ctl.pinned /\ ctl'.manual = ctl.manual /\ ctl'.cap = ctl.cap
        /\ ctl'.lastFlood = ctl.lastFlood /\ ctl'.quiet = ctl.quiet /\ ctl'.first = ctl.first
    BY DEF RateTypeOK, Controllers
  <1>1. RateTypeOK'
    <2>1. ctl.cap \in Nat
      BY RateConstants DEF RateTypeOK, Controllers
    <2> QED BY <1>a, <2>1 DEF RateTypeOK
  <1>2. PollApplied'
    <2>1. poll.mode # "unread" /\ ~(poll.mode = "manual" \/ poll.pin > 0) => limit' = ctl.cap
      BY DEF PollApplied, RateTypeOK, Controllers
    <2>2. poll.mode # "unread" /\ (poll.mode = "manual" \/ poll.pin > 0) => limit' = limit
      BY DEF PollApplied, RateTypeOK, Controllers
    <2> QED BY <1>a, <2>1, <2>2 DEF PollApplied
  <1>3. FloodsAccounted'
    BY <1>a DEF FloodsAccounted, Noted
  <1>4. QuietCounted'
    BY <1>a DEF QuietCounted
  <1> QED BY <1>1, <1>2, <1>3, <1>4

(* A sample moves what was unseen to what the step will see.               *)
LEMMA StepSampleInv ==
  ASSUME RateInv, StepSample
  PROVE  RateInv'
  <1> USE DEF RateInv
  <1>a. /\ view = NoView /\ view' \in Views /\ view'.flood = tracker.flood
    BY DEF StepSample, FloodTotal, RateTypeOK, Trackers, Views
  <1>b. view' # NoView
    BY <1>a, ViewIsView
  <1>c. /\ hist' \in Histories
        /\ hist'.unseen = 0 /\ hist'.seen = hist.unseen /\ hist'.seeded = hist.seeded
        /\ hist.unseen = 0 => hist'.calm = IF hist.calm < QuietTicks THEN hist.calm + 1 ELSE hist.calm
    <2> DEFINE calm == IF hist.unseen > 0 THEN 0
                       ELSE IF hist.calm < QuietTicks THEN hist.calm + 1 ELSE hist.calm
    <2>1. QuietTicks \in Nat \ {0}
      BY RateConstants
    <2>2. calm \in 0 .. QuietTicks
      BY <2>1 DEF RateTypeOK, Histories
    <2>3. hist' = [hist EXCEPT !.unseen = 0, !.seen = hist.unseen, !.calm = calm]
      BY DEF StepSample
    <2> HIDE DEF calm
    <2>4. /\ hist' \in Histories /\ hist'.calm = calm /\ hist'.unseen = 0
          /\ hist'.seen = hist.unseen /\ hist'.seeded = hist.seeded
      BY <2>2, <2>3 DEF RateTypeOK, Histories
    <2> QED BY <2>4 DEF calm
  <1>d. UNCHANGED <<kv, tracker, limit, ctl, poll, mounts>>
    BY DEF StepSample
  <1>1. RateTypeOK'
    BY <1>a, <1>c, <1>d DEF RateTypeOK
  <1>2. PollApplied'
    BY <1>d DEF PollApplied
  <1>3. FloodsAccounted'
    <2>1. Noted' = Noted /\ tracker.flood \in Nat
      BY <1>c, <1>d DEF Noted, RateTypeOK, Trackers
    <2> QED BY <1>a, <1>b, <1>c, <1>d, <2>1 DEF FloodsAccounted
  <1>4. QuietCounted'
    <2>1. /\ ctl.quiet \in 0 .. QuietTicks /\ hist.calm \in 0 .. QuietTicks
          /\ hist.unseen \in Nat /\ QuietTicks \in Nat
      BY RateConstants DEF RateTypeOK, Controllers, Histories
    <2> QED BY <1>a, <1>b, <1>c, <1>d, <2>1 DEF QuietCounted
  <1> QED BY <1>1, <1>2, <1>3, <1>4

(* What a step computes: the quiet ticks restart with a flood and count    *)
(* on otherwise; hands off, the cap stays; else a flood halves it, and     *)
(* without one it can only rise, and only at the end of the quiet window.  *)
LEMMA StepEffect ==
  ASSUME RateTypeOK, StepDecide
  PROVE  LET flooded == view.flood > ctl.lastFlood
         IN  /\ view \in Views /\ view' = NoView
             /\ ctl' \in Controllers
             /\ ctl'.pinned = ctl.pinned /\ ctl'.manual = ctl.manual
             /\ ctl'.lastFlood = view.flood /\ ~ctl'.first
             /\ flooded => ctl'.quiet = 0
             /\ ~flooded => ctl'.quiet = IF ctl.quiet < QuietTicks THEN ctl.quiet + 1 ELSE ctl.quiet
             /\ HandsOff => ctl'.cap = ctl.cap
             /\ ~HandsOff /\ flooded => ctl'.cap = Halved(ctl.cap)
             /\ ~HandsOff /\ ~flooded =>
                  \/ ctl'.cap = ctl.cap
                  \/ ctl'.cap = Raised(ctl.cap) /\ ctl'.quiet = QuietTicks
             /\ limit' = IF ctl'.cap = ctl.cap THEN limit ELSE ctl'.cap
             /\ UNCHANGED <<kv, tracker, poll, mounts, hist>>
  <1> DEFINE flooded == view.flood - ctl.lastFlood > 0
             active == view.ok - ctl.lastOK # 0
             quiet == IF flooded THEN 0 ELSE IF ctl.quiet < QuietTicks THEN ctl.quiet + 1 ELSE ctl.quiet
             cap == IF HandsOff THEN ctl.cap
                    ELSE IF flooded THEN Halved(ctl.cap)
                    ELSE IF quiet >= QuietTicks /\ active THEN Raised(ctl.cap)
                    ELSE ctl.cap
  <1>1. /\ view \in Views /\ view' = NoView
        /\ ctl' = [ctl EXCEPT !.lastFlood = view.flood, !.lastOK = view.ok,
                              !.quiet = quiet, !.cap = cap, !.first = FALSE]
        /\ limit' = IF cap = ctl.cap THEN limit ELSE cap
        /\ UNCHANGED <<kv, tracker, poll, mounts, hist>>
    BY Zenon DEF StepDecide, RateTypeOK
  <1>2. view.flood \in Nat /\ view.ok \in Nat
    BY <1>1 DEF Views
  <1>3. /\ ctl.lastFlood \in Nat /\ ctl.quiet \in 0 .. QuietTicks /\ QuietTicks \in Nat \ {0}
        /\ ctl.cap \in MinCap .. MaxCap /\ ctl.lastOK \in Nat
    BY RateConstants DEF RateTypeOK, Controllers
  <1>4. quiet \in 0 .. QuietTicks
    BY <1>3
  <1>5. cap \in MinCap .. MaxCap
    BY <1>3, CapRange
  <1>6. flooded <=> view.flood > ctl.lastFlood
    BY <1>2, <1>3
  <1>7. ~HandsOff /\ ~flooded =>
          \/ cap = ctl.cap
          \/ cap = Raised(ctl.cap) /\ quiet = QuietTicks
    BY <1>3, <1>4
  <1>8. ctl' \in Controllers /\ ctl'.quiet = quiet /\ ctl'.cap = cap
        /\ ctl'.pinned = ctl.pinned /\ ctl'.manual = ctl.manual
        /\ ctl'.lastFlood = view.flood /\ ctl'.first = FALSE
    <2> HIDE DEF quiet, cap
    <2> QED BY <1>1, <1>2, <1>4, <1>5 DEF RateTypeOK, Controllers
  <1>9. /\ flooded => quiet = 0 /\ (HandsOff \/ cap = Halved(ctl.cap))
        /\ ~flooded => quiet = IF ctl.quiet < QuietTicks THEN ctl.quiet + 1 ELSE ctl.quiet
        /\ HandsOff => cap = ctl.cap
    OBVIOUS
  <1> HIDE DEF flooded, quiet, cap
  <1> QED BY <1>1, <1>6, <1>7, <1>8, <1>9

(* A step takes note of its sample.                                        *)
LEMMA StepDecideInv ==
  ASSUME RateInv, StepDecide
  PROVE  RateInv'
  <1> USE DEF RateInv
  <1>a. limit' \in Nat
    BY StepEffect, RateConstants DEF RateTypeOK, Controllers
  <1>b. view # NoView
    BY StepEffect, ViewIsView
  <1>c. /\ ctl.lastFlood \in Nat /\ ctl.quiet \in 0 .. QuietTicks /\ QuietTicks \in Nat \ {0}
        /\ hist.seen \in Nat /\ hist.calm \in 0 .. QuietTicks /\ Noted \in Nat
        /\ view.flood \in Nat
    BY StepEffect, RateConstants DEF RateTypeOK, Controllers, Histories, Noted, Views
  <1>1. RateTypeOK'
    BY <1>a, StepEffect DEF RateTypeOK
  <1>2. PollApplied'
    BY StepEffect DEF PollApplied, HandsOff, RateTypeOK, Pollers, Controllers
  <1>3. FloodsAccounted'
    BY <1>b, StepEffect DEF FloodsAccounted, Noted
  <1>4. QuietCounted'
    <2>1. view.flood > ctl.lastFlood \/ hist.seen = 0
      BY <1>b, <1>c DEF FloodsAccounted, Noted
    <2> QED BY <1>b, <1>c, <2>1, StepEffect DEF QuietCounted
  <1> QED BY <1>1, <1>2, <1>3, <1>4

(* The poller brings controller and limiter to what is stored.             *)
LEMMA PollInv ==
  ASSUME RateInv, Poll
  PROVE  RateInv'
  <1> USE DEF RateInv
  <1> DEFINE on == kv.mode = "manual"
             n == kv.pin
  <1>a. /\ UNCHANGED <<kv, tracker, view, mounts, hist>>
        /\ poll' \in Pollers /\ poll'.pin = n /\ poll'.mode = kv.mode /\ poll'.settled
        /\ kv.mode \in {"adaptive", "manual"} /\ n \in Nat
    BY DEF Poll, RateTypeOK, Stored, Pollers
  <1>b. StartCap \in MinCap .. MaxCap /\ MinCap .. MaxCap \subseteq Nat
    BY RateConstants
  <1>c. CASE kv.mode = poll.mode /\ n = poll.pin
    <2>1. ctl' = ctl /\ limit' = limit
      BY <1>c DEF Poll
    <2>2. poll.mode # "unread"
      BY <1>a, <1>c
    <2> QED BY <1>a, <1>c, <2>1, <2>2 DEF RateTypeOK, PollApplied, FloodsAccounted, Noted, QuietCounted
  <1>d. CASE ~(kv.mode = poll.mode /\ n = poll.pin)
    <2> DEFINE c == IF kv.mode # poll.mode THEN SetManualMode(ctl, on) ELSE ctl
    <2>1. ctl' = SetPinnedUpload(c, n) /\ limit' = LimitOfPin(c, n)
      BY <1>d, Zenon DEF Poll
    <2>2. /\ c \in Controllers /\ (c.manual <=> on)
          /\ c.lastFlood = ctl.lastFlood /\ c.quiet = ctl.quiet /\ c.first = ctl.first
      <3>1. CASE kv.mode = poll.mode
        BY <1>a, <3>1 DEF RateTypeOK, PollApplied
      <3>2. CASE kv.mode # poll.mode
        BY <1>b, <3>2 DEF RateTypeOK, Controllers, SetManualMode
      <3> QED BY <3>1, <3>2
    <2> HIDE DEF c
    <2>3. /\ ctl' \in Controllers /\ ctl'.pinned = n /\ (ctl'.manual <=> on)
          /\ ctl'.lastFlood = ctl.lastFlood /\ ctl'.quiet = ctl.quiet /\ ctl'.first = ctl.first
          /\ n = 0 /\ ~on => ctl'.cap = StartCap
      <3>1. CASE n > 0 \/ c.manual
        BY <1>a, <2>1, <2>2, <3>1 DEF SetPinnedUpload, Controllers
      <3>2. CASE ~(n > 0 \/ c.manual)
        BY <1>a, <1>b, <2>1, <2>2, <3>2 DEF SetPinnedUpload, Controllers
      <3> QED BY <3>1, <3>2
    <2>4. limit' \in Nat /\ limit' = IF n > 0 THEN n ELSE IF on THEN 0 ELSE StartCap
      BY <1>a, <1>b, <2>1, <2>2 DEF LimitOfPin
    <2>5. RateTypeOK'
      BY <1>a, <2>3, <2>4 DEF RateTypeOK
    <2>6. PollApplied'
      BY <1>a, <2>3, <2>4 DEF PollApplied
    <2>7. FloodsAccounted' /\ QuietCounted'
      BY <1>a, <2>3 DEF FloodsAccounted, Noted, QuietCounted
    <2> QED BY <2>5, <2>6, <2>7
  <1> QED BY <1>c, <1>d

(* A pin is stored; the poller is behind.                                  *)
LEMMA OperatorPinsInv ==
  ASSUME RateInv, NEW n \in Pins, OperatorPins(n)
  PROVE  RateInv'
  <1> USE DEF RateInv, OperatorPins
  <1>1. RateTypeOK'
    <2>1. n \in Nat
      BY RateConstants
    <2> QED BY <2>1 DEF RateTypeOK, Stored, Pollers
  <1>2. PollApplied'
    BY DEF PollApplied, RateTypeOK, Stored, Trackers, Controllers, Pollers, Histories
  <1>3. FloodsAccounted'
    BY DEF FloodsAccounted, Noted, RateTypeOK, Stored, Trackers, Controllers, Pollers, Histories
  <1>4. QuietCounted'
    BY DEF QuietCounted, RateTypeOK, Stored, Trackers, Controllers, Pollers, Histories
  <1> QED BY <1>1, <1>2, <1>3, <1>4

(* A mode is stored; the poller is behind.                                 *)
LEMMA OperatorSwitchesInv ==
  ASSUME RateInv, OperatorSwitches
  PROVE  RateInv'
  <1> USE DEF RateInv, OperatorSwitches
  <1>1. RateTypeOK'
    BY DEF RateTypeOK, Stored, Trackers, Pollers
  <1>2. PollApplied'
    BY DEF PollApplied, RateTypeOK, Stored, Trackers, Controllers, Pollers, Histories
  <1>3. FloodsAccounted'
    BY DEF FloodsAccounted, Noted, RateTypeOK, Stored, Trackers, Controllers, Pollers, Histories
  <1>4. QuietCounted'
    BY DEF QuietCounted, RateTypeOK, Stored, Trackers, Controllers, Pollers, Histories
  <1> QED BY <1>1, <1>2, <1>3, <1>4

(* Saving the totals changes nothing in the process.                       *)
LEMMA PersistInv ==
  ASSUME RateInv, Persist
  PROVE  RateInv'
  <1> USE DEF RateInv, Persist
  <1>1. RateTypeOK'
    BY DEF RateTypeOK, Stored, Trackers, Pollers
  <1>2. PollApplied'
    BY DEF PollApplied, RateTypeOK, Stored, Trackers, Controllers, Pollers, Histories
  <1>3. FloodsAccounted'
    BY DEF FloodsAccounted, Noted, RateTypeOK, Stored, Trackers, Controllers, Pollers, Histories
  <1>4. QuietCounted'
    BY DEF QuietCounted, RateTypeOK, Stored, Trackers, Controllers, Pollers, Histories
  <1> QED BY <1>1, <1>2, <1>3, <1>4

(* A new process starts from the saved totals.                             *)
LEMMA RemountInv ==
  ASSUME RateInv, Remount
  PROVE  RateInv'
  <1> USE DEF RateInv, Remount
  <1>0. QuietTicks \in Nat /\ StartCap \in MinCap .. MaxCap
    BY RateConstants
  <1>a. /\ ctl' \in Controllers /\ ctl'.lastFlood = 0 /\ ctl'.first /\ ctl'.quiet = 0
    BY <1>0 DEF NewController, Controllers
  <1>b. tracker' \in Trackers /\ tracker'.flood = kv.flood /\ kv.flood \in Nat
    BY DEF Seeded, Trackers, RateTypeOK, Stored
  <1>c. /\ hist' \in Histories /\ hist'.calm = 0 /\ hist'.unseen = 0 /\ hist'.seeded = kv.flood
        /\ hist'.seen = 0
    BY <1>0, <1>b DEF Histories
  <1>d. poll' \in Pollers /\ ~poll'.settled /\ poll'.mode = "unread"
    BY DEF Pollers
  <1>1. RateTypeOK'
    BY <1>a, <1>b, <1>c, <1>d DEF RateTypeOK
  <1>2. PollApplied'
    BY <1>d DEF PollApplied
  <1>3. FloodsAccounted'
    BY <1>a, <1>b, <1>c DEF FloodsAccounted, Noted
  <1>4. QuietCounted'
    BY <1>a, <1>c DEF QuietCounted
  <1> QED BY <1>1, <1>2, <1>3, <1>4

----------------------------------------------------------------------------
(* Theorems.                                                               *)

(* The invariant holds of every behaviour, restarts included.              *)
THEOREM RateInvariant == RateSpec => []RateInv
  <1>1. RateInit => RateInv
    <2> SUFFICES ASSUME RateInit PROVE RateInv
      OBVIOUS
    <2>0. QuietTicks \in Nat /\ StartCap \in MinCap .. MaxCap
      BY RateConstants
    <2>1. /\ ctl \in Controllers /\ ctl.lastFlood = 0 /\ ctl.first /\ ctl.quiet = 0
      BY <2>0 DEF RateInit, NewController, Controllers
    <2>2. kv \in Stored /\ tracker \in Trackers /\ tracker.flood = 0
      BY DEF RateInit, Seeded, Trackers, Stored
    <2>3. hist \in Histories /\ hist.calm = 0 /\ hist.unseen = 0 /\ hist.seeded = 0
      BY <2>0 DEF RateInit, Histories
    <2>4. poll \in Pollers /\ ~poll.settled /\ poll.mode = "unread"
      BY DEF RateInit, Pollers
    <2>5. limit = 0 /\ view = NoView /\ mounts = 0
      BY DEF RateInit
    <2> QED BY <2>1, <2>2, <2>3, <2>4, <2>5
            DEF RateInv, RateTypeOK, PollApplied, FloodsAccounted, Noted, QuietCounted
  <1>2. RateInv /\ [RateNext]_rateVars => RateInv'
    <2> SUFFICES ASSUME RateInv, [RateNext]_rateVars PROVE RateInv'
      OBVIOUS
    <2>1. CASE UNCHANGED rateVars
      BY <2>1 DEF rateVars, RateInv, RateTypeOK, PollApplied, FloodsAccounted, Noted, QuietCounted
    <2>2. CASE RateNext
      BY <2>2, BeginInv, EndInv, ControllerStartsInv, StepSampleInv, StepDecideInv, PollInv,
         OperatorPinsInv, OperatorSwitchesInv, PersistInv, RemountInv DEF RateNext
    <2> QED BY <2>1, <2>2
  <1> QED BY <1>1, <1>2, PTL DEF RateSpec

(* Once the poller has seen it, the limiter enforces the operator's last   *)
(* word, and otherwise the cap the controller reports, within its range.   *)
THEOREM LimiterObeys == RateSpec => []RateObeysOperator
  <1>1. RateInv => RateObeysOperator
    BY DEF RateInv, RateTypeOK, Stored, Controllers, PollApplied, RateObeysOperator
  <1> QED BY <1>1, RateInvariant, PTL

(* A step of the controller cuts the cap exactly when the upload lane was  *)
(* flooded since the last sample; only the first step of a process may     *)
(* take the seeded total for news.                                         *)
THEOREM CutsExactly == RateSpec => CutIffFlooded
  <1>1. ASSUME RateInv, StepDecide, ~(ctl.manual \/ ctl.pinned > 0), ~(ctl.first /\ hist.seeded > 0)
        PROVE  hist.seen > 0 <=> ctl'.cap < ctl.cap \/ (ctl.cap = MinCap /\ ctl'.quiet = 0)
    <2> USE <1>1 DEF RateInv
    <2>1. ~HandsOff
      BY DEF HandsOff
    <2>2. view # NoView /\ view.flood \in Nat
      BY StepEffect, ViewIsView DEF Views
    <2>3. /\ ctl.lastFlood \in Nat /\ hist.seen \in Nat /\ hist.seeded \in Nat
          /\ ctl.quiet \in Nat /\ QuietTicks \in Nat \ {0}
          /\ ctl.cap \in MinCap .. MaxCap /\ MinCap \in Nat
      BY RateConstants DEF RateTypeOK, Controllers, Histories
    <2>4. view.flood > ctl.lastFlood <=> hist.seen > 0
      BY <2>2, <2>3 DEF FloodsAccounted, Noted
    <2>5. CASE hist.seen > 0
      BY <2>1, <2>3, <2>4, <2>5, StepEffect, CapRange
    <2>6. CASE ~(hist.seen > 0)
      <3>1. ctl'.cap >= ctl.cap /\ ctl'.cap \in MinCap .. MaxCap
        BY <2>1, <2>3, <2>4, <2>6, StepEffect, CapRange
      <3>2. ctl'.quiet # 0
        BY <2>1, <2>3, <2>4, <2>6, StepEffect
      <3> QED BY <2>3, <2>6, <3>1, <3>2
    <2> QED BY <2>5, <2>6
  <1> QED BY <1>1, RateInvariant, PTL DEF CutIffFlooded

(* A step raises the cap only at the end of a full quiet window, counted   *)
(* also while a pin or manual mode kept the controller's hands off.        *)
THEOREM RaisesWhenQuiet == RateSpec => RaiseOnlyWhenQuiet
  <1>1. ASSUME RateInv, StepDecide, ctl'.cap > ctl.cap
        PROVE  hist.calm >= QuietTicks
    <2> USE <1>1 DEF RateInv
    <2>1. view # NoView /\ view.flood \in Nat
      BY StepEffect, ViewIsView DEF Views
    <2>2. /\ ctl.lastFlood \in Nat /\ hist.seen \in Nat /\ hist.seeded \in Nat
          /\ hist.calm \in 0 .. QuietTicks /\ ctl.quiet \in 0 .. QuietTicks
          /\ QuietTicks \in Nat \ {0} /\ ctl.cap \in MinCap .. MaxCap /\ MinCap \in Nat
      BY RateConstants DEF RateTypeOK, Controllers, Histories
    <2>3. ~(view.flood > ctl.lastFlood) /\ ctl'.quiet = QuietTicks
      BY <2>2, StepEffect, CapRange
    <2>4. hist.seen = 0
      BY <2>1, <2>2, <2>3 DEF FloodsAccounted, Noted
    <2> QED BY <2>1, <2>2, <2>3, <2>4, StepEffect DEF QuietCounted
  <1> QED BY <1>1, RateInvariant, PTL DEF RaiseOnlyWhenQuiet

=============================================================================
