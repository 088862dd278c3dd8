------------------------------ MODULE Console ------------------------------
(***************************************************************************)
(* Mount daemons and those who start and stop them: the web console's      *)
(* Supervisor (several requests at a time), `telfs mount` and `telfs       *)
(* unmount` in a terminal, and the shutdown sequence of cmdMount.          *)
(*                                                                         *)
(* The kernel's mount table and the process table are shared by all; the   *)
(* Supervisor knows its own children and what Reconcile finds in /proc.    *)
(* Time passes in ticks, and only two deadlines count it: the daemon's     *)
(* shutdown watchdog and Stop's patience.                                  *)
(***************************************************************************)
EXTENDS Naturals, FiniteSets

CONSTANTS
    Requests,     \* handlers of the console and terminals, running side by side
    Profiles,
    Unnamed,      \* profiles whose daemons run without TELFS_PROFILE
    Mountpoints,
    MaxPid,       \* bound: daemons ever started
    Watchdog,     \* ticks a daemon gives its own shutdown (30 s)
    StopWait,     \* ticks Stop waits before SIGKILL (35 s)
    Races         \* what the environment may do, of KnownDoubles

\* A second stop of a daemon that is shutting down; a `telfs mount` of a
\* profile that has a daemon.
KnownDoubles == {"stopTwice", "mountTwice"}

ASSUME ConsoleAssumption ==
    /\ MaxPid \in Nat /\ Watchdog \in Nat /\ StopWait \in Nat
    /\ Unnamed \subseteq Profiles /\ Races \subseteq KnownDoubles

VARIABLES
    daemon,  \* process table: pid -> record
    kernel,  \* /proc/mounts: mountpoint -> pid of the daemon behind it, or 0
    procs,   \* Supervisor.procs: key -> MountProcess
    done,    \* the MountProcesses whose done channel is closed
    kids,    \* pids this console has started and not reaped
    req,     \* request -> record
    cut      \* history: daemons whose shutdown somebody else ended

consoleVars == <<daemon, kernel, procs, done, kids, req, cut>>

Pids == 1 .. MaxPid
Orderly == {"stopping", "detached", "drained"}
Living(p) == daemon[p].stage \notin {"none", "dead"}
Free == {p \in Pids : daemon[p].stage = "none"}

\* A MountProcess: a reservation (no pid), a child, or an adopted process.
Slot(r) == [pid |-> 0, adopted |-> FALSE, mp |-> req[r].mp, by |-> {r}]
Child(p) == [pid |-> p, adopted |-> FALSE, mp |-> daemon[p].mp, by |-> {}]
Adopted(p) == [pid |-> p, adopted |-> TRUE, mp |-> daemon[p].mp, by |-> {}]
NoProc == [pid |-> 0, adopted |-> FALSE, mp |-> "", by |-> {}]

\* The key a daemon found in /proc is entered under.
KeyOf(p) == IF daemon[p].profile \in Unnamed
            THEN <<"adopted", daemon[p].profile, daemon[p].mp>>
            ELSE daemon[p].profile
ProcKeys == Profiles \cup {<<"adopted", k, m>> : k \in Unnamed, m \in Mountpoints}

NoDaemon == [stage |-> "none", profile |-> "", mp |-> "", sig |-> FALSE,
             up |-> FALSE, age |-> 0]
Quiet == [pc |-> "idle", kind |-> "", key |-> "", mp |-> "", proc |-> NoProc,
          left |-> 0, todo |-> {}, seen |-> {}]

ConsoleInit ==
    /\ daemon = [p \in Pids |-> NoDaemon]
    /\ kernel = [m \in Mountpoints |-> 0]
    /\ procs = [k \in ProcKeys |-> NoProc]
    /\ done = {} /\ kids = {} /\ cut = {}
    /\ req = [r \in Requests |-> Quiet]

-----------------------------------------------------------------------------
(* The daemon: cmdMount *)

\* exec of `telfs mount`; pids are handed out in order.
Spawned(p, profile, m) ==
    [daemon EXCEPT ![p] = [NoDaemon EXCEPT !.stage = "starting",
                                           !.profile = profile, !.mp = m]]
Exited(p) == [daemon EXCEPT ![p] = [NoDaemon EXCEPT !.stage = "dead",
                                             !.mp = daemon[p].mp]]
NextPid(p) == p \in Free /\ \A q \in Free : p <= q

\* fusermount goes by the path, whoever is behind it.
Detached(m) == [kernel EXCEPT ![m] = 0]
OwnMount(p) == kernel[daemon[p].mp] = p

\* Recovery, repair, first connect and preflight are over: FUSE is mounted.
\* fusermount refuses a mountpoint that is taken.
ServeBegins(p) ==
    /\ daemon[p].stage = "starting" /\ kernel[daemon[p].mp] = 0
    /\ daemon' = [daemon EXCEPT ![p].stage = "serving"]
    /\ kernel' = [kernel EXCEPT ![daemon[p].mp] = p]
    /\ UNCHANGED <<procs, done, kids, req, cut>>

\* A step of the start fails, or a signal ends it.
StartAborts(p) ==
    /\ daemon[p].stage = "starting"
    /\ daemon' = Exited(p)
    /\ UNCHANGED <<kernel, procs, done, kids, req, cut>>

\* <-signalCtx.Done(); the watchdog's thirty seconds begin.
ShutdownBegins(p) ==
    /\ daemon[p].stage = "serving" /\ daemon[p].sig
    /\ daemon' = [daemon EXCEPT ![p].stage = "stopping", ![p].age = 0]
    /\ UNCHANGED <<kernel, procs, done, kids, req, cut>>

\* The poster, the snapshot cadence and the controller have stopped; Unmount,
\* then the lazy form when that was busy.  Either may fail.
DetachKernel(p, ok) ==
    /\ daemon[p].stage = "stopping"
    /\ daemon' = [daemon EXCEPT ![p].stage = "detached"]
    /\ kernel' = IF ok THEN Detached(daemon[p].mp) ELSE kernel
    /\ UNCHANGED <<procs, done, kids, req, cut>>

\* server.Wait returns once the mount is gone; Backend.Shutdown closes the
\* packer and drains the pool for as long as drainCtx allows.
Drain(p) ==
    /\ daemon[p].stage = "detached" /\ ~OwnMount(p)
    /\ daemon' = [daemon EXCEPT ![p].stage = "drained"]
    /\ UNCHANGED <<kernel, procs, done, kids, req, cut>>

\* Statistics, the final snapshot, the end of the session manager.
FinalSnapshot(p) ==
    /\ daemon[p].stage = "drained"
    /\ daemon' = Exited(p)
    /\ UNCHANGED <<kernel, procs, done, kids, req, cut>>

\* Thirty seconds after the signal: lazy unmount and exit.
WatchdogFires(p, ok) ==
    /\ daemon[p].stage \in Orderly /\ daemon[p].age = Watchdog
    /\ daemon' = Exited(p)
    /\ kernel' = IF ok THEN Detached(daemon[p].mp) ELSE kernel
    /\ UNCHANGED <<procs, done, kids, req, cut>>

\* The process is gone, whatever it was doing: the mount stays behind.
DaemonDies(p) ==
    /\ Living(p)
    /\ daemon' = Exited(p)
    /\ UNCHANGED <<kernel, procs, done, kids, req, cut>>

\* SIGTERM: the first cancels signalCtx; one during the shutdown makes
\* armForceExit unmount lazily and exit.
Term(p) ==
    IF daemon[p].stage \in Orderly
    THEN /\ daemon' = Exited(p)
         /\ kernel' = Detached(daemon[p].mp)
         /\ cut' = cut \cup {p}
    ELSE /\ daemon' = IF Living(p)
                      THEN [daemon EXCEPT ![p].sig = TRUE,
                                          ![p].up = @ \/ daemon[p].stage = "serving"]
                      ELSE daemon
         /\ UNCHANGED <<kernel, cut>>

\* SIGKILL.  up: it was serving when it was told to stop.
Kill(p) ==
    /\ daemon' = IF Living(p) THEN Exited(p) ELSE daemon
    /\ cut' = IF Living(p) /\ daemon[p].up THEN cut \cup {p} ELSE cut

-----------------------------------------------------------------------------
(* Supervisor.Reconcile, at the head of every request *)

Mounted == {m \in Mountpoints : kernel[m] # 0}
Tracked(S) == {S[k].mp : k \in ProcKeys}

\* A request arrives; Reconcile reads /proc/mounts.
Arrive(r, kind, key, m) ==
    /\ req[r].pc \in {"idle", "stopped"}
    /\ \A s \in Requests \ {r} : r \notin req[s].proc.by
    /\ req' = [req EXCEPT ![r] =
                 [Quiet EXCEPT !.pc = "prune", !.kind = kind, !.key = key, !.mp = m,
                               !.todo = Mounted,
                               !.seen = {p \in Pids : kind = "start" /\ Living(p)
                                                      /\ OwnMount(p)}]]
    /\ UNCHANGED <<daemon, kernel, procs, done, kids, cut>>

Gone(mp) == mp \in done \/ (mp.adopted /\ ~Living(mp.pid))

\* Under the lock: dead entries go, and the mountpoints of the rest are known.
\* A closed channel is of use to a Stop that waits on it.
ReconcilePrune(r) ==
    LET kept == [k \in ProcKeys |-> IF Gone(procs[k]) THEN NoProc ELSE procs[k]]
    IN /\ req[r].pc = "prune"
       /\ procs' = kept
       /\ done' = {req[s].proc : s \in Requests} \cap
                    (done \cup {procs[k] : k \in {k \in ProcKeys : procs[k].adopted /\ Gone(procs[k])}})
       /\ req' = [req EXCEPT ![r].pc = "adopt", ![r].todo = @ \ Tracked(kept),
                              ![r].seen = {p \in @ : \A k \in ProcKeys :
                                             kept[k].mp = daemon[p].mp => kept[k].pid = p}]
       /\ UNCHANGED <<daemon, kernel, kids, cut>>

\* FindDaemonPid: a live `telfs mount` whose last argument is m.
FindDaemonPid(m) == {p \in Pids : Living(p) /\ daemon[p].mp = m}

\* One mountpoint at a time; a key that is taken by now is left alone.
ReconcileAdopt(r) ==
    /\ req[r].pc = "adopt"
    /\ \E m \in req[r].todo :
          \/ /\ FindDaemonPid(m) = {}
             /\ req' = [req EXCEPT ![r].todo = @ \ {m}]
             /\ UNCHANGED <<procs, done>>
          \/ \E p \in FindDaemonPid(m) :
                LET found == IF procs[KeyOf(p)] = NoProc \/ procs[KeyOf(p)].pid = p
                             THEN {p} ELSE {}
                IN /\ req' = [req EXCEPT ![r].todo = @ \ {m},
                                         ![r].seen = @ \ (FindDaemonPid(m) \ found)]
                   /\ IF procs[KeyOf(p)] = NoProc
                      THEN /\ procs' = [procs EXCEPT ![KeyOf(p)] = Adopted(p)]
                           /\ done' = done \ {Adopted(p)}
                      ELSE UNCHANGED <<procs, done>>
    /\ UNCHANGED <<daemon, kernel, kids, cut>>

Reconciled(r, kind) == req[r].pc = "adopt" /\ req[r].todo = {} /\ req[r].kind = kind

\* List and Get: the pages need no more than this.
PageDone(r) ==
    /\ Reconciled(r, "page")
    /\ req' = [req EXCEPT ![r] = Quiet]
    /\ UNCHANGED <<daemon, kernel, procs, done, kids, cut>>

-----------------------------------------------------------------------------
(* Supervisor.Start *)

\* Mutant: the slot is looked at but not reserved.
ReservedLate(r) == procs

\* The placeholder in the table.
Reserved(r) == [procs EXCEPT ![req[r].key] = Slot(r)]

\* Under the lock: refuse a second daemon, or reserve the profile's slot.
StartReserve(r) ==
    LET taken == procs[req[r].key]
    IN /\ Reconciled(r, "start")
       /\ IF taken # NoProc /\ taken \notin done
          THEN req' = [req EXCEPT ![r] = Quiet] /\ UNCHANGED <<procs, done>>
          ELSE /\ procs' = Reserved(r)
               /\ done' = done \ {Slot(r)}
               /\ req' = [req EXCEPT ![r].pc = "spawn"]
       /\ UNCHANGED <<daemon, kernel, kids, cut>>

StartSpawn(r) ==
    \E p \in Free :
       /\ req[r].pc = "spawn" /\ NextPid(p)
       /\ daemon' = Spawned(p, req[r].key, req[r].mp)
       /\ kids' = kids \cup {p}
       /\ req' = [req EXCEPT ![r].pc = "register",
                             ![r].proc = [NoProc EXCEPT !.pid = p, !.mp = req[r].mp]]
       /\ UNCHANGED <<kernel, procs, done, cut>>

\* markDone of the placeholder: of use to a Stop that waits for it.
Awaited(r) == {Slot(r)} \cap {req[s].proc : s \in Requests}

\* No such directory, no log file, no process: the reservation is released.
StartUnreserve(r) ==
    /\ req[r].pc = "spawn"
    /\ procs' = IF procs[req[r].key] = Slot(r)
                THEN [procs EXCEPT ![req[r].key] = NoProc] ELSE procs
    /\ done' = done \cup Awaited(r)
    /\ req' = [req EXCEPT ![r] = Quiet]
    /\ UNCHANGED <<daemon, kernel, kids, cut>>

\* The child takes the placeholder's place.
StartRegister(r) ==
    /\ req[r].pc = "register"
    /\ procs' = [procs EXCEPT ![req[r].key] = req[r].proc]
    /\ done' = done \cup Awaited(r)
    /\ req' = [req EXCEPT ![r] = Quiet]
    /\ UNCHANGED <<daemon, kernel, kids, cut>>

\* The goroutine behind cmd.Wait.
Reap(p) ==
    /\ p \in kids /\ daemon[p].stage = "dead"
    /\ done' = done \cup {Child(p)}
    /\ kids' = kids \ {p}
    /\ UNCHANGED <<daemon, kernel, procs, req, cut>>

-----------------------------------------------------------------------------
(* Supervisor.Stop, and StopDaemon of `telfs unmount` *)

\* Mutant: the patience of an earlier version, below the daemon's own.
StopTimeoutShort == Watchdog - 1

StopTimeout == StopWait

FirstStop(p) == "stopTwice" \in Races \/ ~daemon[p].sig

Success(mp) == [Quiet EXCEPT !.pc = "stopped", !.proc = mp]

\* Stop looks its target up and signals it; a placeholder has no process.
StopSignal(r) ==
    LET mp == procs[req[r].key]
    IN /\ Reconciled(r, "stop")
       /\ \/ /\ mp = NoProc
             /\ req' = [req EXCEPT ![r] = Quiet]
             /\ UNCHANGED <<daemon, kernel, cut>>
          \/ /\ mp # NoProc /\ mp \in done
             /\ req' = [req EXCEPT ![r].pc = "ensure", ![r].proc = mp]
             /\ UNCHANGED <<daemon, kernel, cut>>
          \/ /\ mp # NoProc /\ mp \notin done
             /\ req' = [req EXCEPT ![r].pc = "wait", ![r].proc = mp, ![r].left = StopTimeout]
             /\ IF mp.pid = 0 THEN UNCHANGED <<daemon, kernel, cut>>
                ELSE FirstStop(mp.pid) /\ Term(mp.pid)
       /\ UNCHANGED <<procs, done, kids>>

\* `telfs unmount`: the daemon behind the mountpoint, if there is one.
UnmountSignal(r, m) ==
    /\ req[r].pc \in {"idle", "stopped"} /\ m \in Mounted
    /\ \/ \E p \in FindDaemonPid(m) :
            /\ FirstStop(p) /\ Term(p)
            /\ req' = [req EXCEPT ![r] = [Quiet EXCEPT !.pc = "wait", !.kind = "unmount",
                                  !.mp = m, !.proc = Adopted(p), !.left = StopTimeout]]
       \/ /\ FindDaemonPid(m) = {}
          /\ req' = [req EXCEPT ![r] = [Quiet EXCEPT !.pc = "ensure", !.kind = "unmount",
                                !.mp = m, !.proc = [NoProc EXCEPT !.mp = m]]]
          /\ UNCHANGED <<daemon, kernel, cut>>
    /\ UNCHANGED <<procs, done, kids>>

\* waitForExit: done is closed, or the adopted pid no longer answers.
StopWaits(r) ==
    /\ req[r].pc = "wait" /\ Gone(req[r].proc)
    /\ done' = done \cup {req[r].proc}
    /\ req' = [req EXCEPT ![r].pc = "ensure"]
    /\ UNCHANGED <<daemon, kernel, procs, kids, cut>>

\* Out of patience: SIGKILL and a lazy unmount, which may fail.
StopKills(r, ok) ==
    LET mp == req[r].proc
    IN /\ req[r].pc = "wait" /\ req[r].left = 0 /\ ~Gone(mp)
       /\ IF mp.pid = 0 THEN UNCHANGED <<daemon, cut>> ELSE Kill(mp.pid)
       /\ kernel' = IF ok THEN Detached(mp.mp) ELSE kernel
       /\ IF ok \/ mp.mp \notin Mounted
          THEN /\ done' = done \cup {mp}
               /\ req' = [req EXCEPT ![r] = Success(mp)]
          ELSE UNCHANGED done /\ req' = [req EXCEPT ![r] = Quiet]
       /\ UNCHANGED <<procs, kids>>

\* Mutant: without a look at /proc/mounts.
LeftBehindNever(m) == FALSE

\* The daemon is gone and its mount is not.
LeftBehind(m) == m \in Mounted

StopEnsure(r, ok) ==
    LET m == req[r].proc.mp
    IN /\ req[r].pc = "ensure"
       /\ kernel' = IF LeftBehind(m) /\ ok THEN Detached(m) ELSE kernel
       /\ req' = [req EXCEPT ![r] = IF LeftBehind(m) /\ ~ok THEN Quiet
                                    ELSE Success(@.proc)]
       /\ UNCHANGED <<daemon, procs, done, kids, cut>>

\* UnmountExternal of a mountpoint the table does not have, polite or lazy.  The
\* daemon behind it, if there is one, is not told.
UnmountExternal(m) ==
    /\ m \in Mounted \ Tracked(procs)
    /\ kernel' = Detached(m)
    /\ UNCHANGED <<daemon, procs, done, kids, req, cut>>

-----------------------------------------------------------------------------
(* The rest of the world *)

\* `telfs mount` in a terminal.
TerminalMount(profile, m) ==
    /\ "mountTwice" \in Races \/ \A p \in Pids : Living(p) => daemon[p].profile # profile
    /\ \E p \in Free : NextPid(p) /\ daemon' = Spawned(p, profile, m)
    /\ UNCHANGED <<kernel, procs, done, kids, req, cut>>

\* fusermount -u in a terminal, or an UnmountExternal that looked at the table
\* before a Start.
DetachedByHand(m) ==
    /\ m \in Mounted
    /\ kernel' = Detached(m)
    /\ UNCHANGED <<daemon, procs, done, kids, req, cut>>

\* The console ends and starts again; its children go on in their session.
ConsoleRestarts ==
    /\ procs' = [k \in ProcKeys |-> NoProc]
    /\ done' = {} /\ kids' = {}
    /\ req' = [r \in Requests |-> IF req[r].kind = "unmount" THEN req[r] ELSE Quiet]
    /\ UNCHANGED <<daemon, kernel, cut>>

\* A tick is seconds long: no deadline is overrun, and no wake-up, reaping or
\* Start that holds a reservation takes so long.
Due == \/ \E p \in Pids : \/ daemon[p].stage \in Orderly /\ daemon[p].age = Watchdog
                          \/ daemon[p].stage = "serving" /\ daemon[p].sig
                          \/ p \in kids /\ daemon[p].stage = "dead"
       \/ \E r \in Requests : \/ req[r].pc = "wait" /\ req[r].left = 0
                              \/ req[r].pc \in {"spawn", "register"}

Tick ==
    /\ ~Due
    /\ \/ \E p \in Pids : daemon[p].stage \in Orderly
       \/ \E r \in Requests : req[r].pc = "wait"
    /\ daemon' = [p \in Pids |-> IF daemon[p].stage \in Orderly
                                 THEN [daemon[p] EXCEPT !.age = @ + 1] ELSE daemon[p]]
    /\ req' = [r \in Requests |-> IF req[r].pc = "wait"
                                  THEN [req[r] EXCEPT !.left = @ - 1] ELSE req[r]]
    /\ UNCHANGED <<kernel, procs, done, kids, cut>>

-----------------------------------------------------------------------------
DaemonNext(p) ==
    \/ ServeBegins(p) \/ StartAborts(p) \/ ShutdownBegins(p) \/ Drain(p)
    \/ FinalSnapshot(p) \/ DaemonDies(p) \/ Reap(p)
    \/ \E ok \in BOOLEAN : DetachKernel(p, ok) \/ WatchdogFires(p, ok)

RequestNext(r) ==
    \/ Arrive(r, "page", "", "") \/ \E k \in ProcKeys : Arrive(r, "stop", k, "")
    \/ \E k \in Profiles, m \in Mountpoints : Arrive(r, "start", k, m)
    \/ ReconcilePrune(r) \/ ReconcileAdopt(r) \/ PageDone(r)
    \/ StartReserve(r) \/ StartSpawn(r) \/ StartUnreserve(r) \/ StartRegister(r)
    \/ StopSignal(r) \/ StopWaits(r)
    \/ \E m \in Mountpoints : UnmountSignal(r, m)
    \/ \E ok \in BOOLEAN : StopKills(r, ok) \/ StopEnsure(r, ok)

ConsoleNext ==
    \/ \E p \in Pids : DaemonNext(p)
    \/ \E r \in Requests : RequestNext(r)
    \/ \E m \in Mountpoints : \/ UnmountExternal(m) \/ DetachedByHand(m)
                             \/ \E k \in Profiles : TerminalMount(k, m)
    \/ ConsoleRestarts \/ Tick

-----------------------------------------------------------------------------
(* Properties *)

\* The console never puts a second daemon onto a profile's database: when
\* Start forks, no daemon of the profile is alive that this console started or
\* that was in /proc/mounts when the request came in, whatever other requests,
\* crashes and restarts happen between the look and the fork.
\* (seen leaves out a daemon that Reconcile skips because another entry has its
\* mountpoint or its key: that entry may be a Start's that comes to nothing.  It
\* leaves out one whose mountpoint FindDaemonPid ascribes to another process.)
OneDaemon ==
    [][\A r \in Requests : StartSpawn(r) =>
         ~\E q \in Pids :
             /\ Living(q) /\ daemon[q].profile = req[r].key
             /\ q \in kids \cup req[r].seen]_consoleVars

\* When Stop or `telfs unmount` reports success, the process it was aimed at
\* is dead and its mount is gone, on the polite path, after SIGKILL, and when
\* the daemon exited without unmounting.
StopMeansGone ==
    \A r \in Requests : req[r].pc = "stopped" /\ req[r].proc.pid # 0 =>
        LET p == req[r].proc.pid IN ~Living(p) /\ ~OwnMount(p)

\* A daemon that was up when it was told to stop is never cut off before its
\* drain and its final snapshot, except by its own watchdog.
ShutdownCompletes == cut = {}

=============================================================================
