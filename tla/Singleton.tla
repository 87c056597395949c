------------------------------ MODULE Singleton ------------------------------
(***************************************************************************)
(* How a project gets at most one daemon (Linux and macOS builds).  A      *)
(* spawner claims run/spawn.lock before it starts a daemon                 *)
(* (ipc/spawnlock.go ClaimSpawn, daemon/spawn.go ensureRunningWith,        *)
(* ipc/client.go lazySpawn).  A started daemon, or a maintenance command,  *)
(* takes run/daemon.lock (daemon/lock.go AcquireLock); a daemon then binds *)
(* the project's socket (ipc/listen_unix.go listen).  Every system call on *)
(* a shared path is a step of its own.                                     *)
(*                                                                         *)
(* A lock file's inode is named by the process that created it: a process  *)
(* creates at most one.  The heartbeat file is left out, because pidAlive  *)
(* decides before it on these builds; so is a lock of another project.     *)
(***************************************************************************)
EXTENDS Naturals, FiniteSets

CONSTANTS Daemon,      \* processes that run daemon.Run
          Tool,        \* processes that hold the lock and never listen (fsck, admin)
          Hook,        \* spawners that go through client.lazySpawn
          Session,     \* spawners that go through EnsureRunning
          None,
          MaxCrashes

Proc == Daemon \union Tool
Spawner == Hook \union Session

ASSUME SingletonAssumption ==
    /\ None \notin Proc \union Spawner
    /\ Daemon \intersect Tool = {}
    /\ Hook \intersect Session = {}
    /\ MaxCrashes \in Nat

VARIABLES
    lock,       \* the inode at run/daemon.lock
    body,       \* inodes whose LockInfo has been written
    sock,       \* the socket inode at the project's address, by its binder
    listening,  \* processes with a listening socket
    pc,         \* where each process stands
    claim,      \* the claim at run/spawn.lock, by its stamp
    stale,      \* the claim is older than spawnLockStaleAfter
    at,         \* where each spawner stands
    tries,      \* ClaimSpawn attempts made
    judged,     \* the claim a spawner judged stale
    beside,     \* history: processes that were inside AcquireLock together with another
    robbed,     \* history: processes whose lock file another removed while they were alive
    crashes

lockVars == <<lock, body>>
sockVars == <<sock, listening>>
spawnVars == <<claim, stale, at, tries, judged>>
past == <<beside, robbed>>
vars == <<lockVars, sockVars, pc, spawnVars, past, crashes>>

Acquiring == {"create", "write", "chmod", "judge", "remove", "recreate"}
Running == {"acquired", "dial", "unlink", "bind", "bound", "up", "serving",
            "work", "closing", "release", "unlock"}
Ended == {"lost", "done", "dead"}

Alive(p) == pc[p] \in Acquiring \union Running
Holding(p) == pc[p] \in Running

\* The shape of every variable; only a live process has a listening socket.
TypeOK ==
    /\ lock \in Proc \union {None} /\ body \subseteq Proc
    /\ sock \in Daemon \union {None} /\ listening \subseteq Daemon
    /\ pc \in [Proc -> Acquiring \union Running \union Ended \union {"idle"}]
    /\ claim \in Spawner \union {None} /\ stale \in BOOLEAN
    /\ at \in [Spawner -> {"dial", "claim", "read", "check", "clear", "probe",
                           "spawn", "wait", "done"}]
    /\ tries \in [Spawner -> 0..2]
    /\ judged \in [Spawner -> Spawner \union {None}]
    /\ beside \subseteq Proc /\ robbed \subseteq Proc
    /\ crashes \in 0..MaxCrashes
    /\ \A p \in listening : Alive(p)

Init ==
    /\ lock = None /\ body = {}
    /\ sock = None /\ listening = {}
    /\ pc = [p \in Proc |-> "idle"]
    /\ claim = None /\ stale = FALSE
    /\ at = [s \in Spawner |-> IF s \in Hook THEN "claim" ELSE "dial"]
    /\ tries = [s \in Spawner |-> 0]
    /\ judged = [s \in Spawner |-> None]
    /\ beside = {} /\ robbed = {}
    /\ crashes = 0

Goto(p, where) == pc' = [pc EXCEPT ![p] = where]
Move(s, where) == at' = [at EXCEPT ![s] = where]

\* run/spawn.lock is removed, whosever claim it holds.
RemoveSpawnLockFile == claim' = None /\ stale' = FALSE

\* SpawnLock.Release: only a claim that is still the spawner's own.
GiveBack(s) ==
    IF claim = s THEN RemoveSpawnLockFile ELSE UNCHANGED <<claim, stale>>

\* The lock file is removed by name: whose it is by now, p does not look.
Removes(p) ==
    /\ lock' = None
    /\ robbed' = IF lock \in Proc \ {p} /\ Alive(lock) THEN robbed \union {lock} ELSE robbed

\* ipc.Probe: a dial of the project's address is accepted.
Answers == sock # None /\ sock \in listening

-----------------------------------------------------------------------------
(* The daemon lock: AcquireLock.                                           *)

\* paths.CreateNew's O_EXCL open: the file appears, still empty.
Create(p) ==
    /\ pc[p] \in {"create", "recreate"}
    /\ \/ /\ lock = None
          /\ lock' = p /\ Goto(p, "write")
       \/ /\ lock # None
          /\ lock' = lock
          /\ Goto(p, IF pc[p] = "create" THEN "judge" ELSE "lost")
    /\ UNCHANGED <<body, sockVars, spawnVars, past, crashes>>

\* paths.CreateNew's write and sync go to the open file, whatever its name is now.
Write(p) ==
    /\ pc[p] = "write"
    /\ body' = body \union {p}
    /\ Goto(p, "chmod")
    /\ UNCHANGED <<lock, sockVars, spawnVars, past, crashes>>

\* paths.CreateNew's final chmod goes by name: it fails when nothing is there.
Chmod(p) ==
    /\ pc[p] = "chmod"
    /\ Goto(p, IF lock = None THEN "lost" ELSE "acquired")
    /\ UNCHANGED <<lockVars, sockVars, spawnVars, past, crashes>>

\* Deviation: an unreadable lock stays (the first case of step 1 dropped).
LockIsStaleParsed(q) == q # None /\ q \in body /\ ~Answers /\ ~Alive(q)

\* Deviation: a lock nobody answers for is stale (step 3 dropped).
LockIsStaleByDial(q) == q = None \/ q \notin body \/ ~Answers

\* lockIsStale, steps 1 to 3: unreadable, or nobody answers and its process is gone.
LockIsStale(q) == q = None \/ q \notin body \/ (~Answers /\ ~Alive(q))

Judge(p) ==
    /\ pc[p] = "judge"
    /\ Goto(p, IF LockIsStale(lock) THEN "remove" ELSE "lost")
    /\ UNCHANGED <<lockVars, sockVars, spawnVars, past, crashes>>

\* removeLockFiles: by name, whatever is there by now.
RemoveLockFiles(p) ==
    /\ pc[p] = "remove"
    /\ Removes(p)
    /\ Goto(p, "recreate")
    /\ UNCHANGED <<body, sockVars, spawnVars, beside, crashes>>

-----------------------------------------------------------------------------
(* The daemon: Run from the lock to serving, and Stop.                     *)

\* The lock is taken; a Stop that began meanwhile hands it back at once.
Acquired(p) ==
    /\ pc[p] = "acquired"
    /\ \/ Goto(p, "release")
       \/ Goto(p, IF p \in Tool THEN "work" ELSE "dial")
    /\ UNCHANGED <<lockVars, sockVars, spawnVars, past, crashes>>

\* listen's probe: an address that answers is in use.
Dial(p) ==
    /\ pc[p] = "dial"
    /\ Goto(p, IF Answers THEN "release" ELSE "unlink")
    /\ UNCHANGED <<lockVars, sockVars, spawnVars, past, crashes>>

\* listen removes the socket path the failed probe called stale.
Unlink(p) ==
    /\ pc[p] = "unlink"
    /\ sock' = None
    /\ Goto(p, "bind")
    /\ UNCHANGED <<lockVars, listening, spawnVars, past, crashes>>

Bind(p) ==
    /\ pc[p] = "bind"
    /\ \/ sock = None /\ sock' = p /\ Goto(p, "bound")
       \/ sock # None /\ sock' = sock /\ Goto(p, "release")
    /\ UNCHANGED <<lockVars, listening, spawnVars, past, crashes>>

Listen(p) ==
    /\ pc[p] = "bound"
    /\ listening' = listening \union {p}
    /\ Goto(p, "up")
    /\ UNCHANGED <<lockVars, sock, spawnVars, past, crashes>>

\* Run, once it listens, removes the spawn claim.
Announce(p) ==
    /\ pc[p] = "up"
    /\ RemoveSpawnLockFile
    /\ Goto(p, "serving")
    /\ UNCHANGED <<lockVars, sockVars, at, tries, judged, past, crashes>>

\* Stop closes the listener: UnixListener.Close unlinks the path first.
StopServing(p) ==
    /\ pc[p] = "serving"
    /\ sock' = None
    /\ Goto(p, "closing")
    /\ UNCHANGED <<lockVars, listening, spawnVars, past, crashes>>

CloseListener(p) ==
    /\ pc[p] = "closing"
    /\ listening' = listening \ {p}
    /\ Goto(p, "release")
    /\ UNCHANGED <<lockVars, sock, spawnVars, past, crashes>>

ToolEnds(p) ==
    /\ pc[p] = "work"
    /\ Goto(p, "release")
    /\ UNCHANGED <<lockVars, sockVars, spawnVars, past, crashes>>

\* Lock.Release while owned: the spawn claim goes first, the lock last.
Release(p) ==
    /\ pc[p] = "release"
    /\ \/ lock = p /\ RemoveSpawnLockFile /\ Goto(p, "unlock")
       \/ lock # p /\ Goto(p, "done") /\ UNCHANGED <<claim, stale>>
    /\ UNCHANGED <<lockVars, sockVars, at, tries, judged, past, crashes>>

Unlock(p) ==
    /\ pc[p] = "unlock"
    /\ Removes(p)
    /\ Goto(p, "done")
    /\ UNCHANGED <<body, sockVars, spawnVars, beside, crashes>>

\* The process dies; its files stay.
Crash(p) ==
    /\ crashes < MaxCrashes /\ Alive(p)
    /\ crashes' = crashes + 1
    /\ listening' = listening \ {p}
    /\ Goto(p, "dead")
    /\ UNCHANGED <<lockVars, sock, spawnVars, past>>

-----------------------------------------------------------------------------
(* The spawners.                                                           *)

Inside == {q \in Proc : pc[q] \in Acquiring}

\* A process enters AcquireLock, whoever else is inside.
Starts(p) ==
    /\ pc[p] = "idle"
    /\ Goto(p, "create")
    /\ beside' = IF Inside = {} THEN beside ELSE beside \union Inside \union {p}

\* A maintenance command takes the lock without a spawn claim.
StartTool(p) ==
    /\ p \in Tool /\ Starts(p)
    /\ UNCHANGED <<lockVars, sockVars, spawnVars, robbed, crashes>>

\* ensureRunningWith's first dial, and the one each tick of its poll makes.
DialDaemon(s) ==
    /\ at[s] \in {"dial", "wait"}
    /\ \/ Answers /\ Move(s, "done")
       \/ ~Answers /\ Move(s, "claim")
       \/ ~Answers /\ at[s] = "wait" /\ Move(s, "done")   \* the poll's deadline
    /\ tries' = [tries EXCEPT ![s] = 0]
    /\ UNCHANGED <<lockVars, sockVars, pc, claim, stale, judged, past, crashes>>

InFlight(s) == Move(s, IF s \in Hook THEN "done" ELSE "wait")

\* ClaimSpawn's CreateNew; a claim not yet stamped reads as fresh, like a stamped one.
ClaimSpawn(s) ==
    /\ at[s] = "claim"
    /\ \/ /\ tries[s] = 2
          /\ InFlight(s)
          /\ UNCHANGED <<claim, stale, tries>>
       \/ /\ tries[s] < 2
          /\ tries' = [tries EXCEPT ![s] = @ + 1]
          /\ \/ /\ claim = None
                /\ claim' = s /\ stale' = FALSE
                /\ Move(s, IF s \in Hook THEN "spawn" ELSE "probe")
             \/ /\ claim # None
                /\ Move(s, "read")
                /\ UNCHANGED <<claim, stale>>
    /\ UNCHANGED <<lockVars, sockVars, pc, judged, past, crashes>>

\* readSpawnLock: gone, fresh or stale.
ReadClaim(s) ==
    /\ at[s] = "read"
    /\ \/ claim = None /\ Move(s, "claim") /\ UNCHANGED judged
       \/ claim # None /\ ~stale /\ InFlight(s) /\ UNCHANGED judged
       \/ claim # None /\ stale /\ Move(s, "check")
          /\ judged' = [judged EXCEPT ![s] = claim]
    /\ UNCHANGED <<lockVars, sockVars, pc, claim, stale, tries, past, crashes>>

\* removeSpawnLockIf: the contents are compared, then the file is removed by name.
CheckClaim(s) ==
    /\ at[s] = "check"
    /\ Move(s, IF claim = judged[s] THEN "clear" ELSE "claim")
    /\ UNCHANGED <<lockVars, sockVars, pc, claim, stale, tries, judged, past, crashes>>

ClearClaim(s) ==
    /\ at[s] = "clear"
    /\ RemoveSpawnLockFile
    /\ Move(s, "claim")
    /\ UNCHANGED <<lockVars, sockVars, pc, tries, judged, past, crashes>>

\* ensureRunningWith dials once more before it spawns.
ProbeAgain(s) ==
    /\ at[s] = "probe"
    /\ \/ Answers /\ GiveBack(s) /\ Move(s, "done")
       \/ ~Answers /\ Move(s, "spawn") /\ UNCHANGED <<claim, stale>>
       \/ ~Answers /\ GiveBack(s) /\ Move(s, "done")      \* cut short by the deadline
    /\ UNCHANGED <<lockVars, sockVars, pc, tries, judged, past, crashes>>

Spawn(s, p) ==
    /\ at[s] = "spawn" /\ p \in Daemon /\ Starts(p)
    /\ Move(s, "done")
    /\ UNCHANGED <<lockVars, sockVars, claim, stale, tries, judged, robbed, crashes>>

SpawnFails(s) ==
    /\ at[s] = "spawn"
    /\ GiveBack(s)
    /\ Move(s, "done")
    /\ UNCHANGED <<lockVars, sockVars, pc, tries, judged, past, crashes>>

\* spawnLockStaleAfter passes.
ClaimAges ==
    /\ claim # None /\ ~stale
    /\ stale' = TRUE
    /\ UNCHANGED <<lockVars, sockVars, pc, claim, at, tries, judged, past, crashes>>

Process(p) ==
    \/ Create(p) \/ Write(p) \/ Chmod(p) \/ Judge(p) \/ RemoveLockFiles(p)
    \/ Acquired(p) \/ Dial(p) \/ Unlink(p) \/ Bind(p) \/ Listen(p) \/ Announce(p)
    \/ StopServing(p) \/ CloseListener(p) \/ ToolEnds(p)
    \/ Release(p) \/ Unlock(p) \/ Crash(p) \/ StartTool(p)

Spawning(s) ==
    \/ DialDaemon(s) \/ ClaimSpawn(s) \/ ReadClaim(s) \/ CheckClaim(s) \/ ClearClaim(s)
    \/ ProbeAgain(s) \/ SpawnFails(s) \/ \E p \in Proc : Spawn(s, p)

Next == (\E p \in Proc : Process(p)) \/ (\E s \in Spawner : Spawning(s)) \/ ClaimAges

Spec == Init /\ [][Next]_vars

-----------------------------------------------------------------------------
(* Properties.                                                             *)

\* A second process is past AcquireLock only if the lock file of one of the two was
\* removed while its owner was alive (removeLockFiles and Release remove by name), and
\* the first to be robbed so had met another start inside AcquireLock: whatever spawn
\* claims were lost, reclaimed or removed, starts that do not meet there get one holder,
\* and of starts that do meet only those that take each other's file for a stale one
\* break the singleton.
OneHolder ==
    /\ \A p, q \in Proc : Holding(p) /\ Holding(q) /\ p # q => {p, q} \cap robbed # {}
    /\ robbed # {} => robbed \cap beside # {}

\* A start that met no other in AcquireLock and was not robbed is refused (ErrLockHeld)
\* only while another process is past AcquireLock, and a holder of the lock finds the
\* address in use (listen) only after some process was robbed: a lock left by a dead or
\* half-started process, or a listener left by a stopping one, never costs the project
\* its daemon (lockIsStale, listen, Stop's order).
TurnedAwayByOwner ==
    [][\A p \in Proc :
        /\ pc[p] # "lost" /\ pc'[p] = "lost" =>
              p \in beside \union robbed \/ \E q \in Proc \ {p} : Holding(q)
        /\ pc[p] \in {"dial", "bind"} /\ pc'[p] = "release" => robbed # {}]_vars
=============================================================================
