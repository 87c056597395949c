-------------------------- MODULE SingletonProofs --------------------------
(***************************************************************************)
(* One daemon per project, for any processes, spawners and crashes, and    *)
(* for starts that meet inside AcquireLock as well as starts that do not.  *)
(***************************************************************************)
EXTENDS Singleton, TLAPS

\* The shape of what AcquireLock, listen and Stop read and write.
LockTypes ==
    /\ lock \in Proc \union {None} /\ body \subseteq Proc
    /\ sock \in Daemon \union {None} /\ listening \subseteq Daemon
    /\ pc \in [Proc -> Acquiring \union Running \union Ended \union {"idle"}]
    /\ beside \subseteq Proc /\ robbed \subseteq Proc

\* Two processes inside AcquireLock have met there.
Met == \A p, q \in Proc : pc[p] \in Acquiring /\ pc[q] \in Acquiring /\ p # q => p \in beside

\* The lock file is that of the process that created it, until another removes it.
LockNamesOwner ==
    /\ \A p \in Proc : pc[p] \in {"write", "chmod"} \union Running => lock = p \/ p \in robbed
    /\ \A p \in Proc : pc[p] = "chmod" \/ Holding(p) => p \in body
    /\ \A p \in Proc : lock = p => pc[p] \notin {"idle", "create", "judge", "remove", "recreate"}

\* A lock about to be removed was stale: before the first robbery whoever holds it now has
\* taken it since, beside the remover, and a recreation meets only those it has met.
Reclaims ==
    /\ \A p, q \in Proc : pc[p] = "remove" /\ Holding(q) => q \in beside \/ robbed # {}
    /\ \A p \in Proc : pc[p] = "recreate" => lock = None \/ p \in beside

\* A process writes its LockInfo once, on its way to the lock.
WrittenPast == \A p \in body : pc[p] \in {"chmod"} \union Running \union Ended

\* A daemon listens from its bind until its Stop, and before the first robbery nobody binds
\* the address between its unlink and its bind.
ListensHolding ==
    /\ \A p \in Proc : pc[p] \in {"dial", "unlink", "bind", "bound", "up", "serving", "closing"}
                          => p \in Daemon
    /\ \A p \in listening : pc[p] \in {"up", "serving", "closing"}
    /\ \A p \in Proc : pc[p] = "bind" => sock = None \/ robbed # {}

\* The first process to be robbed had met another start.
FirstRobbed == robbed # {} => robbed \cap beside # {}

LockInv ==
    /\ LockTypes /\ Met /\ LockNamesOwner /\ Reclaims /\ WrittenPast /\ ListensHolding
    /\ FirstRobbed

LEMMA LockInvInit == Init => LockInv
BY SingletonAssumption
   DEF Init, LockInv, LockTypes, Met, LockNamesOwner, Reclaims, WrittenPast,
       ListensHolding, FirstRobbed, Acquiring, Running, Ended, Holding

\* A holder that was not robbed is the process the lock file names.
LEMMA OwnerHolds == LockInv => OneHolder
BY DEF LockInv, LockNamesOwner, FirstRobbed, OneHolder, Holding

\* Every system call of a process that competes for the lock keeps the invariant.
LEMMA ProcessStep ==
    ASSUME LockInv, NEW p \in Proc, Process(p)
    PROVE  LockInv'
<1> USE SingletonAssumption
    DEF LockInv, LockTypes, Met, LockNamesOwner, Reclaims, WrittenPast, ListensHolding, FirstRobbed,
        Acquiring, Running, Ended, Holding, Proc, Goto, lockVars, sockVars, past
<1>1. CASE Create(p)
  BY <1>1 DEF Create
<1>2. CASE Write(p)
  BY <1>2 DEF Write
<1>3. CASE Chmod(p)
  BY <1>3 DEF Chmod
<1>4. CASE Judge(p)
  BY <1>4 DEF Judge, LockIsStale, Alive
<1>5. CASE RemoveLockFiles(p)
  BY <1>5 DEF RemoveLockFiles, Removes, Alive
<1>6. CASE Acquired(p)
  BY <1>6 DEF Acquired
<1>7. CASE Dial(p)
  BY <1>7 DEF Dial, Answers
<1>8. CASE Unlink(p)
  BY <1>8 DEF Unlink
<1>9. CASE Bind(p)
  BY <1>9 DEF Bind
<1>10. CASE Listen(p)
  BY <1>10 DEF Listen
<1>11. CASE Announce(p)
  BY <1>11 DEF Announce
<1>12. CASE StopServing(p)
  BY <1>12 DEF StopServing
<1>13. CASE CloseListener(p)
  BY <1>13 DEF CloseListener
<1>14. CASE ToolEnds(p)
  BY <1>14 DEF ToolEnds
<1>15. CASE Release(p)
  BY <1>15 DEF Release
<1>16. CASE Unlock(p)
  BY <1>16 DEF Unlock, Removes, Alive
<1>17. CASE Crash(p)
  BY <1>17 DEF Crash, Alive
<1>18. CASE StartTool(p)
  BY <1>18 DEF StartTool, Starts, Inside
<1> QED
  BY <1>1, <1>2, <1>3, <1>4, <1>5, <1>6, <1>7, <1>8, <1>9, <1>10, <1>11, <1>12, <1>13, <1>14, <1>15, <1>16, <1>17, <1>18, Zenon DEF Process

\* A spawner touches the lock only by starting a process, and that one at its beginning.
LEMMA SpawningStep ==
    ASSUME LockInv, NEW s \in Spawner, Spawning(s)
    PROVE  LockInv'
<1> USE DEF LockInv, LockTypes, Met, LockNamesOwner, Reclaims, WrittenPast, ListensHolding,
        FirstRobbed, Holding, lockVars, sockVars, past
<1>1. CASE \E p \in Proc : Spawn(s, p)
  BY <1>1, SingletonAssumption DEF Spawn, Starts, Inside, Acquiring, Running, Ended, Proc, Goto
<1>2. CASE UNCHANGED <<lockVars, sockVars, pc, past>>
  BY <1>2
<1>3. Spawning(s) => UNCHANGED <<lockVars, sockVars, pc, past>> \/ \E p \in Proc : Spawn(s, p)
  BY DEF Spawning, DialDaemon, ClaimSpawn, ReadClaim, CheckClaim, ClearClaim, ProbeAgain, SpawnFails
<1> QED
  BY <1>1, <1>2, <1>3

LEMMA LockInvStep ==
    ASSUME LockInv, [Next]_vars
    PROVE  LockInv'
<1>1. CASE UNCHANGED <<lockVars, sockVars, pc, past>>
  BY <1>1 DEF LockInv, LockTypes, Met, LockNamesOwner, Reclaims, WrittenPast,
         ListensHolding, FirstRobbed, Holding, lockVars, sockVars, past
<1>2. ClaimAges \/ UNCHANGED vars => UNCHANGED <<lockVars, sockVars, pc, past>>
  BY DEF ClaimAges, vars
<1> QED
  BY <1>1, <1>2, ProcessStep, SpawningStep DEF Next

LEMMA LockInvAlways == Spec => []LockInv
BY LockInvInit, LockInvStep, PTL DEF Spec

\* However starts interleave, whatever spawn claims were lost, reclaimed or removed, and whoever
\* crashed with the lock or the socket: a second process is past AcquireLock only after a live one's
\* lock file was removed, and that begins only with two starts that met inside AcquireLock.
THEOREM OneHolderAlways == Spec => []OneHolder
BY LockInvAlways, OwnerHolds, PTL

\* The steps that turn a process away.
TurnedAway(p) ==
    /\ pc[p] # "lost" /\ pc'[p] = "lost" =>
          p \in beside \union robbed \/ \E q \in Proc \ {p} : Holding(q)
    /\ pc[p] \in {"dial", "bind"} /\ pc'[p] = "release" => robbed # {}

\* Only AcquireLock and listen turn a process away, and each of them with the reason stated:
\* lockIsStale saw the written lock of a live process or the listener of one.
LEMMA TurnedAwayStep ==
    ASSUME LockInv, Next, NEW p \in Proc
    PROVE  TurnedAway(p)
<1> USE DEF LockInv, LockTypes, Goto
<1>1. CASE pc'[p] = pc[p]
  BY <1>1 DEF TurnedAway
<1>2. CASE pc'[p] # pc[p]
  <2>1. PICK q \in Proc : Process(q) \/ \E s \in Spawner : Spawn(s, q)
    BY <1>2 DEF Next, Spawning, ClaimAges, DialDaemon, ClaimSpawn, ReadClaim, CheckClaim, ClearClaim,
           ProbeAgain, SpawnFails
  <2>2. q = p
    BY <1>2, <2>1 DEF Process, Create, Write, Chmod, Judge, RemoveLockFiles, Acquired, Dial,
       Unlink, Bind, Listen, Announce, StopServing, CloseListener, ToolEnds, Release, Unlock, Crash,
       StartTool, Spawn, Starts
  <2>3. \A r \in listening : r \in Proc /\ Holding(r) /\ pc[r] \notin {"dial", "bind"}
    BY DEF ListensHolding, Holding, Running, Proc
  <2>4. CASE Judge(p)
    <3>1. CASE LockIsStale(lock)
      BY <2>4, <3>1 DEF Judge, TurnedAway
    <3>2. CASE ~LockIsStale(lock)
      <4>1. lock \in body /\ pc[p] = "judge" /\ pc[lock] \in {"chmod"} \union Running \union Ended
        BY <2>4, <3>2 DEF Judge, LockIsStale, WrittenPast
      <4>2. p \in beside \/ \E r \in Proc \ {p} : Holding(r)
        BY <2>3, <3>2, <4>1
           DEF LockIsStale, Answers, Alive, Met, Holding, Acquiring, Running, Ended
      <4> QED
        BY <2>4, <4>1, <4>2 DEF Judge, TurnedAway
    <3> QED
      BY <3>1, <3>2
  <2>5. CASE Dial(p) \/ Bind(p)
    BY <2>3, <2>5 DEF Dial, Bind, TurnedAway, Answers, ListensHolding, LockNamesOwner, Holding, Running
  <2>6. CASE Create(p) \/ Chmod(p)
    BY <2>6, SingletonAssumption DEF Create, Chmod, TurnedAway, LockNamesOwner, Reclaims
  <2> QED
    BY <2>1, <2>2, <2>4, <2>5, <2>6 DEF TurnedAway, Process, Write, RemoveLockFiles, Acquired,
       Unlink, Listen, Announce, StopServing, CloseListener, ToolEnds, Release, Unlock, Crash,
       StartTool, Spawn, Starts
<1> QED
  BY <1>1, <1>2

\* A start that met no other and was not robbed is refused only while another process is past
\* AcquireLock, and listen refuses a holder only after a robbery: neither a lock that a dead or
\* half-started process left nor the listener of a stopping one costs the project its daemon.
THEOREM TurnedAwayByOwnerAlways == Spec => TurnedAwayByOwner
<1>1. LockInv /\ [Next]_vars =>
        [\A p \in Proc :
            /\ pc[p] # "lost" /\ pc'[p] = "lost" =>
                  p \in beside \union robbed \/ \E q \in Proc \ {p} : Holding(q)
            /\ pc[p] \in {"dial", "bind"} /\ pc'[p] = "release" => robbed # {}]_vars
  BY TurnedAwayStep DEF TurnedAway
<1> QED
  BY <1>1, LockInvAlways, PTL DEF Spec, TurnedAwayByOwner
=============================================================================
