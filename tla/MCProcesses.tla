---------------------------- MODULE MCProcesses ----------------------------
(* The processes of a project, for TLC: the daemons that compete for it       *)
(* (Singleton), the end of a session over daemon restarts (SessionEnd), the   *)
(* hooks that reach the daemon or its spool (HookDelivery), and the command   *)
(* that imports a legacy project and backs it up (Migration).  The four share *)
(* no variable, so one behaviour takes the steps of one of them (part) and    *)
(* leaves the others in their initial state.                                  *)
EXTENDS Singleton, FiniteSets, TLC

CONSTANTS Flush, MayDefer, MaxStarts,
          Capture, MaxFaults, MaxFlips,
          Declared, Batch, Id, MaxMoves, MaxMishaps

VARIABLES part,
          lines, observe, acked, ran, marker, asking, life, starts, ends, end, seen, await,
          gaps, pass, call,
          hook, srv, daemon, claims, starter, wal, spool, pub, unkept, behind, hot, record,
          flip, start, redrain, watch, kick, kicked, entry, faults, flips,
          frontier, legacy, objects, retained, mapping, cursor, handoff, wrote, writer, op,
          statted, bk, backup, files, sealing, doomed, drills, moves, mishaps, late, reused, lost

OneSession == [f \in Flush |-> "s1"]
Contents == <<"a", "b">>
Watched == <<"position", "head">>

End == INSTANCE SessionEnd WITH hook <- asking, SessionOf <- OneSession
Deliver == INSTANCE HookDelivery WITH claim <- claims, Hook <- Capture
Import == INSTANCE Migration WITH
    Payload <- Contents, File <- Watched, ver <- files, lock <- writer

endVars == <<lines, observe, acked, ran, marker, asking, life, starts, ends, end, seen,
             await, gaps, pass, call>>
deliverVars == <<hook, srv, daemon, claims, starter, wal, spool, pub, unkept, behind, hot,
                 record, flip, start, redrain, watch, kick, kicked, entry, faults, flips>>
importVars == <<frontier, legacy, objects, retained, mapping, cursor, handoff, wrote, writer, op,
                statted, bk, backup, files, sealing, doomed, drills, moves, mishaps, late, reused,
                lost>>
parts == <<vars, endVars, deliverVars, importVars, part>>

Symmetry == Permutations(Daemon) \union Permutations(Hook)

\* The maintenance command runs beside a session's spawner, or the hooks run without it.
Beside == (\A t \in Tool : pc[t] = "idle") \/ (\A h \in Hook : at[h] = "claim" /\ tries[h] = 0)

\* An import meets two of these at most: mishaps, writes of the daemon, new legacy records, and
\* calls that overlap.
Overlaps ==
    Cardinality({k \in 1..3 : <<op # Import!Idle /\ bk # Import!NoBackup,
                                legacy # "off",
                                statted # {} /\ \E i \in Id : backup[i].there>>[k]})
Strain == mishaps + moves + (frontier - Declared) + Overlaps <= 2

PartInit ==
    /\ part \in {"project", "end", "hooks", "import"}
    /\ Init
    /\ End!Init
    /\ Deliver!Init
    /\ Import!Init

PartNext ==
    \/ /\ part = "project"
       /\ Next
       /\ UNCHANGED <<endVars, deliverVars, importVars, part>>
    \/ /\ part = "end"
       /\ End!Next
       /\ UNCHANGED <<vars, deliverVars, importVars, part>>
    \/ /\ part = "hooks"
       /\ Deliver!Next
       /\ UNCHANGED <<vars, endVars, importVars, part>>
    \/ /\ part = "import"
       /\ Import!Next
       /\ UNCHANGED <<vars, endVars, deliverVars, part>>

PartSpec == PartInit /\ [][PartNext]_parts

(* One process never ends a session twice at once for one flush, and a flush *)
(* reaches the committed frontier only when its session really was ended,    *)
(* not when a shutdown or a drain's deadline cut the end short               *)
(* (startSessionEnd, launchSessionEnd).                                      *)
EndedForReal == End!EndedForReal

(* A hook that ended without a counted drop left its event in the log, in    *)
(* its spool file or published, unless the daemon decided not to keep it;    *)
(* and the event that caused a cold start is settled by the time the daemon  *)
(* it started takes requests, or still spooled because the startup drain     *)
(* failed (Send, dispatchOp, Run).                                           *)
EventKept == Deliver!EventKept

(* Writing is handed over only when every record up to the handoff's frontier *)
(* is imported, and the source has none past it unless the legacy writer was  *)
(* let in during the cutover; none is mapped twice; what the logs name is     *)
(* kept, unless a power cut took it or the import found it unrooted; and a    *)
(* backup that verifies holds the delivery files of one instant (Import,      *)
(* Cutover, TakeBackup, RehearseRollback).                                    *)
MigrationSound == Import!MigrationSound
=============================================================================
