----------------------- MODULE ObservationPublication -----------------------
(***************************************************************************)
(* How one leased delivery becomes one tool_use record: the observer       *)
(* recovers or derives the record, the store writes a publication intent   *)
(* to index/observations.jsonl before the record and its supersede marks   *)
(* reach index/tool_use.jsonl, and the capture is linked last              *)
(* (internal/store/observation_publication.go, tooluseindex.go,            *)
(* publication_sync.go, prompt_recovery.go, internal/observer/identity.go, *)
(* prompt.go, prompt_delivery.go, tooluse.go, supersede.go).               *)
(*                                                                         *)
(* A delivery is a number in lease order; a session's lane hands over its  *)
(* lowest unlinked one.  The store's in-memory index is a function of the  *)
(* lines of tool_use.jsonl, so those lines stand for both.  Files are      *)
(* sequences of lines of which a synced prefix survives a power loss; a    *)
(* torn last line of the index is skipped and terminated at the next open, *)
(* so it is a line that was not written.  Not here: conflicting intents    *)
(* and records changed under the store, which only damage can produce, and *)
(* tool calls without a host id.                                           *)
(***************************************************************************)
EXTENDS Naturals, Sequences, SequencesExt

CONSTANTS Delivery,    \* delivery |-> [session, tool, name, root, path]
          Prompt,      \* the tool a prompt is recorded under (promptTool)
          NoPath,      \* the path of what is no file's content
          MaxFaults    \* bound on failed writes and syncs, crashes and power losses

VARIABLES roots,       \* roots in the object store
          rootsSynced, \* those a publication pass made durable
          index,       \* lines of tool_use.jsonl
          indexSynced, \* how many of them are durable
          sidecar,     \* intents of observations.jsonl
          sideSynced,  \* how many of them are durable
          tornIntent,  \* a torn intent ends the sidecar
          bindings,    \* obsBindings
          committed,   \* the bindings whose publication is complete
          unavailable, \* obsUnavailable
          uncertain,   \* obsSidecarUncertain
          turn,        \* st.Turn per session
          mutex,       \* obsPubMu
          worker,      \* the observer's call per session
          link,        \* the capture link of each delivery
          faults

files == <<roots, rootsSynced, index, indexSynced, sidecar, sideSynced, tornIntent>>
memory == <<bindings, committed, unavailable, uncertain>>
vars == <<files, memory, turn, mutex, worker, link, faults>>

Obs == DOMAIN Delivery
Session == {Delivery[o].session : o \in Obs}
Free == "free"
Idle == [pc |-> "idle", obs |-> 0, asked |-> {}, at |-> 0]
Unlinked == [linked |-> FALSE, id |-> <<"none", "none", 0>>, sup |-> {}]
Unbound == [obs |-> 0]

Init ==
    /\ roots = {} /\ rootsSynced = {}
    /\ index = <<>> /\ indexSynced = 0
    /\ sidecar = <<>> /\ sideSynced = 0 /\ tornIntent = FALSE
    /\ bindings = [o \in Obs |-> Unbound]
    /\ committed = {} /\ unavailable = {} /\ uncertain = FALSE
    /\ turn = [s \in Session |-> 0]
    /\ mutex = Free
    /\ worker = [s \in Session |-> Idle]
    /\ link = [o \in Obs |-> Unlinked]
    /\ faults = 0

-----------------------------------------------------------------------------
(* The tool_use index. *)

\* A record's content stands for its digest: its author tells two prompts of one
\* text apart, as promptDeliveryDigest does.
RecordLine(o, id) == [op |-> "record", id |-> id, by |-> id, obs |-> o]
MarkLine(id, by) == [op |-> "supersede", id |-> id, by |-> by, obs |-> 0]

Records(idx) == {i \in DOMAIN idx : idx[i].op = "record"}
Holds(idx, id) == \E i \in Records(idx) : idx[i].id = id
AuthorOf(idx, id) == idx[CHOOSE i \in Records(idx) : idx[i].id = id].obs
Marked(idx, id) == \E i \in DOMAIN idx : idx[i].op = "supersede" /\ idx[i].id = id
Live(idx, id) == Holds(idx, id) /\ ~Marked(idx, id)

\* identityOf: root, session, tool and path.
Identity(o) == <<Delivery[o].root, Delivery[o].session, Delivery[o].tool, Delivery[o].path>>

IsPrompt(o) == Delivery[o].tool = Prompt

(* Deviation: the frontier is not consulted. *)
NextTurnUnread(s) == 0

\* PromptFrontier's next turn, over the session's prompts.
NextTurn(s) ==
    LET past == {index[i].id[3] : i \in {j \in Records(index) :
                    IsPrompt(index[j].obs) /\ Delivery[index[j].obs].session = s}}
    IN IF past = {} THEN 0 ELSE (CHOOSE t \in past : \A u \in past : u <= t) + 1

IdAt(o, t) ==
    IF IsPrompt(o) THEN <<"prompt", Delivery[o].session, t>> ELSE <<"tool", Delivery[o].name, 0>>

\* supersessionCandidates: the live reads of the same path.
Candidates(o, id) ==
    IF Delivery[o].path = NoPath THEN {}
    ELSE {index[i].id : i \in {j \in Records(index) :
            /\ Delivery[index[j].obs].path = Delivery[o].path
            /\ index[j].id # id
            /\ Live(index, index[j].id)}}

\* observationStateLocked, and the same test in completeIntentLocked: a target lost,
\* the intent's record present as written, a mark still missing.
LostTarget(idx, in) ==
    \E t \in in.sup : ~Holds(idx, t.id) \/ AuthorOf(idx, t.id) # t.obs

Lost(idx, in) ==
    \/ Holds(idx, in.id) /\ AuthorOf(idx, in.id) # in.author
    \/ LostTarget(idx, in)

Published(idx, in) ==
    /\ ~Lost(idx, in)
    /\ Holds(idx, in.id)
    /\ \A t \in in.sup : ~Live(idx, t.id)

-----------------------------------------------------------------------------
(* The observer's call.  A call that fails retains its delivery: the lane hands *)
(* it over again.                                                              *)

Pending(s) == {o \in Obs : Delivery[o].session = s /\ ~link[o].linked}
Lowest(s) == CHOOSE o \in Pending(s) : \A p \in Pending(s) : o <= p

Become(s, w) == worker' = [worker EXCEPT ![s] = w]
Retain(s) == Become(s, Idle)
Goes(s, pc) == worker' = [worker EXCEPT ![s].pc = pc]

\* SyncPublication: every object of the root is read back and synced, then the index
\* files; the sidecar is not one of them.
SyncsPublication(r) ==
    /\ r \in roots
    /\ rootsSynced' = rootsSynced \union {r}
    /\ indexSynced' = Len(index)

Fault == faults < MaxFaults /\ faults' = faults + 1

\* RecoverToolUseByObservation finds a binding: the stored original is completed,
\* its root first proven again.
Recover(s) ==
    /\ worker[s].pc = "idle"
    /\ mutex = Free
    /\ Pending(s) # {}
    /\ LET o == Lowest(s) IN
        /\ o \notin unavailable
        /\ bindings[o] # Unbound
        /\ SyncsPublication(Delivery[o].root)
        /\ IF LostTarget(index, bindings[o])
             THEN /\ unavailable' = unavailable \union {o}
                  /\ UNCHANGED <<mutex, worker>>
             ELSE /\ mutex' = s
                  /\ Become(s, [pc |-> "reserved", obs |-> o, asked |-> {}, at |-> bindings[o].id[3]])
                  /\ UNCHANGED unavailable
    /\ UNCHANGED <<roots, index, sidecar, sideSynced, tornIntent, bindings, committed,
                   uncertain, turn, link, faults>>

\* recoverPrompt: the record PromptFrontier finds by the delivery's digest.
PromptRecord(o) == {i \in Records(index) : IsPrompt(o) /\ index[i].obs = o}

\* Nothing is bound and the sidecar is complete: the bytes are put, the turn and the
\* candidates derived, and publishObservation proves the root before its mutex.  A
\* prompt whose record is there already is linked to it (recoverPrompt).
Derive(s) ==
    /\ worker[s].pc = "idle"
    /\ Pending(s) # {}
    /\ LET o == Lowest(s)
           t == IF NextTurn(s) > turn[s] THEN NextTurn(s) ELSE turn[s]
           mine == PromptRecord(o)
       IN
        /\ o \notin unavailable
        /\ bindings[o] = Unbound
        /\ ~uncertain
        /\ roots' = roots \union {Delivery[o].root}
        /\ rootsSynced' = rootsSynced \union {Delivery[o].root}
        /\ indexSynced' = Len(index)
        /\ turn' = IF IsPrompt(o) THEN [turn EXCEPT ![s] = t] ELSE turn
        /\ IF mine # {}
             THEN Become(s, [pc |-> "link", obs |-> o, asked |-> {},
                             at |-> index[CHOOSE i \in mine : TRUE].id[3]])
             ELSE Become(s, [pc |-> "synced", obs |-> o, asked |-> Candidates(o, IdAt(o, t)),
                             at |-> t])
    /\ UNCHANGED <<index, sidecar, sideSynced, tornIntent, memory, mutex, link, faults>>

\* buildIntentLocked: the record a repeated host id already has, or a new record
\* with the candidates that are still live.
IntentOf(o, id, asked) ==
    IF Holds(index, id) /\ Identity(AuthorOf(index, id)) = Identity(o)
      THEN [obs |-> o, id |-> id, author |-> AuthorOf(index, id), sup |-> {}]
      ELSE [obs |-> o, id |-> id, author |-> o,
            sup |-> {[id |-> t, obs |-> AuthorOf(index, t)] :
                        t \in {u \in asked \ {id} : Live(index, u)}}]

\* reserveConflictLocked for an observation with no binding.
Conflict(o, id) ==
    \/ \E p \in Obs : bindings[p] # Unbound /\ bindings[p].id = id /\ Identity(p) # Identity(o)
    \/ Holds(index, id) /\ Identity(AuthorOf(index, id)) # Identity(o)
    \/ uncertain

\* The intent line is written under the mutex; a conflict refuses it.
Reserve(s) ==
    /\ worker[s].pc = "synced"
    /\ mutex = Free
    /\ LET o == worker[s].obs
           id == IdAt(o, worker[s].at)
       IN IF Conflict(o, id)
            THEN Retain(s) /\ UNCHANGED <<sidecar, mutex>>
            ELSE /\ sidecar' = Append(sidecar, IntentOf(o, id, worker[s].asked))
                 /\ Goes(s, "intent")
                 /\ mutex' = s
    /\ UNCHANGED <<roots, rootsSynced, index, indexSynced, sideSynced, tornIntent, memory,
                   turn, link, faults>>

\* The intent and its directory are synced and the binding installed.
SyncIntent(s) ==
    /\ worker[s].pc = "intent"
    /\ sideSynced' = Len(sidecar)
    /\ bindings' = [bindings EXCEPT ![worker[s].obs] = sidecar[Len(sidecar)]]
    /\ Goes(s, "reserved")
    /\ UNCHANGED <<roots, rootsSynced, index, indexSynced, sidecar, tornIntent, committed,
                   unavailable, uncertain, turn, mutex, link, faults>>

\* A failed sync poisons the sidecar for the life of the process.
SyncIntentFails(s) ==
    /\ Fault
    /\ worker[s].pc = "intent"
    /\ uncertain' = TRUE
    /\ Retain(s)
    /\ mutex' = Free
    /\ UNCHANGED <<files, bindings, committed, unavailable, turn, link>>

MarksFor(in) == {t.id : t \in {u \in in.sup : Live(index, u.id)}}

\* The marks' lines, in some order.
LinesOf(ids, by) ==
    LET order == SetToSeq(ids) IN [i \in DOMAIN order |-> MarkLine(order[i], by)]

\* completeIntentLocked replays the record and the marks still missing, in one write.
WriteBatch(s) ==
    /\ worker[s].pc = "reserved"
    /\ LET in == bindings[worker[s].obs]
           head == IF Holds(index, in.id) THEN <<>> ELSE <<RecordLine(in.author, in.id)>>
       IN index' = index \o head \o LinesOf(MarksFor(in), in.id)
    /\ Goes(s, "written")
    /\ UNCHANGED <<roots, rootsSynced, indexSynced, sidecar, sideSynced, tornIntent, memory,
                   turn, mutex, link, faults>>

\* The write, or the publication sync after it, fails.
BatchFails(s) ==
    /\ Fault
    /\ worker[s].pc \in {"reserved", "written"}
    /\ Retain(s)
    /\ mutex' = Free
    /\ UNCHANGED <<files, memory, turn, link>>

\* The second barrier, and the commit of what observationStateLocked finds complete.
Commit(s) ==
    /\ worker[s].pc = "written"
    /\ LET o == worker[s].obs IN
        /\ SyncsPublication(Delivery[o].root)
        /\ IF Published(index, bindings[o])
             THEN committed' = committed \union {o} /\ Goes(s, "link") /\ UNCHANGED unavailable
             ELSE unavailable' = unavailable \union {o} /\ Retain(s) /\ UNCHANGED committed
    /\ mutex' = Free
    /\ UNCHANGED <<roots, index, sidecar, sideSynced, tornIntent, bindings, uncertain, turn,
                   link, faults>>

\* adoptTurn, for the turn a prompt was recorded at.
TurnAfter(o, at) ==
    LET s == Delivery[o].session IN
    IF IsPrompt(o) /\ at + 1 > turn[s] THEN [turn EXCEPT ![s] = at + 1] ELSE turn

\* The capture is linked, and the session moves past a prompt's turn.
Link(s) ==
    /\ worker[s].pc = "link"
    /\ LET o == worker[s].obs
           at == worker[s].at
       IN
        /\ link' = [link EXCEPT ![o] = [linked |-> TRUE, id |-> IdAt(o, at),
                        sup |-> IF bindings[o] = Unbound THEN {} ELSE {t.id : t \in bindings[o].sup}]]
        /\ turn' = TurnAfter(o, at)
    /\ Retain(s)
    /\ UNCHANGED <<files, memory, mutex, faults>>

-----------------------------------------------------------------------------
(* Crashes, and the open that follows. *)

\* loadToolUse, then loadObservationsLocked: each intent's state is derived from the
\* index; an unterminated one leaves the sidecar uncertain.  st.Turn is the observer's
\* saved state, which may trail by any amount.
Open(idx, side, torn) ==
    LET bound(o) == {i \in DOMAIN side : side[i].obs = o /\ (torn => i < Len(side))}
        at(o) == side[CHOOSE i \in bound(o) : TRUE]
        known == {o \in Obs : bound(o) # {}}
    IN
    /\ bindings' = [o \in Obs |-> IF o \in known THEN at(o) ELSE Unbound]
    /\ committed' = {o \in known : Published(idx, at(o))}
    /\ unavailable' = {o \in known : Lost(idx, at(o))}
                        \union (IF torn THEN {side[Len(side)].obs} ELSE {})
    /\ uncertain' = torn
    /\ turn' = [s \in Session |-> 0]
    /\ worker' = [s \in Session |-> Idle]
    /\ mutex' = Free

\* The process ends; the files keep what was written.
ProcessCrash ==
    /\ Fault
    /\ Open(index, sidecar, tornIntent)
    /\ UNCHANGED <<files, link>>

\* Power is lost: of what was not synced any prefix survives, and an intent may be torn.
PowerLoss ==
    /\ Fault
    /\ \E i \in indexSynced..Len(index), j \in sideSynced..Len(sidecar), tear \in BOOLEAN :
        LET torn == tornIntent \/ (tear /\ j > sideSynced) IN
        /\ index' = SubSeq(index, 1, i) /\ indexSynced' = i
        /\ sidecar' = SubSeq(sidecar, 1, j) /\ sideSynced' = j
        /\ tornIntent' = torn
        /\ Open(SubSeq(index, 1, i), SubSeq(sidecar, 1, j), torn)
    /\ roots' = rootsSynced
    /\ UNCHANGED <<rootsSynced, link>>

Next ==
    \/ \E s \in Session :
        \/ Recover(s) \/ Derive(s) \/ Reserve(s) \/ SyncIntent(s) \/ SyncIntentFails(s)
        \/ WriteBatch(s) \/ BatchFails(s) \/ Commit(s) \/ Link(s)
    \/ ProcessCrash
    \/ PowerLoss

Spec == Init /\ [][Next]_vars

-----------------------------------------------------------------------------
TypeOK ==
    /\ rootsSynced \subseteq roots
    /\ indexSynced \in 0..Len(index)
    /\ sideSynced \in 0..Len(sidecar)
    /\ committed \subseteq Obs /\ unavailable \subseteq Obs
    /\ mutex \in Session \union {Free}

Durable == SubSeq(index, 1, indexSynced)

(***************************************************************************)
(* A linked capture names what no crash takes away: its record and its     *)
(* root are durable, and so is the mark on every read it superseded, in    *)
(* whatever order the record, the marks, the syncs and the crashes came    *)
(* (publishObservation's two barriers, completeIntentLocked, recovery).    *)
(***************************************************************************)
LinkedIsDurable ==
    \A o \in Obs : link[o].linked =>
        /\ Holds(Durable, link[o].id)
        /\ Delivery[o].root \in rootsSynced
        /\ \A t \in link[o].sup : Marked(Durable, t)

(***************************************************************************)
(* A delivery is published once, however often it is handed over again: it *)
(* is the author of at most one record, no id is recorded twice, and no    *)
(* two prompts are linked to one record (observationRecord, recoverPrompt, *)
(* PromptFrontier, reserveConflictLocked).                                 *)
(***************************************************************************)
PublishedOnce ==
    /\ \A i, j \in Records(index) :
        index[i].obs = index[j].obs \/ index[i].id = index[j].id => i = j
    /\ \A o, p \in Obs :
        link[o].linked /\ link[p].linked /\ IsPrompt(o) /\ link[o].id = link[p].id => o = p

(***************************************************************************)
(* A delivery becomes unavailable only over a torn intent of its own, or   *)
(* over a target whose own publication is still owed and will bring it     *)
(* back (applyIntentLocked, observationStateLocked).                       *)
(***************************************************************************)
UnavailableIsExcused ==
    \A o \in unavailable :
        \/ tornIntent /\ sidecar[Len(sidecar)].obs = o
        \/ bindings[o] # Unbound /\ \E t \in bindings[o].sup : ~link[t.obs].linked

(***************************************************************************)
(* A publication is durable, single and accounted for, over every retry    *)
(* and crash (publishObservation, recovery).                               *)
(***************************************************************************)
PublicationSound == LinkedIsDurable /\ PublishedOnce /\ UnavailableIsExcused
=============================================================================
