---------------------------- MODULE DeliveryRadix ----------------------------
(* The persistent index of the delivery generations (daemon/delivery_radix.go): *)
(* a binary Patricia trie over the bits of a key's digest.  A page is named by  *)
(* the hash of its bytes; here a page is its own name, so two pages have one    *)
(* name exactly when they are equal.  A transaction path-copies in memory       *)
(* (update, merge), and a commit writes the held pages the new root reaches to  *)
(* one pack, then the root's pointer file, then the generation's manifest       *)
(* record.  A location is the pack a page was written to; zero is no location.  *)
(* Left out: page and record sizes, the decoded-page cache (it returns what the *)
(* record it was read from holds) and the read-ahead windows.                   *)
EXTENDS Naturals, Sequences, FiniteSets

CONSTANTS
    Key, Value,
    HashOf,     \* the digest of each key: a sequence of Width bits
    Width,
    MaxPacks,   \* packs ever written
    MaxBatch    \* keys in one merge

VARIABLES
    packs,      \* sequence of published packs: page -> locations of its two children
    roots,      \* root pointer files: root page -> its pack
    gens,       \* committed generations, oldest first: root and what it holds
    txn,        \* the writer: its root, the pages it holds and what it was asked to hold
    phase       \* idle, writing, packed, pointed, faulted

vars == <<packs, roots, gens, txn, phase>>

Zero == <<>>            \* the empty tree
Absent == "absent"
NoLoc == 0

Leaf(h, k, v) == <<"leaf", h, k, v>>
Branch(skip, c0, c1) == <<"branch", skip, c0, c1>>
IsLeaf(page) == page[1] = "leaf"

Empty == [k \in Key |-> Absent]
Committed == IF gens = <<>> THEN Zero ELSE gens[Len(gens)].root
Holds == IF gens = <<>> THEN Empty ELSE gens[Len(gens)].holds

Least(S) == CHOOSE x \in S : \A y \in S : x <= y

(* The number of leading bits two digests agree on, at or after depth.           *)
FirstDiffBit(a, b, depth) ==
    Least({i \in depth .. Width : i = Width \/ a[i + 1] # b[i + 1]})

(* The bit at which a digest leaves a branch's prefix, or the prefix's end.      *)
ComparePrefix(target, depth, skip) ==
    Least({i \in depth .. depth + Len(skip) :
              i = depth + Len(skip) \/ target[i + 1] # skip[i - depth + 1]})

-----------------------------------------------------------------------------
(* Reading a page: one the transaction holds, a committed one at a location, or  *)
(* a committed root through its pointer.                                         *)

Unread == [ok |-> FALSE, loc |-> NoLoc, kids |-> <<NoLoc, NoLoc>>]

ReadRecord(h, loc) ==
    IF loc \in DOMAIN packs /\ h \in DOMAIN packs[loc]
    THEN [ok |-> TRUE, loc |-> loc, kids |-> packs[loc][h]]
    ELSE Unread

NodeAt(pend, h, loc) ==
    CASE h \in DOMAIN pend -> [ok |-> TRUE, loc |-> NoLoc, kids |-> pend[h]]
      [] h \notin DOMAIN pend /\ loc # NoLoc -> ReadRecord(h, loc)
      [] h \notin DOMAIN pend /\ loc = NoLoc ->
            IF h \in DOMAIN roots THEN ReadRecord(h, roots[h]) ELSE Unread

RECURSIVE LookupAt(_, _, _, _, _)
LookupAt(pend, h, loc, depth, k) ==
    LET node == NodeAt(pend, h, loc)
        target == HashOf[k]
    IN  CASE ~node.ok -> "unavailable"
          [] node.ok /\ IsLeaf(h) ->
                CASE SubSeq(h[2], 1, depth) # SubSeq(target, 1, depth) -> "unavailable"
                  [] h[2] = target /\ h[3] = k -> h[4]
                  [] h[2] = target /\ h[3] # k -> "collision"
                  [] OTHER -> Absent
          [] node.ok /\ ~IsLeaf(h) ->
                LET split == depth + Len(h[2])
                    bit == target[split + 1]
                IN  IF ComparePrefix(target, depth, h[2]) < split THEN Absent
                    ELSE LookupAt(pend, h[3 + bit], node.kids[1 + bit], split + 1, k)

LookupIn(pend, root, k) ==
    IF root = Zero THEN Absent ELSE LookupAt(pend, root, NoLoc, 0, k)

-----------------------------------------------------------------------------
(* What an operation stores under its key, given what is there: store overwrites *)
(* another value, keep leaves the first, only refuses a different one.           *)

Op == [key : Key, value : Value, mode : {"store", "keep", "only"}]
Keep == "keep what is stored"
Refuse == "refused"

Decide(op, old) ==
    CASE old = op.value -> Keep
      [] old = Absent -> op.value
      [] OTHER -> IF op.mode = "store" THEN op.value
                  ELSE IF op.mode = "keep" THEN Keep ELSE Refuse

(* A subtree after a change: its page and location, the pages now held, and the  *)
(* error that stopped the change ("" for none).                                  *)
Subtree(h, loc, pend) == [h |-> h, loc |-> loc, pend |-> pend, err |-> ""]
Failed(err, pend) == [h |-> Zero, loc |-> NoLoc, pend |-> pend, err |-> err]

Hold(pend, h, kids) == [p \in DOMAIN pend \cup {h} |-> IF p = h THEN kids ELSE pend[p]]
Drop(pend, h) == [p \in DOMAIN pend \ {h} |-> pend[p]]
WriteLeaf(pend, h) == Hold(pend, h, <<NoLoc, NoLoc>>)

(* A branch at depth that separates a new leaf from an existing subtree.         *)
Split(pend, depth, p, k, v, other, loc) ==
    LET t == HashOf[k]
        leaf == Leaf(t, k, v)
        skip == SubSeq(t, depth + 1, p)
        one == t[p + 1] = 1
        h == IF one THEN Branch(skip, other, leaf) ELSE Branch(skip, leaf, other)
        kids == IF one THEN <<loc, NoLoc>> ELSE <<NoLoc, loc>>
    IN  Subtree(h, NoLoc, Hold(WriteLeaf(pend, leaf), h, kids))

InsertAtLeaf(pend, cur, loc, depth, op) ==
    LET t == HashOf[op.key]
        same == cur[2] = t
        v == Decide(op, IF same THEN cur[4] ELSE Absent)
        leaf == Leaf(t, op.key, v)
    IN  CASE SubSeq(cur[2], 1, depth) # SubSeq(t, 1, depth) -> Failed("unavailable", pend)
          [] same /\ cur[3] # op.key -> Failed("collision", pend)
          [] v = Refuse -> Failed("refused", pend)
          [] v = Keep -> Subtree(cur, loc, pend)
          [] same -> Subtree(leaf, NoLoc, WriteLeaf(Drop(pend, cur), leaf))
          [] OTHER -> Split(pend, depth, FirstDiffBit(cur[2], t, depth), op.key, v, cur, loc)

(* Deviation: the re-based branch keeps the bit its new parent splits on.        *)
RebasedSkipKept(skip, depth, p) == SubSeq(skip, p - depth + 1, Len(skip))

(* What is left of a branch's prefix once a new parent at depth splits on bit p. *)
RebasedSkip(skip, depth, p) == SubSeq(skip, p - depth + 2, Len(skip))

RECURSIVE InsertAt(_, _, _, _, _)
InsertAt(pend, cur, loc, depth, op) ==
    LET node == NodeAt(pend, cur, loc)
        t == HashOf[op.key]
        split == depth + Len(cur[2])
        p == ComparePrefix(t, depth, cur[2])
        bit == t[split + 1]
        below == InsertAt(pend, cur[3 + bit], node.kids[1 + bit], split + 1, op)
        copied == IF bit = 1 THEN Branch(cur[2], cur[3], below.h) ELSE Branch(cur[2], below.h, cur[4])
        v == Decide(op, Absent)
        rebased == Branch(RebasedSkip(cur[2], depth, p), cur[3], cur[4])
    IN  CASE ~node.ok -> Failed("unavailable", pend)
          [] node.ok /\ IsLeaf(cur) -> InsertAtLeaf(pend, cur, node.loc, depth, op)
          [] node.ok /\ ~IsLeaf(cur) /\ p = split ->
                IF below.err # "" THEN below
                ELSE IF below.h = cur[3 + bit] THEN Subtree(cur, node.loc, below.pend)
                ELSE Subtree(copied, NoLoc,
                             Hold(Drop(below.pend, cur), copied,
                                  [node.kids EXCEPT ![1 + bit] = below.loc]))
          [] OTHER ->
                IF v = Keep THEN Subtree(cur, node.loc, pend)
                ELSE Split(Drop(Hold(pend, rebased, node.kids), cur), depth, p,
                           op.key, v, rebased, NoLoc)

UpdateIn(pend, root, op) ==
    LET v == Decide(op, Absent)
        leaf == Leaf(HashOf[op.key], op.key, v)
    IN  IF root # Zero THEN InsertAt(pend, root, NoLoc, 0, op)
        ELSE Subtree(leaf, NoLoc, WriteLeaf(pend, leaf))

-----------------------------------------------------------------------------
(* merge: the whole batch in one descent.  The operations are a set because they *)
(* have distinct digests and the code takes them sorted; its runs below, inside  *)
(* and above a prefix are subsets here.  An item is a member of a subtree being  *)
(* built: a leaf, or an existing branch that may be re-based or rewritten.       *)

LeafItem(h, loc) ==
    [pat |-> h[2], h |-> h, loc |-> loc, branch |-> FALSE, depth |-> 0, split |-> Width,
     dirty |-> FALSE, page |-> h, kids |-> <<NoLoc, NoLoc>>]

NewLeaves(ops) == {Leaf(HashOf[op.key], op.key, Decide(op, Absent)) : op \in ops}
HoldAll(pend, leaves) ==
    [p \in DOMAIN pend \cup leaves |-> IF p \in leaves THEN <<NoLoc, NoLoc>> ELSE pend[p]]

(* The item's page can be used at depth as it is.                                *)
Stands(item, depth) == ~item.branch \/ (~item.dirty /\ item.depth = depth)

RECURSIVE Build(_, _, _)
Build(pend, depth, items) ==
    LET only == CHOOSE item \in items : TRUE
        moved == Branch(SubSeq(only.pat, depth + 1, only.split), only.page[3], only.page[4])
        p == Least({i \in depth .. Width - 1 :
                       \E a, b \in items : a.pat[i + 1] # b.pat[i + 1]})
        b0 == Build(pend, p + 1, {item \in items : item.pat[p + 1] = 0})
        b1 == Build(b0.pend, p + 1, {item \in items : item.pat[p + 1] = 1})
        h == Branch(SubSeq(only.pat, depth + 1, p), b0.h, b1.h)
    IN  IF Cardinality(items) > 1
        THEN Subtree(h, NoLoc, Hold(b1.pend, h, <<b0.loc, b1.loc>>))
        ELSE IF Stands(only, depth) THEN Subtree(only.h, only.loc, pend)
        ELSE Subtree(moved, NoLoc, Hold(Drop(pend, only.h), moved, only.kids))

MergeAtLeaf(pend, cur, loc, depth, ops) ==
    LET named == {op \in ops : HashOf[op.key] = cur[2]}
        v == IF named = {} THEN Keep ELSE Decide(CHOOSE op \in named : TRUE, cur[4])
        resident == IF v = Keep THEN LeafItem(cur, loc) ELSE LeafItem(Leaf(cur[2], cur[3], v), NoLoc)
        beside == NewLeaves(ops \ named)
        held == HoldAll(IF v = Keep THEN pend ELSE WriteLeaf(Drop(pend, cur), resident.h), beside)
    IN  CASE \E op \in ops : SubSeq(HashOf[op.key], 1, depth) # SubSeq(cur[2], 1, depth) ->
                Failed("unavailable", pend)
          [] \E op \in named : op.key # cur[3] -> Failed("collision", pend)
          [] v = Refuse -> Failed("refused", pend)
          [] v = Keep /\ beside = {} -> Subtree(cur, loc, pend)
          [] OTHER -> Build(held, depth, {resident} \cup {LeafItem(h, NoLoc) : h \in beside})

RECURSIVE MergeAt(_, _, _, _, _)
MergeAt(pend, cur, loc, depth, ops) ==
    LET node == NodeAt(pend, cur, loc)
        split == depth + Len(cur[2])
        inside == {op \in ops : ComparePrefix(HashOf[op.key], depth, cur[2]) = split}
        Side(bit) == {op \in inside : HashOf[op.key][split + 1] = bit}
        Child(held, bit) ==
            IF Side(bit) = {} THEN Subtree(cur[3 + bit], node.kids[1 + bit], held)
            ELSE MergeAt(held, cur[3 + bit], node.kids[1 + bit], split + 1, Side(bit))
        m0 == Child(pend, 0)
        m1 == Child(m0.pend, 1)
        above == SubSeq(HashOf[(CHOOSE op \in ops : TRUE).key], 1, depth)
        self == [pat |-> above \o cur[2] \o [i \in 1 .. Width - split |-> 0],
                 h |-> cur, loc |-> node.loc, branch |-> TRUE, depth |-> depth, split |-> split,
                 dirty |-> m0.h # cur[3] \/ m1.h # cur[4],
                 page |-> Branch(cur[2], m0.h, m1.h), kids |-> <<m0.loc, m1.loc>>]
        beside == NewLeaves(ops \ inside)
    IN  CASE ~node.ok -> Failed("unavailable", pend)
          [] node.ok /\ IsLeaf(cur) -> MergeAtLeaf(pend, cur, node.loc, depth, ops)
          [] node.ok /\ ~IsLeaf(cur) ->
                IF m0.err # "" THEN m0
                ELSE IF m1.err # "" THEN m1
                ELSE IF ~self.dirty /\ beside = {} THEN Subtree(cur, node.loc, m1.pend)
                ELSE Build(HoldAll(m1.pend, beside), depth,
                           {self} \cup {LeafItem(h, NoLoc) : h \in beside})

MergeIn(pend, root, ops) ==
    LET leaves == NewLeaves(ops)
    IN  CASE \E a, b \in ops : a # b /\ HashOf[a.key] = HashOf[b.key] -> Failed("collision", pend)
          [] root = Zero -> Build(HoldAll(pend, leaves), 0, {LeafItem(h, NoLoc) : h \in leaves})
          [] OTHER -> MergeAt(pend, root, NoLoc, 0, ops)

-----------------------------------------------------------------------------
(* The writer's transaction: begin, update and merge in memory, then commit.     *)

NoTxn == [root |-> Zero, pend |-> [p \in {} |-> <<NoLoc, NoLoc>>], asked |-> Empty]

Init ==
    /\ packs = <<>>
    /\ roots = [p \in {} |-> NoLoc]
    /\ gens = <<>>
    /\ txn = NoTxn
    /\ phase = "idle"

Begin ==
    /\ phase = "idle" /\ Len(packs) < MaxPacks
    /\ phase' = "writing"
    /\ txn' = [NoTxn EXCEPT !.root = Committed, !.asked = Holds]
    /\ UNCHANGED <<packs, roots, gens>>

Asked(holds, ops) ==
    [k \in Key |->
        IF \E op \in ops : op.key = k /\ Decide(op, holds[k]) \notin {Keep, Refuse}
        THEN Decide(CHOOSE op \in ops : op.key = k, holds[k]) ELSE holds[k]]

(* The result of an update or a merge; an error abandons the writer.             *)
Apply(result, ops) ==
    IF result.err = ""
    THEN /\ txn' = [root |-> result.h, pend |-> result.pend, asked |-> Asked(txn.asked, ops)]
         /\ UNCHANGED phase
    ELSE /\ txn' = NoTxn
         /\ phase' = "idle"

Update(op) ==
    /\ phase = "writing"
    /\ Apply(UpdateIn(txn.pend, txn.root, op), {op})
    /\ UNCHANGED <<packs, roots, gens>>

Merge(ops) ==
    /\ phase = "writing"
    /\ Apply(MergeIn(txn.pend, txn.root, ops), ops)
    /\ UNCHANGED <<packs, roots, gens>>

(* finishCommit's early return: a root that did not move commits nothing.        *)
CommitNothing ==
    /\ phase = "writing" /\ txn.root = Committed
    /\ phase' = "idle"
    /\ txn' = NoTxn
    /\ UNCHANGED <<packs, roots, gens>>

(* The pages a commit emits: those reached from h through children that have no  *)
(* location yet.  A page nobody holds there fails the commit.                    *)
RECURSIVE Emitted(_, _)
Emitted(pend, h) ==
    {h} \cup (IF h \notin DOMAIN pend \/ IsLeaf(h) THEN {}
              ELSE UNION {Emitted(pend, h[3 + b]) : b \in {x \in {0, 1} : pend[h][1 + x] = NoLoc}})

PackOf(pend, root, id) ==
    [h \in Emitted(pend, root) |->
        [i \in {1, 2} |-> IF ~IsLeaf(h) /\ pend[h][i] = NoLoc THEN id ELSE pend[h][i]]]

WritePack ==
    /\ phase = "writing" /\ txn.root # Committed /\ Len(packs) < MaxPacks
    /\ IF txn.root \notin DOMAIN txn.pend
       THEN phase' = "pointed" /\ UNCHANGED <<packs, txn>>
       ELSE IF Emitted(txn.pend, txn.root) \subseteq DOMAIN txn.pend
       THEN /\ packs' = Append(packs, PackOf(txn.pend, txn.root, Len(packs) + 1))
            /\ phase' = "packed"
            /\ UNCHANGED txn
       ELSE /\ txn' = NoTxn /\ phase' = "idle" /\ UNCHANGED packs
    /\ UNCHANGED <<roots, gens>>

(* publishRoot keeps a pointer that already resolves and refuses one that does not. *)
PublishRoot ==
    /\ phase = "packed"
    /\ IF txn.root \in DOMAIN roots /\ ~ReadRecord(txn.root, roots[txn.root]).ok
       THEN phase' = "idle" /\ txn' = NoTxn /\ UNCHANGED roots
       ELSE /\ roots' = IF txn.root \in DOMAIN roots THEN roots
                        ELSE Hold(roots, txn.root, Len(packs))
            /\ phase' = "pointed"
            /\ txn' = [txn EXCEPT !.pend = NoTxn.pend]
    /\ UNCHANGED <<packs, gens>>

AppendGeneration ==
    /\ phase = "pointed"
    /\ gens' = Append(gens, [root |-> txn.root, holds |-> txn.asked])
    /\ phase' = "idle"
    /\ txn' = NoTxn
    /\ UNCHANGED <<packs, roots>>

(* A pack, a pointer or a manifest record could not be written.  Only a failed   *)
(* manifest record latches the store's fault, until the daemon is restarted.     *)
CommitFails ==
    /\ phase \in {"packed", "pointed"}
    /\ phase' = IF phase = "pointed" THEN "faulted" ELSE "idle"
    /\ txn' = NoTxn
    /\ UNCHANGED <<packs, roots, gens>>

(* The process stops; what was published stays and the store opens again at the  *)
(* last generation of the manifest.                                              *)
Crash ==
    /\ phase # "idle"
    /\ phase' = "idle"
    /\ txn' = NoTxn
    /\ UNCHANGED <<packs, roots, gens>>

Batches ==
    {{[key |-> k, value |-> f[k], mode |-> m] : k \in DOMAIN f} :
        m \in {"store", "keep", "only"}, f \in UNION {[K -> Value] : K \in {S \in SUBSET Key : Cardinality(S) \in 1 .. MaxBatch}}}

Next ==
    \/ Begin \/ CommitNothing \/ WritePack \/ PublishRoot \/ AppendGeneration
    \/ CommitFails \/ Crash
    \/ \E op \in Op : Update(op)
    \/ \E ops \in Batches : Merge(ops)

Spec == Init /\ [][Next]_vars

-----------------------------------------------------------------------------
TypeOK ==
    /\ phase \in {"idle", "writing", "packed", "pointed", "faulted"}
    /\ Len(packs) <= MaxPacks
    /\ \A i \in DOMAIN gens : gens[i].holds \in [Key -> Value \cup {Absent}]
    /\ txn.asked \in [Key -> Value \cup {Absent}]

(* The tree defined by its contents alone: one leaf per key, a branch at the     *)
(* first bit where the digests below it differ.                                  *)
RECURSIVE Canonical(_, _)
Canonical(leaves, depth) ==
    LET one == CHOOSE h \in leaves : TRUE
        p == Least({i \in depth .. Width - 1 : \E a, b \in leaves : a[2][i + 1] # b[2][i + 1]})
    IN  IF Cardinality(leaves) = 1 THEN one
        ELSE Branch(SubSeq(one[2], depth + 1, p),
                    Canonical({h \in leaves : h[2][p + 1] = 0}, p + 1),
                    Canonical({h \in leaves : h[2][p + 1] = 1}, p + 1))

TreeOf(holds) ==
    LET leaves == {Leaf(HashOf[k], k, holds[k]) : k \in {j \in Key : holds[j] # Absent}}
    IN  IF leaves = {} THEN Zero ELSE Canonical(leaves, 0)

(* The tree is canonical for its key set: whatever sequence of updates and       *)
(* merges led to the writer's root, and whatever generation it started from, the *)
(* root is the one tree its contents define, so a merge leaves exactly what      *)
(* applying its operations one by one with update leaves, in any order.          *)
CanonicalForKeys ==
    phase \in {"writing", "packed", "pointed"} => txn.root = TreeOf(txn.asked)

(* A committed generation is immutable and complete: every generation of the     *)
(* manifest, the oldest included, answers every key with exactly what it held    *)
(* when it was committed, found through its root pointer and the packs alone; an *)
(* absence is sound and no page is missing, whatever transaction, failed commit  *)
(* or crash came later.  A writer reads its own uncommitted pages the same way.  *)
GenerationsAnswer ==
    /\ \A i \in DOMAIN gens, k \in Key :
          LookupIn(NoTxn.pend, gens[i].root, k) =
             IF gens[i].holds[k] = Absent /\ (\E j \in Key : j # k /\ HashOf[j] = HashOf[k] /\ gens[i].holds[j] # Absent)
             THEN "collision" ELSE gens[i].holds[k]
    /\ phase = "writing" => \A k \in Key :
          txn.asked[k] # Absent => LookupIn(txn.pend, txn.root, k) = txn.asked[k]

(* The paged index is the canonical tree of what was asked of it, and every      *)
(* committed generation answers as it did when it was committed.                 *)
IndexSound == CanonicalForKeys /\ GenerationsAnswer
=============================================================================
