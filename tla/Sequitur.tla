------------------------------ MODULE Sequitur ------------------------------
(* The grammar induced from a session's actions (internal/grammar/rules.go,   *)
(* sequitur.go): appending a symbol folds a pair of symbols that now occurs   *)
(* twice into a rule, and inlines a rule that is referenced only once.        *)
(*                                                                            *)
(* A node is a number, so that the digram index can hold a node and not a     *)
(* place; a rule's body is the sequence of its nodes, rule 0 is the top-level *)
(* sequence, and NoNode is a body's guard.                                    *)
EXTENDS Naturals, Sequences, FiniteSets, SequencesExt

CONSTANTS
    Terminal,    \* action names
    MaxInput,    \* bound: symbols appended since the last Reset
    MaxReloads,  \* bound: snapshots restored, and resets
    Foreign      \* snapshots another process may hand over, impossible ones included

VARIABLES
    g,        \* the live grammar
    input,    \* history: the actions the grammar stands for
    own,      \* history: the grammar was induced here, not handed over
    settled,  \* history: something was appended since it was handed over
    reloads

vars == <<g, input, own, settled, reloads>>

NoNode == 0
Start == 0
T(a) == [val |-> a, ref |-> Start]
Ref(r) == [val |-> "", ref |-> r]
IsRef(s) == s.ref # Start

Empty == [body |-> [r \in {Start} |-> <<>>], sym |-> <<>>, uses |-> [r \in {Start} |-> 0],
          index |-> <<>>, next |-> 1]

-----------------------------------------------------------------------------
(* Bodies and the digram index                                                *)

RulesOf(h) == DOMAIN h.body \ {Start}
OwnerOf(h, n) == CHOOSE r \in DOMAIN h.body : n \in Range(h.body[r])
PlaceOf(h, n) == CHOOSE i \in DOMAIN h.body[OwnerOf(h, n)] : h.body[OwnerOf(h, n)][i] = n
NodeAt(b, i) == IF i \in DOMAIN b THEN b[i] ELSE NoNode
After(h, n) == NodeAt(h.body[OwnerOf(h, n)], PlaceOf(h, n) + 1)
Before(h, n) == NodeAt(h.body[OwnerOf(h, n)], PlaceOf(h, n) - 1)

\* A symbol's new node, and a body with the nodes from place i to place j replaced.
Fresh(h) == Len(h.sym) + 1
Splice(b, i, j, ns) == SubSeq(b, 1, i - 1) \o ns \o SubSeq(b, j + 1, Len(b))

HasDigram(h, n) == n # NoNode /\ After(h, n) # NoNode
Digram(h, n) == <<h.sym[n], h.sym[After(h, n)]>>

Indexed(h, n) == [h EXCEPT !.index = [k \in DOMAIN @ \cup {Digram(h, n)} |->
                                        IF k = Digram(h, n) THEN n ELSE @[k]]]
setDigram(h, n) == IF HasDigram(h, n) THEN Indexed(h, n) ELSE h

dropDigram(h, n) ==
    IF HasDigram(h, n) /\ Digram(h, n) \in DOMAIN h.index /\ h.index[Digram(h, n)] = n
    THEN [h EXCEPT !.index = [k \in DOMAIN @ \ {Digram(h, n)} |-> @[k]]]
    ELSE h

Counted(h, r, d) == IF r = Start THEN h ELSE [h EXCEPT !.uses[r] = @ + d]
Released(h, n) == IF IsRef(h.sym[n]) THEN [h EXCEPT !.uses[h.sym[n].ref] = @ - 1] ELSE h

-----------------------------------------------------------------------------
(* check, match, substitute and expandRef                                     *)

\* Whether the pair at n occurs elsewhere, apart from n: then check consumes it.
Folds(h, n) ==
    /\ HasDigram(h, n) /\ Digram(h, n) \in DOMAIN h.index
    /\ LET m == h.index[Digram(h, n)] IN m # n /\ After(h, m) # n /\ After(h, n) # m

RECURSIVE check(_, _), match(_, _, _), substitute(_, _, _), expandRef(_, _)

check(h, n) ==
    CASE Folds(h, n) -> match(h, n, h.index[Digram(h, n)])
      [] HasDigram(h, n) /\ Digram(h, n) \notin DOMAIN h.index -> Indexed(h, n)
      [] OTHER -> h

\* Deviation: the pair after the new reference is not offered.
checkFirst(h, a, b) == check(h, a)

\* The second pair is offered only when the first was not consumed.
checkEither(h, a, b) == IF Folds(h, a) THEN check(h, a) ELSE check(check(h, a), b)

newRule(h, n) ==
    LET c == Fresh(h)
        first == h.sym[n]
        second == h.sym[After(h, n)]
        taken == [h EXCEPT !.body = [r \in DOMAIN @ \cup {h.next} |->
                                       IF r = h.next THEN <<c, c + 1>> ELSE @[r]],
                           !.uses = [r \in DOMAIN @ \cup {h.next} |->
                                       IF r = h.next THEN 0 ELSE @[r]],
                           !.sym = @ \o <<first, second>>,
                           !.next = @ + 1]
    IN  Counted(Counted(taken, first.ref, 1), second.ref, 1)

\* The first symbol of rule r, once the cascade is over, may be the last reference of its rule.
inlineFirst(h, r) ==
    LET f == IF r \in DOMAIN h.body THEN NodeAt(h.body[r], 1) ELSE NoNode
    IN  IF f # NoNode /\ IsRef(h.sym[f]) /\ h.uses[h.sym[f].ref] = 1
        THEN expandRef(h, f) ELSE h

\* The pair at n occurs at m too: the rule that is exactly this pair is used again, or a new one
\* takes both places.
match(h, n, m) ==
    IF h.body[OwnerOf(h, m)] = <<m, After(h, m)>>
    THEN inlineFirst(substitute(h, n, OwnerOf(h, m)), OwnerOf(h, m))
    ELSE LET both == substitute(substitute(newRule(h, n), m, h.next), n, h.next)
             f == IF h.next \in DOMAIN both.body THEN NodeAt(both.body[h.next], 1) ELSE NoNode
         IN  inlineFirst(setDigram(both, f), h.next)

substitute(h, n, r) ==
    LET o == OwnerOf(h, n)
        i == PlaceOf(h, n)
        a == Before(h, n)
        b == After(h, n)
        dropped == dropDigram(dropDigram(dropDigram(h, a), n), b)
        ref == Fresh(h)
        placed == [Released(Released(dropped, n), b) EXCEPT
                     !.body[o] = Splice(@, i, i + 1, <<ref>>),
                     !.sym = Append(@, Ref(r))]
    IN  checkEither(Counted(placed, r, 1), a, ref)

\* The rule's nodes move to the place of its last reference, with their index entries.
expandRef(h, n) ==
    LET o == OwnerOf(h, n)
        i == PlaceOf(h, n)
        r == h.sym[n].ref
        a == Before(h, n)
        dropped == dropDigram(dropDigram(h, a), n)
        moved == [dropped EXCEPT !.body[o] = Splice(@, i, i, h.body[r])]
        retired == [moved EXCEPT !.body = [q \in DOMAIN @ \ {r} |-> @[q]],
                                 !.uses = [q \in DOMAIN @ \ {r} |-> @[q]]]
    IN  checkEither(retired, a, Last(h.body[r]))

-----------------------------------------------------------------------------
(* enforceRuleUtility                                                         *)

refsTo(h, r) == {n \in UNION {Range(h.body[q]) : q \in DOMAIN h.body} : h.sym[n].ref = r}

discardRule(h, r) ==
    LET dropped == FoldLeft(dropDigram, h, h.body[r])
        freed == FoldLeft(Released, dropped, h.body[r])
    IN  [freed EXCEPT !.body = [q \in DOMAIN @ \ {r} |-> @[q]],
                      !.uses = [q \in DOMAIN @ \ {r} |-> @[q]]]

soleRef(h, r) == CHOOSE n \in refsTo(h, r) : TRUE

Repaired(h, r) ==
    IF r \notin DOMAIN h.body \/ h.uses[r] > 1 THEN h
    ELSE IF h.uses[r] = 0 \/ refsTo(h, r) = {} THEN discardRule(h, r)
    ELSE expandRef(h, soleRef(h, r))

RECURSIVE enforceRuleUtility(_)
enforceRuleUtility(h) ==
    LET under == {r \in RulesOf(h) : h.uses[r] <= 1}
    IN  IF under = {} THEN h
        ELSE enforceRuleUtility(FoldLeft(Repaired, h, SetToSortSeq(under, <)))

-----------------------------------------------------------------------------
(* Reading the grammar, its snapshot and its restoration                      *)

bodyOf(h, r) == [i \in DOMAIN h.body[r] |-> h.sym[h.body[r][i]]]

\* A rule met again on the way down stands for nothing.
RECURSIVE expansionOf(_, _, _)
expansionOf(h, r, busy) ==
    IF r \in busy THEN <<>>
    ELSE LET Of(s) == IF IsRef(s) THEN expansionOf(h, s.ref, busy \cup {r}) ELSE <<s.val>>
         IN  FlattenSeq([i \in DOMAIN h.body[r] |-> Of(bodyOf(h, r)[i])])

Snapshot == [rules |-> [r \in RulesOf(g) |-> bodyOf(g, r)], seq |-> bodyOf(g, Start),
             next |-> g.next]

RefsIn(b) == {b[i].ref : i \in DOMAIN b} \ {Start}

\* What buildFromSnapshot asks of a snapshot, in the order of its three passes.
RECURSIVE Reaches(_, _, _)
Reaches(s, from, d) ==
    IF d = 0 THEN from
    ELSE Reaches(s, from \cup UNION {RefsIn(s.rules[r]) : r \in from}, d - 1)

findCycle(s) == \E r \in DOMAIN s.rules :
                    r \in Reaches(s, RefsIn(s.rules[r]), Cardinality(DOMAIN s.rules))

Bodies(s) == {s.seq} \cup Range(s.rules)

Admissible(s) ==
    /\ \A r \in DOMAIN s.rules : s.rules[r] # <<>> /\ r < s.next
    /\ \A b \in Bodies(s) : RefsIn(b) \subseteq DOMAIN s.rules
    /\ DOMAIN s.rules \subseteq UNION {RefsIn(b) : b \in Bodies(s)}
    /\ ~findCycle(s)

\* fill: the nodes of the bodies, one after the other, and the references counted.
Order(s) == <<Start>> \o SetToSortSeq(DOMAIN s.rules, <)
BodyIn(s, r) == IF r = Start THEN s.seq ELSE s.rules[r]

fill(s) ==
    LET ids == Order(s)
        bodies == [j \in DOMAIN ids |-> BodyIn(s, ids[j])]
        nodes == FlattenSeq(bodies)
        ahead(r) == Len(FlattenSeq(SubSeq(bodies, 1, (CHOOSE j \in DOMAIN ids : ids[j] = r) - 1)))
    IN  [body |-> [r \in Range(ids) |-> [i \in DOMAIN BodyIn(s, r) |-> ahead(r) + i]],
         sym |-> nodes,
         uses |-> [r \in Range(ids) |->
                     Cardinality({i \in DOMAIN nodes : r # Start /\ nodes[i].ref = r})],
         index |-> <<>>,
         next |-> IF s.next = 0 THEN 1 ELSE s.next]

\* The first occurrence of each pair, in the order of the nodes.
reindex(h) ==
    FoldLeft(LAMBDA a, n : IF HasDigram(a, n) /\ Digram(a, n) \notin DOMAIN a.index
                           THEN Indexed(a, n) ELSE a,
             h, [n \in DOMAIN h.sym |-> n])

-----------------------------------------------------------------------------
(* The operations                                                             *)

Init ==
    /\ g = Empty
    /\ input = <<>> /\ own = TRUE /\ settled = TRUE /\ reloads = 0

AppendSymbol(a) ==
    LET n == Fresh(g)
        joined == [g EXCEPT !.body[Start] = Append(@, n), !.sym = Append(@, T(a))]
    IN  /\ Len(input) < MaxInput
        /\ g' = enforceRuleUtility(check(joined, Before(joined, n)))
        /\ input' = Append(input, a)
        /\ settled' = TRUE
        /\ UNCHANGED <<own, reloads>>

Reload ==
    /\ reloads < MaxReloads
    /\ Admissible(Snapshot)
    /\ g' = reindex(fill(Snapshot))
    /\ reloads' = reloads + 1
    /\ UNCHANGED <<input, own, settled>>

\* What a snapshot says the actions were, with d levels of rules.
RECURSIVE Said(_, _, _)
Said(s, b, d) ==
    FlattenSeq([i \in DOMAIN b |-> IF ~IsRef(b[i]) THEN <<b[i].val>>
                                   ELSE IF d = 0 THEN <<>> ELSE Said(s, s.rules[b[i].ref], d - 1)])

RestoreForeign(s) ==
    /\ reloads < MaxReloads /\ input = <<>>
    /\ Admissible(s)
    /\ g' = reindex(fill(s))
    /\ input' = Said(s, s.seq, Cardinality(DOMAIN s.rules))
    /\ own' = FALSE /\ settled' = FALSE
    /\ reloads' = reloads + 1

RestoreRefused(s) ==
    /\ reloads < MaxReloads /\ input = <<>>
    /\ ~Admissible(s)
    /\ UNCHANGED vars

Reset ==
    /\ reloads < MaxReloads
    /\ g' = Empty
    /\ input' = <<>> /\ own' = TRUE /\ settled' = TRUE
    /\ reloads' = reloads + 1

Next ==
    \/ \E a \in Terminal : AppendSymbol(a)
    \/ Reload
    \/ \E s \in Foreign : RestoreForeign(s) \/ RestoreRefused(s)
    \/ Reset

Spec == Init /\ [][Next]_vars

-----------------------------------------------------------------------------
(* Properties                                                                 *)

\* Expanding the top-level sequence gives back exactly the actions, whatever was folded,
\* inlined and restored in between.
Lossless == expansionOf(g, Start, {}) = input

\* The counter kept by the splices is the number of references, and after an append every rule
\* has at least two: a rule Thrash reports did recur.
Utility ==
    \A r \in RulesOf(g) : /\ g.uses[r] = Cardinality(refsTo(g, r))
                          /\ g.uses[r] >= IF settled THEN 2 ELSE 1

Live == UNION {Range(g.body[r]) : r \in DOMAIN g.body}

\* The index never points at a node that left the grammar, or whose pair has changed.
IndexTrue == \A k \in DOMAIN g.index : g.index[k] \in Live /\ HasDigram(g, g.index[k])
                                                        /\ Digram(g, g.index[k]) = k

\* In a grammar induced here no pair of different symbols occurs twice. (A pair of equal symbols
\* may: a run's second occurrence stays unindexed when the first is folded away.)
DigramOnce ==
    own => \A m, n \in Live :
              m # n /\ HasDigram(g, m) /\ HasDigram(g, n) /\ Digram(g, m) = Digram(g, n)
              => g.sym[n] = g.sym[After(g, n)]

(* What check, match, substitute, expandRef and the end-of-append sweep promise together: the     *)
(* grammar stands for exactly the actions appended, counts its references right and uses every    *)
(* rule twice, keeps a true index, and repeats no pair of different symbols.                      *)
GrammarSound == Lossless /\ Utility /\ IndexTrue /\ DigramOnce
=============================================================================
