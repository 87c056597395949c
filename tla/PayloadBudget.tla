---------------------------- MODULE PayloadBudget ----------------------------
(* Which records the context rebuilt after a compaction carries              *)
(* (internal/rehydrate/build.go, budget.go, render.go, hostcap.go, notice.go): *)
(* tier 1 whole and in one order, then shares with the rest carried forward, *)
(* then the report on what did not fit, and last the removals that keep the   *)
(* assembled payload within its caps.                                         *)
(*                                                                            *)
(* A record is an identity, its price in tokens and host characters, and      *)
(* whether it is fixed (never dropped on its own). What the sections say is   *)
(* left out; the report's lines all have one price, so that their order does  *)
(* not matter.                                                                *)
EXTENDS Integers, Sequences, FiniteSets, SequencesExt, FiniteSetsExt

CONSTANTS
    Requests,      \* the records by section, the budget asked for, and the estimator's surplus
    Ceiling,       \* PayloadCeilingChars
    MaxTokens,     \* runtime.rehydrate.maxTokens
    MinTokens,     \* runtime.rehydrate.minTokens
    SkillTokens    \* runtime.rehydrate.skillIndexTokens

VARIABLES
    request,   \* what Build is called with
    result     \* what it returned, <<>> before

vars == <<request, result>>

-----------------------------------------------------------------------------
(* Prices                                                                     *)

Cost(t, c) == [tok |-> t, chars |-> c]
Nil == Cost(0, 0)
Plus(a, b) == Cost(a.tok + b.tok, a.chars + b.chars)
Minus(a, b) == Cost(a.tok - b.tok, a.chars - b.chars)
Within(a, b) == a.tok <= b.tok /\ a.chars <= b.chars
Larger(a, b) == IF a > b THEN a ELSE b
Smaller(a, b) == IF a < b THEN a ELSE b
AtLeast(a, b) == Cost(Larger(a.tok, b.tok), Larger(a.chars, b.chars))
AtMost(a, b) == Cost(Smaller(a.tok, b.tok), Smaller(a.chars, b.chars))
SumCost(units) == FoldLeft(LAMBDA c, u : Plus(c, u.cost), Nil, units)

\* The wrapper, a section's heading, and a line and the counted tail of the report.
Overhead == Cost(2, 2)
Heading == Cost(1, 1)
Line == Cost(1, 1)
Tail1 == Cost(1, 1)
Floor == Plus(Heading, Tail1)

-----------------------------------------------------------------------------
(* Sections                                                                   *)

renderOrder == <<"invariants", "intent", "eliminations", "decisions", "work", "pointers",
                 "instructions", "skills", "report", "retrieval">>
tier1Admission == <<"retrieval", "invariants", "intent">>
shareOrder == <<"intent", "eliminations", "decisions", "work", "pointers", "instructions">>
sharePct == [intent |-> 10, eliminations |-> 25, decisions |-> 20, work |-> 10, pointers |-> 20,
             instructions |-> 15]
Kind == Range(renderOrder)
PlaceIn(s, k) == CHOOSE i \in DOMAIN s : s[i] = k

clampBudget(b) == IF b <= 0 \/ b > MaxTokens THEN MaxTokens ELSE b

\* What a section got: nothing yet, or records, their price, and the refused ones in order.
Untried == [tried |-> FALSE, units |-> <<>>, used |-> Nil, pending |-> <<>>, truncated |-> FALSE,
            abandoned |-> FALSE]
Tried == [Untried EXCEPT !.tried = TRUE]

fixedOf(units) == SelectSeq(units, LAMBDA u : u.fixed)
Loose(units) == SelectSeq(units, LAMBDA u : ~u.fixed)

abandoning(units) == [Tried EXCEPT !.truncated = TRUE, !.abandoned = TRUE, !.pending = Loose(units)]

\* Records are taken in order up to the first that does not fit; a fixed one is always taken, and
\* is held back for until it is; a pointer is shortened before it is refused.
fillPrefix(units, allowance) ==
    LET Fits(s, u) == Within(Plus(Plus(s.a.used, u.cost), s.owed), allowance)
        Take(s, u) == [s EXCEPT !.a.units = Append(@, u), !.a.used = Plus(@, u.cost)]
        Step(s, u) ==
            LET v == IF ~Fits(s, u) /\ ~s.cut THEN [u EXCEPT !.cost = u.bare] ELSE u
            IN  IF u.fixed THEN [Take(s, u) EXCEPT !.owed = Minus(@, u.cost)]
                ELSE IF s.cut \/ ~Fits(s, v)
                THEN [s EXCEPT !.cut = TRUE, !.a.pending = Append(@, v), !.a.truncated = TRUE]
                ELSE Take(s, v)
    IN  FoldLeft(Step, [a |-> Tried, owed |-> SumCost(fixedOf(units)), cut |-> FALSE], units).a

fillWithHeading(units, allowance, room, chargeHeading) ==
    LET head == IF chargeHeading THEN Heading ELSE Nil
        a == fillPrefix(units, Minus(AtMost(allowance, room), head))
    IN  IF ~Within(Plus(head, SumCost(fixedOf(units))), room) THEN abandoning(units)
        ELSE IF a.units # <<>> THEN [a EXCEPT !.used = Plus(@, head)]
        ELSE a

\* A record no payload could hold is passed over; any other that does not fit ends tier 1.
representable(u) == Heading.chars + u.cost.chars <= Ceiling - Overhead.chars - Floor.chars

\* Deviation: a record that does not fit is passed over, and a later, smaller one is taken.
fillTier1SkipAhead(units, room, closed) ==
    LET Step(s, u) ==
            LET next == Plus(Plus(s.a.used, u.cost), IF s.a.units = <<>> THEN Heading ELSE Nil)
            IN  IF ~Within(next, room)
                THEN [s EXCEPT !.a.truncated = TRUE, !.a.pending = Append(@, u)]
                ELSE [s EXCEPT !.a.units = Append(@, u), !.a.used = next]
    IN  FoldLeft(Step, [a |-> Tried, closed |-> closed], units)

fillTier1(units, room, closed) ==
    LET Step(s, u) ==
            LET next == Plus(Plus(s.a.used, u.cost), IF s.a.units = <<>> THEN Heading ELSE Nil)
            IN  IF s.closed \/ ~Within(next, room)
                THEN [a |-> [s.a EXCEPT !.truncated = TRUE, !.pending = Append(@, u)],
                      closed |-> s.closed \/ representable(u)]
                ELSE [s EXCEPT !.a.units = Append(@, u), !.a.used = next]
    IN  FoldLeft(Step, [a |-> Tried, closed |-> closed], units)

\* Of the user's intent, tier 1 is the original, when there is one, and the newest restatement.
tier1Units(k, units) ==
    IF k # "intent" THEN units
    ELSE LET n == IF units # <<>> /\ units[1].fixed THEN 2 ELSE 1
         IN  SubSeq(units, 1, Smaller(n, Len(units)))

mergeIntent(base, add) ==
    IF ~base.tried THEN add
    ELSE [base EXCEPT !.units = @ \o add.units, !.used = Plus(@, add.used),
                      !.pending = @ \o add.pending, !.truncated = @ \/ add.truncated]

refusedNewest(a) == \E i \in DOMAIN a.pending : ~a.pending[i].fixed

-----------------------------------------------------------------------------
(* Build, by its steps                                                        *)

\* Step 3. Tier 1 is one prefix over its sections; the report's floor is held back throughout.
Tier1(all, limit) ==
    LET Step(s, k) ==
            LET units == tier1Units(k, all[k])
                r == fillTier1(units, Minus(Minus(limit, s.spent), Floor), s.incomplete)
            IN  IF units = <<>> THEN s
                ELSE [fills |-> [s.fills EXCEPT ![k] = r.a], spent |-> Plus(s.spent, r.a.used),
                      incomplete |-> r.closed, degraded |-> s.degraded \/ r.a.truncated]
    IN  FoldLeft(Step, [fills |-> [k \in Kind |-> Untried], spent |-> Overhead,
                        incomplete |-> FALSE, degraded |-> FALSE], tier1Admission)

reserveDrop(limit) == AtLeast(Cost(limit.tok \div 10, limit.chars \div 10), Floor)
reserveSkill(limit) == Cost(Smaller(SkillTokens, limit.tok \div 10), limit.chars \div 10)

\* Steps 4 to 6. The remainder of the division goes to the last share.
Shares(avail) ==
    LET Of(k) == Cost((avail.tok * sharePct[k]) \div 100, (avail.chars * sharePct[k]) \div 100)
        all == FoldLeft(LAMBDA c, k : Plus(c, Of(k)), Nil, shareOrder)
    IN  [k \in Range(shareOrder) |->
            IF k = Last(shareOrder) THEN Plus(Of(k), Minus(avail, all)) ELSE Of(k)]

\* Step 7. What a share does not use is carried to the next one.
FillShares(all, limit, t, unanchored) ==
    LET held == Plus(reserveDrop(limit), reserveSkill(limit))
        shares == Shares(AtLeast(Minus(Minus(limit, t.spent), held), Nil))
        Step(s, k) ==
            LET done == IF k = "intent" THEN Len(tier1Units(k, all[k])) ELSE 0
                units == SubSeq(all[k], done + 1, Len(all[k]))
                allowance == Plus(shares[k], s.carry)
                a == fillWithHeading(units, allowance, Minus(Minus(limit, s.spent), held),
                                     s.fills[k].units = <<>>)
            IN  IF units = <<>> THEN [s EXCEPT !.carry = allowance]
                ELSE IF unanchored \/ (k = "intent" /\ (t.incomplete \/ refusedNewest(s.fills[k])))
                THEN [s EXCEPT !.fills[k] = mergeIntent(@, abandoning(units))]
                ELSE [fills |-> [s.fills EXCEPT ![k] = mergeIntent(@, a)],
                      spent |-> Plus(s.spent, a.used), carry |-> Minus(allowance, a.used)]
    IN  FoldLeft(Step, [fills |-> t.fills, spent |-> t.spent, carry |-> Nil], shareOrder)

\* Step 8. The skill index has a reserve of its own, and what the shares left.
FillSkills(all, limit, s, unanchored) ==
    LET allowance == Plus(reserveSkill(limit), s.carry)
        a == IF unanchored THEN abandoning(all["skills"])
             ELSE fillWithHeading(all["skills"], allowance,
                                  Minus(Minus(limit, s.spent), reserveDrop(limit)), TRUE)
    IN  IF all["skills"] = <<>> THEN [s EXCEPT !.carry = allowance]
        ELSE [fills |-> [s.fills EXCEPT !["skills"] = a], spent |-> Plus(s.spent, a.used),
              carry |-> Minus(allowance, a.used)]

\* Steps 9 and 9a. Refused records are taken after all, in order, while there is room.
minFill(s, order, floor, limit, held) ==
    LET slack == Cost(Smaller(floor, limit.tok - held.tok) - s.spent.tok,
                      limit.chars - held.chars - s.spent.chars)
        Take(x, u) ==
            LET need == Plus(u.cost, IF x.a.units = <<>> THEN Heading ELSE Nil)
            IN  IF x.a.pending = <<>> \/ Head(x.a.pending) # u \/ ~Within(need, x.slack) THEN x
                ELSE [a |-> [x.a EXCEPT !.units = Append(@, u), !.used = Plus(@, need),
                                        !.pending = Tail(@), !.truncated = Tail(x.a.pending) # <<>>],
                      slack |-> Minus(x.slack, need), spent |-> Plus(x.spent, need)]
        Step(x, k) ==
            LET a == x.fills[k]
                r == FoldLeft(Take, [a |-> a, slack |-> x.slack, spent |-> x.spent], a.pending)
            IN  IF a.abandoned \/ ~a.truncated THEN x
                ELSE [fills |-> [x.fills EXCEPT ![k] = r.a], slack |-> r.slack, spent |-> r.spent]
        filled == FoldLeft(Step, [fills |-> s.fills, slack |-> slack, spent |-> s.spent], order)
    IN  IF slack.tok <= 0 \/ slack.chars <= 0 THEN s
        ELSE [s EXCEPT !.fills = filled.fills, !.spent = filled.spent]

\* The identities named as dropped: the checkpoint's own, an original too large to read, and every
\* record a section refused.
collectDrops(r, fills) ==
    r.drops \o (IF r.lost THEN <<"original">> ELSE <<>>)
    \o FlattenSeq([i \in DOMAIN renderOrder |->
           [j \in DOMAIN fills[renderOrder[i]].pending |-> fills[renderOrder[i]].pending[j].id]])

\* Section 7: all its lines, or as many as leave room for the counted tail, or nothing.
NoReport == [lines |-> 0, tail |-> FALSE]
ReportFloor == [lines |-> 0, tail |-> TRUE]
ReportCost(p) == IF p = NoReport THEN Nil
                 ELSE Plus(Heading, Plus(Cost(p.lines * Line.tok, p.lines * Line.chars),
                                         IF p.tail THEN Tail1 ELSE Nil))
fillDropReport(n, allowance) ==
    LET whole == [lines |-> n, tail |-> FALSE]
        cut == {k \in 0..(n - 1) : Within(ReportCost([lines |-> k, tail |-> TRUE]), allowance)}
    IN  IF n = 0 \/ (~Within(ReportCost(whole), allowance) /\ cut = {}) THEN NoReport
        ELSE IF Within(ReportCost(whole), allowance) THEN whole
        ELSE [lines |-> Max(cut), tail |-> TRUE]

Allowance(limit, s) ==
    AtMost(AtLeast(Plus(reserveDrop(limit), s.carry), Floor), Minus(limit, s.spent))

MinFilled(r, limit, s, incomplete, unanchored) ==
    LET order == IF incomplete THEN Tail(shareOrder) ELSE shareOrder
        s1 == IF r.budget <= 0 /\ ~unanchored
              THEN minFill(s, order, MinTokens, limit, reserveDrop(limit)) ELSE s
        n == Len(collectDrops(r, s1.fills))
        held == IF n = 0 THEN reserveDrop(limit)
                ELSE AtLeast(ReportCost(fillDropReport(n, Allowance(limit, s1))), Floor)
    IN  IF incomplete THEN s1 ELSE minFill(s1, <<"intent">>, limit.tok, limit, held)

-----------------------------------------------------------------------------
(* The assembled payload and the removals that keep it within its caps        *)

SectionCost(p, k) == IF k = "report" THEN ReportCost(p.report)
                     ELSE Plus(Heading, SumCost(p.shown[k]))
Price(r, p) == FoldLeft(Plus, Plus(Overhead, Cost(r.surplus, 0)),
                        [i \in DOMAIN p.items |-> SectionCost(p, p.items[i])])

\* The section admitted last, with the report's floor first of all and tier 1 next to it.
admissionRank(k) ==
    CASE k = "report" -> 0
      [] k \in Range(tier1Admission) -> PlaceIn(tier1Admission, k)
      [] OTHER -> Len(tier1Admission) + PlaceIn(renderOrder, k)
evictIndex(items) ==
    CHOOSE k \in Range(items) : \A j \in Range(items) : admissionRank(j) <= admissionRank(k)

toFloor(p) == [p EXCEPT !.report = IF "report" \in Range(p.items) THEN ReportFloor ELSE @]

Trims(p, k) == k = "intent" /\ Len(p.shown[k]) > 1 /\ ~Last(p.shown[k]).fixed
trimIntent(p) == [toFloor(p) EXCEPT !.shown["intent"] = Front(@), !.degraded = TRUE,
                                    !.dropped = Append(@, Last(p.shown["intent"]).id)]
evict(p, k) ==
    LET named == [i \in DOMAIN Loose(p.shown[k]) |-> Loose(p.shown[k])[i].id]
        gone == [p EXCEPT !.items = SelectSeq(@, LAMBDA j : j # k), !.shown[k] = <<>>,
                          !.evicted = @ \cup {k}, !.dropped = @ \o named, !.degraded = TRUE]
    IN  toFloor(gone)

RECURSIVE Retruncate(_, _, _, _)
Retruncate(r, limit, p, shrunk) ==
    LET k == evictIndex(p.items)
        smaller == "report" \in Range(p.items)
                   /\ ReportCost(ReportFloor).chars < ReportCost(p.report).chars
    IN  IF p.items = <<>> \/ Within(Price(r, p), limit) THEN p
        ELSE IF ~shrunk /\ smaller
        THEN Retruncate(r, limit, [toFloor(p) EXCEPT !.degraded = TRUE], TRUE)
        ELSE Retruncate(r, limit, IF Trims(p, k) THEN trimIntent(p) ELSE evict(p, k), TRUE)

\* Nothing but the report is left: the notice that says what was lost, in the longest form that fits.
Notices(p) == IF \E i \in DOMAIN p.dropped : p.dropped[i] = "original"
              THEN <<Cost(5, 5), Cost(3, 3), Cost(2, 2)>> ELSE <<Cost(3, 3), Cost(2, 2)>>
lossNotice(r, limit, p) ==
    LET Whole(i) == Plus(Plus(Overhead, Cost(r.surplus, 0)), Plus(Heading, Notices(p)[i]))
        fits == {i \in DOMAIN Notices(p) : Within(Whole(i), limit)}
        bare == [p EXCEPT !.items = <<>>, !.report = NoReport, !.price = Nil, !.degraded = TRUE]
    IN  IF p.dropped = <<>> /\ p.evicted = {} THEN bare
        ELSE IF fits = {} THEN [bare EXCEPT !.dropped = Append(@, "payload")]
        ELSE [bare EXCEPT !.notice = TRUE, !.price = Whole(Min(fits))]

Rendered(r, fills, report, dropped, degraded) ==
    LET items == SelectSeq(renderOrder, LAMBDA k : IF k = "report" THEN report # NoReport
                                                   ELSE fills[k].units # <<>>)
    IN  [items |-> IF items = <<"report">> THEN <<>> ELSE items,
         shown |-> [k \in Kind |-> fills[k].units], report |-> report, dropped |-> dropped,
         evicted |-> {}, notice |-> FALSE, degraded |-> degraded, price |-> Nil]

Nothing(r) == [items |-> <<>>, shown |-> [k \in Kind |-> <<>>], report |-> NoReport,
               dropped |-> <<"payload">>, evicted |-> {}, notice |-> FALSE, degraded |-> TRUE,
               price |-> Nil]

\* Step 10. The report on what is missing, from what the sections got (s).
Reported(r, limit, s, degraded) ==
    LET drops == collectDrops(r, s.fills)
    IN  Rendered(r, s.fills, fillDropReport(Len(drops), Allowance(limit, s)), drops, degraded)

\* Steps 7 to 9a, from what tier 1 got (t).
AfterTier1(r, limit, t, unanchored) ==
    MinFilled(r, limit,
              FillSkills(r.all, limit, FillShares(r.all, limit, t, unanchored), unanchored),
              t.incomplete, unanchored)

PlannedFrom(r, limit, t) ==
    Reported(r, limit, AfterTier1(r, limit, t, t.fills["retrieval"].pending # <<>>),
             t.degraded \/ r.lost)

LimitOf(r) == Cost(clampBudget(r.budget), Ceiling)
Planned(r) == PlannedFrom(r, LimitOf(r), Tier1(r.all, LimitOf(r)))

\* Steps 11 and 12. With nothing left but the report, the notice.
Assembled(r, p) ==
    IF p.items \in {<<>>, <<"report">>} THEN lossNotice(r, LimitOf(r), p)
    ELSE [p EXCEPT !.price = Price(r, p)]

BuildWithStats(r) ==
    IF Overhead.tok >= LimitOf(r).tok \/ Overhead.chars >= Ceiling THEN Nothing(r)
    ELSE Assembled(r, Retruncate(r, LimitOf(r), Planned(r), FALSE))

-----------------------------------------------------------------------------
Init == request \in Requests /\ result = <<>>

Build ==
    /\ result = <<>>
    /\ result' = <<BuildWithStats(request)>>
    /\ UNCHANGED request

Spec == Init /\ [][Build]_vars

-----------------------------------------------------------------------------
(* Properties                                                                 *)

Ids(units) == {units[i].id : i \in DOMAIN units}
Shown(p) == UNION {Ids(p.shown[k]) : k \in Range(p.items)}

\* Neither cap is exceeded, and with an estimator that prices the whole as the sum of its parts the
\* plan already fits: nothing is taken out again.
WithinCaps(r, p) ==
    /\ Within(p.price, LimitOf(r))
    /\ r.surplus <= 0 => p.evicted = {}

\* Every record is shown or named as dropped, a fixed one possibly with its section, and no record is both.
Accounted(r, p) ==
    \A k \in Kind : \A i \in DOMAIN r.all[k] :
        LET u == r.all[k][i]
            named == u.id \in Range(p.dropped)
        IN  IF u.id \in Shown(p) THEN ~named
            ELSE \/ named \/ "payload" \in Range(p.dropped)
                 \/ u.fixed /\ (k \in p.evicted \/ k \notin Range(tier1Admission))

\* Tier 1 in its order, whatever the budget and the removals: a record is shown only if every
\* earlier one is that any payload could hold.
Tier1Of(r) == FlattenSeq([i \in DOMAIN tier1Admission |->
                            tier1Units(tier1Admission[i], r.all[tier1Admission[i]])])
OnePrefix(r, p) ==
    LET t == Tier1Of(r)
    IN  \A i, j \in DOMAIN t :
            i < j /\ t[j].id \in Shown(p) /\ representable(t[i]) => t[i].id \in Shown(p)

\* Without the retrieval line no section that needs it, and no older restatement without the newest.
Anchored(r, p) ==
    /\ \/ Ids(r.all["retrieval"]) \subseteq Shown(p)
       \/ Range(p.items) \subseteq Range(tier1Admission) \cup {"report"}
    /\ LET l == Loose(r.all["intent"])
       IN  \A i \in DOMAIN l : l[i].id \in Shown(p) => l[1].id \in Shown(p)

\* What the plan left out is never missing in silence. (What only the removals take out is named in the
\* drop list, and the payload mentions it only if the plan had left something out as well.)
Said(r, p) ==
    /\ Planned(r).dropped # <<>> =>
          "report" \in Range(p.items) \/ p.notice \/ "payload" \in Range(p.dropped)
    /\ (\E i \in DOMAIN Tier1Of(r) : Tier1Of(r)[i].id \notin Shown(p)) => p.degraded

(* What a rebuilt context promises at every budget: it keeps both caps, and its plan needs no      *)
(* removal when the estimator adds up; every record is shown or named, and never both; tier 1 is   *)
(* one prefix of its order, whatever was removed; nothing stands without what makes it honest; and *)
(* a loss is said (BuildWithStats).                                                                *)
PayloadSound ==
    \A i \in DOMAIN result :
        /\ WithinCaps(request, result[i]) /\ Accounted(request, result[i])
        /\ OnePrefix(request, result[i]) /\ Anchored(request, result[i]) /\ Said(request, result[i])

(* The comment on fillPrefix: "the item set at a smaller budget must be a prefix-wise subset of    *)
(* the set at a larger one", here for an estimator that adds up.                                   *)
GrowsWithBudget ==
    \A i \in DOMAIN result : request.budget > 0 /\ request.surplus = 0 =>
        Shown(result[i]) \subseteq Shown(BuildWithStats([request EXCEPT !.budget = @ + 1]))
=============================================================================
