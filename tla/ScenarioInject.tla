--------------------------- MODULE ScenarioInject ---------------------------
(***************************************************************************)
(* The events of a scenario that change a real run's network:              *)
(* real_runner_impl.py _apply_due_scenario_events, inject_executor.py and  *)
(* cache_invalidator.py, for one equivalent.                               *)
(*                                                                         *)
(* The effects of an event are applied one by one in a session that does   *)
(* not flush by itself: a query sees the committed rows and the flushed    *)
(* ones, an object already loaded keeps its unflushed changes.  One commit *)
(* ends the event; the scenario in memory follows it, unless the answer of *)
(* the commit is lost.  The database is shared with earlier runs, whose    *)
(* rows the scenario need not have.                                        *)
(***************************************************************************)
EXTENDS Integers, Sequences, FiniteSetsExt

CONSTANTS
    Pids,        \* participants, new ones included
    Founders,    \* participants at the start
    Lines,       \* pairs <<creditor, debtor>> that have a line at the start
    FirstRows,   \* the databases a run may find itself in once it is seeded
    Limit,       \* the limit of every line
    Scripts,     \* the event lists a behaviour may have
    MaxEffects,  \* max_edges = 500
    MaxTicks     \* bound: ticks

Pairs == {e \in Pids \X Pids : e[1] # e[2]}

\* The effects and events that are not skipped as malformed.
EffectRecords ==
    [op : {"inject_debt"}, pair : Pairs, amount : Nat \ {0}]
        \cup [op : {"create_trustline"}, pair : Pairs]
        \cup [op : {"add_participant"}, pid : Pids, pair : Pairs \cup {<<>>}]
        \cup [op : {"freeze_participant"}, pid : Pids, freezeLines : BOOLEAN]
Events == [effects : Seq(EffectRecords), at : Nat, cap : Nat]

Status == {"none", "active", "suspended", "frozen"}

Covered(d) == \A e \in Pairs : d.debt[e] > 0 => d.line[e] # "none" /\ d.debt[e] <= Limit

\* What the constants must satisfy; every instance assumes it.  Seeding adds the
\* rows of the scenario that are missing and leaves the others as they are.
InjectAssumption ==
    /\ Founders \subseteq Pids
    /\ Lines \subseteq Pairs \cap (Founders \X Founders)
    /\ Limit \in Nat \ {0} /\ MaxEffects \in Nat /\ MaxTicks \in Nat
    /\ Scripts \subseteq Seq(Events)
    /\ FirstRows \subseteq [part : [Pids -> Status], line : [Pairs -> Status], debt : [Pairs -> Nat]]
    /\ \A d \in FirstRows :
         /\ \A p \in Founders : d.part[p] # "none"
         /\ \A e \in Lines : d.line[e] # "none"
         /\ Covered(d)

VARIABLES
    script,  \* scenario["events"]
    db,      \* committed rows: participants, lines, debts
    tx,      \* the session's view while an event is applied
    mem,     \* run._scenario_raw, run._edges_by_equivalent
    seen,    \* the participants and lines a viewer of the run was told of
    known,   \* pid_to_participant_id of this tick
    news,    \* what the event leaves for memory
    pc,      \* "idle", "scan" or "apply"
    cur,     \* index of the event being looked at
    pos,     \* effects of the event already applied
    fired,   \* run._real_fired_scenario_event_indexes
    commits, \* how often each event was committed
    strays,  \* history: the participants and lines of which memory missed something
    tick

vars == <<script, db, tx, mem, seen, known, news, pc, cur, pos, fired, commits, strays, tick>>

NoNews == [parts |-> {}, lines |-> {}, frozen |-> {}, total |-> 0, edges |-> {}]

\* part, line, debt: what a query or a loaded object shows; objs: the lines set to frozen and not flushed;
\* added: the lines and debts added and not flushed; clash: the flush will fail.
View(d) == [part |-> d.part, line |-> d.line, debt |-> d.debt, objs |-> {},
            addedLines |-> {}, addedDebts |-> {}, clash |-> FALSE, broken |-> FALSE]

\* What the rows d and memory m tell differently.
Differ(d, m) == [parts |-> {p \in Pids : d.part[p] # m.part[p]},
                 lines |-> {e \in Pairs : d.line[e] # m.line[e]}]

InjectInit ==
    /\ script \in Scripts /\ db \in FirstRows
    /\ tx = View(db)
    /\ mem = [part |-> [p \in Pids |-> IF p \in Founders THEN "active" ELSE "none"],
              line |-> [e \in Pairs |-> IF e \in Lines THEN "active" ELSE "none"],
              edges |-> Lines]
    /\ strays = Differ(db, mem)
    /\ seen = [part |-> mem.part, line |-> mem.line]
    /\ known = {} /\ news = NoNews
    /\ pc = "idle" /\ cur = 0 /\ pos = 0
    /\ fired = {} /\ commits = [i \in 1..Len(script) |-> 0] /\ tick = 0

InjectTypeOK ==
    /\ db \in [part : [Pids -> Status], line : [Pairs -> Status], debt : [Pairs -> Nat]]
    /\ mem \in [part : [Pids -> Status], line : [Pairs -> Status], edges : SUBSET Pairs]
    /\ known \subseteq Pids
    /\ pc \in {"idle", "scan", "apply"}
    /\ fired \subseteq 1..Len(script)
    /\ pos \in 0..MaxEffects
    /\ strays \in [parts : SUBSET Pids, lines : SUBSET Pairs]

Incident(e, p) == p \in {e[1], e[2]}

-----------------------------------------------------------------------------
(* The scan of the events in a tick. *)

StartTick ==
    /\ pc = "idle" /\ tick < MaxTicks
    /\ tick' = tick + 1 /\ pc' = "scan" /\ cur' = 1
    /\ known' = {p \in Pids : mem.part[p] # "none"}
    /\ UNCHANGED <<script, db, tx, mem, seen, news, pos, fired, commits, strays>>

EndTick ==
    /\ pc = "scan" /\ cur > Len(script)
    /\ pc' = "idle"
    /\ UNCHANGED <<script, db, tx, mem, seen, known, news, cur, pos, fired, commits, strays, tick>>

Due(i) == i \notin fired /\ script[i].at <= tick

PassOver ==
    /\ pc = "scan" /\ cur <= Len(script) /\ ~Due(cur)
    /\ cur' = cur + 1
    /\ UNCHANGED <<script, db, tx, mem, seen, known, news, pc, pos, fired, commits, strays, tick>>

\* A note, an unknown type, injection disabled, no effects: only marked.
MarkFired ==
    /\ pc = "scan" /\ cur <= Len(script) /\ Due(cur)
    /\ script[cur].effects = <<>>
    /\ fired' = fired \cup {cur} /\ cur' = cur + 1
    /\ UNCHANGED <<script, db, tx, mem, seen, known, news, pc, pos, commits, strays, tick>>

BeginInject ==
    /\ pc = "scan" /\ cur <= Len(script) /\ Due(cur)
    /\ script[cur].effects # <<>>
    /\ pc' = "apply" /\ pos' = 0 /\ tx' = View(db) /\ news' = NoNews
    /\ UNCHANGED <<script, db, mem, seen, known, cur, fired, commits, strays, tick>>

-----------------------------------------------------------------------------
(* One effect.  t is the session, n what memory will be told. *)

DebtFits(t, e, amount) ==
    (IF e \in t.addedDebts THEN 0 ELSE t.debt[e]) + amount <= Limit

WithinCap(n, amount) == n.total + amount <= script[cur].cap

\* A debt row added and not flushed is not seen: a second one is added.
InjectDebt(eff) ==
    LET e == eff.pair
        unseen == e \in tx.addedDebts IN
    IF /\ WithinCap(news, eff.amount)
       /\ {e[1], e[2]} \subseteq known
       /\ tx.line[e] = "active"
       /\ DebtFits(tx, e, eff.amount)
    THEN /\ tx' = [tx EXCEPT !.debt[e] = IF unseen THEN eff.amount ELSE @ + eff.amount,
                             !.addedDebts = IF tx.debt[e] = 0 THEN @ \cup {e} ELSE @,
                             !.clash = @ \/ unseen]
         /\ news' = [news EXCEPT !.total = @ + eff.amount, !.edges = @ \cup {e}]
         /\ UNCHANGED known
    ELSE UNCHANGED <<tx, news, known>>

\* A participant found by its pid; its id may come from the tick's map.
Findable(t, p) == p \in known \/ t.part[p] # "none"

\* A row that refers to a participant rolled back earlier in the tick.
Dangling(t, e) == \E p \in {e[1], e[2]} : t.part[p] = "none"

AddLine(t, e) == [t EXCEPT !.addedLines = @ \cup {e},
                           !.clash = @ \/ e \in t.addedLines \/ Dangling(t, e)]

CreateTrustline(eff) ==
    LET e == eff.pair IN
    IF Findable(tx, e[1]) /\ Findable(tx, e[2]) /\ tx.line[e] = "none"
    THEN /\ tx' = AddLine(tx, e)
         /\ news' = [news EXCEPT !.lines = @ \cup {e}]
         /\ known' = known \cup {e[1], e[2]}
    ELSE UNCHANGED <<tx, news, known>>

\* What a flush makes visible to the queries of this session.
Flush(t) ==
    [t EXCEPT !.line = [e \in Pairs |-> IF e \in t.addedLines THEN "active"
                                        ELSE IF e \in t.objs THEN "frozen"
                                        ELSE t.line[e]],
              !.addedLines = {}, !.addedDebts = {}, !.objs = {}]

\* The new participant is flushed, then its line to the sponsor is added.
AddParticipant(eff) ==
    LET p == eff.pid
        t == [Flush(tx) EXCEPT !.part[p] = "active"]
        linked == eff.pair # <<>> /\ Findable(t, eff.pair[1]) /\ Findable(t, eff.pair[2])
                  /\ t.line[eff.pair] = "none" IN
    IF tx.part[p] # "none" THEN UNCHANGED <<tx, news, known>>
    ELSE IF tx.clash THEN tx' = [tx EXCEPT !.broken = TRUE] /\ UNCHANGED <<news, known>>
    ELSE /\ tx' = IF linked THEN AddLine(t, eff.pair) ELSE t
         /\ news' = [news EXCEPT !.parts = @ \cup {p},
                                 !.lines = IF linked THEN @ \cup {eff.pair} ELSE @]
         /\ known' = known \cup {p}

\* Only lines a query returns are frozen; the participant's status is kept on
\* the loaded object, so a second freeze in the same event is skipped.
FreezeEffect(eff) ==
    LET p == eff.pid IN
    IF tx.part[p] \in {"none", "suspended"} THEN UNCHANGED <<tx, news, known>>
    ELSE /\ tx' = [tx EXCEPT !.part[p] = "suspended",
                             !.objs = IF eff.freezeLines
                                      THEN @ \cup {e \in Pairs : Incident(e, p) /\ tx.line[e] = "active"}
                                      ELSE @]
         /\ news' = [news EXCEPT !.frozen = @ \cup {p}]
         /\ UNCHANGED known

Effects == SubSeq(script[cur].effects, 1, Min({Len(script[cur].effects), MaxEffects}))

ApplyEffect ==
    /\ pc = "apply" /\ pos < Len(Effects) /\ ~tx.broken
    /\ LET eff == Effects[pos + 1] IN
        \/ eff.op = "inject_debt" /\ InjectDebt(eff)
        \/ eff.op = "create_trustline" /\ CreateTrustline(eff)
        \/ eff.op = "add_participant" /\ AddParticipant(eff)
        \/ eff.op = "freeze_participant" /\ FreezeEffect(eff)
    /\ pos' = pos + 1
    /\ UNCHANGED <<script, db, mem, seen, pc, cur, fired, commits, strays, tick>>

\* After a flush that failed every statement of the session raises.  The
\* debt effect is the one that does not catch it: the tick ends there, and
\* the event is not marked.
Raises(eff) == /\ eff.op = "inject_debt" /\ WithinCap(news, eff.amount)
               /\ {eff.pair[1], eff.pair[2]} \subseteq known

SkipEffect ==
    /\ pc = "apply" /\ pos < Len(Effects) /\ tx.broken
    /\ ~Raises(Effects[pos + 1])
    /\ pos' = pos + 1
    /\ UNCHANGED <<script, db, tx, mem, seen, known, news, pc, cur, fired, commits, strays, tick>>

TickFails ==
    /\ pc = "apply" /\ pos < Len(Effects) /\ tx.broken
    /\ Raises(Effects[pos + 1])
    /\ pc' = "idle" /\ pos' = 0 /\ tx' = View(db) /\ news' = NoNews
    /\ UNCHANGED <<script, db, mem, seen, known, cur, fired, commits, strays, tick>>

-----------------------------------------------------------------------------
(* The commit, and the memory that follows it. *)

\* New participants and lines are appended, then everything at a frozen
\* participant is frozen, whether its rows were or not.
InvalidateCaches(m, n) ==
    LET withNew == [e \in Pairs |-> IF e \in n.lines THEN "active" ELSE m.line[e]]
        hit(e) == \E p \in n.frozen : Incident(e, p) IN
    [part |-> [p \in Pids |-> IF p \in n.frozen /\ (m.part[p] # "none" \/ p \in n.parts)
                              THEN "suspended"
                              ELSE IF p \in n.parts THEN "active" ELSE m.part[p]],
     line |-> [e \in Pairs |-> IF hit(e) /\ withNew[e] = "active" THEN "frozen"
                               ELSE withNew[e]],
     edges |-> {e \in m.edges \cup n.lines : ~hit(e)}]

\* The lines told to be frozen are those active in memory before the event.
FrozenEdges(m, n) ==
    {e \in Pairs : m.line[e] = "active" /\ \E p \in n.frozen : Incident(e, p)}

\* Nothing is sent when no line and no debt of the equivalent is affected.
Affected(m, n) ==
    n.edges # {} \/ n.lines # {}
        \/ \E e \in Pairs, p \in n.frozen : m.line[e] # "none" /\ Incident(e, p)

BroadcastTopology(v, m, n) ==
    IF ~Affected(m, n) THEN v
    ELSE [part |-> [p \in Pids |-> IF p \in n.frozen THEN "suspended"
                                   ELSE IF p \in n.parts THEN "active" ELSE v.part[p]],
          line |-> [e \in Pairs |-> IF e \in FrozenEdges(m, n) THEN "frozen"
                                    ELSE IF e \in n.lines THEN "active" ELSE v.line[e]]]

EndInject ==
    /\ fired' = fired \cup {cur} /\ cur' = cur + 1 /\ pc' = "scan" /\ pos' = 0
    /\ tx' = View(db') /\ news' = NoNews
    /\ UNCHANGED <<script, known, tick>>

\* What the commit makes durable: all of the event.
Persist ==
    /\ ~tx.clash
    /\ LET t == Flush(tx) IN
        db' = [part |-> t.part, line |-> t.line, debt |-> t.debt]
    /\ commits' = [commits EXCEPT ![cur] = @ + 1]

\* Memory is changed by a synchronous call right after the commit.
CommitInject ==
    /\ pc = "apply" /\ pos = Len(Effects)
    /\ Persist
    /\ mem' = InvalidateCaches(mem, news)
    /\ seen' = BroadcastTopology(seen, mem, news)
    /\ UNCHANGED strays
    /\ EndInject

\* Mutant: memory is changed although the commit failed.
CommitFailsLate ==
    /\ pc = "apply" /\ pos = Len(Effects)
    /\ UNCHANGED <<db, seen, commits, strays>>
    /\ mem' = InvalidateCaches(mem, news)
    /\ EndInject

\* Two rows for one pair, a row without its participant, or the database
\* fails: everything is rolled back and the event is not tried again.
CommitFails ==
    /\ pc = "apply" /\ pos = Len(Effects)
    /\ UNCHANGED <<db, mem, seen, commits, strays>>
    /\ EndInject

\* The commit raises although the event is durable: it is not tried again, and
\* neither memory nor the viewers learn of it.
LoseCommitAnswer ==
    /\ pc = "apply" /\ pos = Len(Effects)
    /\ Persist
    /\ strays' = [parts |-> strays.parts \cup Differ(db', mem).parts,
                  lines |-> strays.lines \cup Differ(db', mem).lines]
    /\ UNCHANGED <<mem, seen>>
    /\ EndInject

InjectNext ==
    \/ StartTick \/ EndTick \/ PassOver \/ MarkFired \/ BeginInject
    \/ ApplyEffect \/ SkipEffect \/ TickFails \/ CommitInject \/ CommitFails \/ LoseCommitAnswer

\* The heartbeat keeps ticking and the database answers every statement.
InjectSpec == InjectInit /\ [][InjectNext]_vars /\ WF_vars(InjectNext)

-----------------------------------------------------------------------------
(* Properties. *)

Between == pc # "apply"

\* An event is applied as a whole or not at all, in the database and in
\* memory: memory holds no participant and no line without its row.
MemoryHasRows ==
    Between => /\ \A p \in Pids : mem.part[p] # "none" => db.part[p] # "none"
               /\ \A e \in Pairs : mem.line[e] # "none" => db.line[e] # "none"

\* No order of effects, events and failed commits injects a debt above the
\* limit of its line.
InjectedWithinLimit == Covered(db)

\* What one event injects stays within the event's max_total_amount.
InjectedWithinCap == pc = "apply" => news.total <= script[cur].cap

\* An event takes effect at most once, however its commit ends.
AppliedOnce == \A i \in DOMAIN commits : commits[i] <= 1

\* The planner pays over the edges of its cache: they are the active lines of
\* the scenario in memory, after any list of events.
EdgesAreActiveLines == mem.edges = {e \in Pairs : mem.line[e] = "active"}

\* Lines are frozen with their participant, and not in an event that adds
\* participants or lines.
FreezesAreWhole ==
    \A i \in DOMAIN script :
        LET effs == script[i].effects IN
        \/ \A k \in DOMAIN effs : effs[k].op # "freeze_participant"
        \/ \A k \in DOMAIN effs :
              /\ effs[k].op \in {"freeze_participant", "inject_debt"}
              /\ effs[k].op = "freeze_participant" => effs[k].freezeLines

\* Memory tells the same as the database of every participant and line, but for
\* what it missed: rows of earlier runs that the scenario does not have or has
\* otherwise, and an event whose commit was not answered.  What was missed does
\* not spread to other rows.
MemoryFollowsRows ==
    FreezesAreWhole /\ Between =>
        /\ \A p \in Pids \ strays.parts : mem.part[p] = db.part[p]
        /\ \A e \in Pairs \ strays.lines : mem.line[e] = db.line[e]

\* A viewer who applies the topology events sees the lines memory has.
ViewerSeesLines == FreezesAreWhole /\ Between => seen.line = mem.line
=============================================================================
