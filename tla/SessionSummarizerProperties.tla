--------------------- MODULE SessionSummarizerProperties ---------------------
(***************************************************************************)
(* What SessionSummarizer is checked for.                                  *)
(***************************************************************************)
EXTENDS SessionSummarizer

-----------------------------------------------------------------------------
(* Type invariant of the tables and the workers.                           *)
TypeOK ==
    /\ clock \in Nat
    /\ turns \in [Groups -> SUBSET Nat]
    /\ rows \in [Sessions -> SessionRows \cup {None}]
    /\ queue \in [Pods -> SUBSET Groups]
    /\ work \in [Pods -> [group : Groups \cup {None},
                          step : {"none", "ask", "insert", "update"},
                          read : SUBSET Nat, by : {"worker", "sentinel"}, now : Nat]]
    /\ late \in SUBSET Nat
    /\ faults \in Nat /\ crashes \in Nat /\ saves \in Nat

-----------------------------------------------------------------------------
(* Safety *)

TurnsOf(u, s) == UNION {turns[g] : g \in {h \in Groups : h.user = u /\ h.session = s}}

(* A summary is made from turns of the row's owner in that session alone,  *)
(* although two users may chat under one session id, the workers read with *)
(* row security off, and ownership is decided before the model is called.  *)
SummaryIsOwn ==
    \A s \in Sessions : rows[s] # None => rows[s].covers \subseteq TurnsOf(rows[s].owner, s)

(* No order of two workers, a client's save and a lost reply hands a       *)
(* sessions row to another user or takes it away.                          *)
OwnerIsFinal ==
    [][\A s \in Sessions : rows[s] # None =>
          rows'[s] # None /\ rows'[s].owner = rows[s].owner]_vars

(* A turn an up-to-date-looking summary of its group leaves out was stored *)
(* while some worker was summarising that group: no other path skips one.  *)
MissedIsLate ==
    \A g \in Groups : OwnRow(g) /\ rows[g.session].covers \cap turns[g] # {} =>
        \A t \in turns[g] \ rows[g.session].covers : t <= rows[g.session].at => t \in late

(* What the proofs add to the invariants: a worker's reading is of its     *)
(* group, and short only of late turns; an update is of an own row.        *)
WorkIsCurrent ==
    \A p \in Pods : work[p].step # "none" =>
        /\ work[p].group \in Groups
        /\ work[p].read \subseteq turns[work[p].group]
        /\ turns[work[p].group] \ work[p].read \subseteq late
        /\ work[p].step = "update" => OwnRow(work[p].group)

(* Stamps are given out once, and none is ahead of the clock.              *)
StampsAreOrdered ==
    /\ \A g \in Groups : \A t \in turns[g] : t <= clock
    /\ \A g, h \in Groups : g # h => turns[g] \cap turns[h] = {}
    /\ \A p \in Pods : work[p].now <= clock
    /\ \A s \in Sessions : rows[s] # None => rows[s].at <= clock

(* A summary is never replaced by one of fewer turns of the same group     *)
(* ("no two workers will pick the same row", ADR-030).                     *)
SummaryNeverShrinks ==
    [][\A g \in Groups : OwnRow(g) /\ rows'[g.session].by = "worker" =>
          rows[g.session].covers \subseteq rows'[g.session].covers]_vars

-----------------------------------------------------------------------------
(* Liveness *)

Settled(g) ==
    \/ IsForeign(g)
    \/ OwnRow(g) /\ \/ rows[g.session].by = "client"
                    \/ turns[g] \subseteq rows[g.session].covers \cup late

\* What the query's two bounds leave out: g is behind LIMIT rows of any kind,
\* or behind as many stale rows as a cycle takes.
Crowded(g) ==
    LET before == {h \in Idle : Precedes(h, g)} IN
    /\ g \in Idle
    /\ \/ Cardinality(before) >= 3 * MaxPerCycle
       \/ Cardinality({h \in before : IsStale(h)}) >= MaxPerCycle

\* The one row of the session was written for another project of the user,
\* after g's latest turn.
Shadowed(g) ==
    /\ OwnRow(g) /\ rows[g.session].at >= LastTurn(g)
    /\ \E h \in Groups \ {g} : /\ h.session = g.session /\ h.user = g.user
                              /\ rows[h.session].covers \cap turns[h] # {}

(* When the chats have stopped, every turn reaches a summary, or the       *)
(* worker was at its group when it came.  Only two things keep it from     *)
(* that, and they last for good: the query's LIMIT and the cycle's cap,    *)
(* taken up by other sessions (session_summarizer.py:181), and a summary   *)
(* of another project of the same session, for which there is but one row. *)
(* No crash, lost reply, second worker or client does.                     *)
TurnsAreSummarised ==
    <>[](\A g \in Groups \ Unanswerable :
            turns[g] # {} => Settled(g) \/ Crowded(g) \/ Shadowed(g))

(* A session with new content since its last summary is summarised again   *)
(* ("should be re-summarised", ADR-030; "Over-fetch so fresh sessions ...  *)
(* do not silently cap the cycle's useful work", _find_eligible).          *)
Outdated(g) == OwnRow(g) /\ rows[g.session].at # NULL /\ rows[g.session].at < LastTurn(g)
ResumedIsResummarised ==
    \A g \in Groups : turns[g] # {} /\ Outdated(g) ~> ~ Outdated(g)
=============================================================================
