------------------------------- MODULE DbWriters -------------------------------
(***************************************************************************)
(* The writers of exchanges, tokens and funding_rates: the DB writer of    *)
(* FundingService and the backfills.  They meet in the tables of exchanges *)
(* and tokens only, where each of them adds rows and none updates or       *)
(* deletes one; none reads funding_rates.  So a behaviour follows either   *)
(* the cycle or two backfills ("view"); the rows of all others appear at   *)
(* any time (OtherWriter).                                                 *)
(***************************************************************************)
EXTENDS Backfill

VARIABLE view

cycleVars == <<stored, pc, batch, todo, exchanges, tokens, tx, rows, inserted, disturbed>>
writerVars == <<vars, backfillVars, view>>

\* The backfills start with empty tables, which the others may fill first; what
\* the view does not follow is fixed.
WritersInit ==
    /\ view \in {"cycle", "backfill"}
    /\ Init /\ BackfillInit
    /\ view = "backfill" => dbExchanges = {} /\ dbTokens = {}
    /\ view = "cycle" => walk = "chunks" /\ \A i, j \in Jobs : job[i] = job[j]

Cycle ==
    /\ view = "cycle" /\ CycleStep
    /\ UNCHANGED <<view, backfillVars>>

BackfillStep(j) ==
    /\ view = "backfill" /\ JobStep(j)
    /\ UNCHANGED <<view, cycleVars>>

Others == OtherWriter /\ UNCHANGED <<view, backfillVars>>

AllOver == \A j \in Jobs : job[j].stage \in Over

Finished == view = "backfill" /\ AllOver /\ UNCHANGED writerVars

WritersNext == Cycle \/ (\E j \in Jobs : BackfillStep(j)) \/ Others \/ Finished

\* Every call of the database, of Redis and of an exchange returns, with or
\* without an error: something always goes on.
WritersSpec ==
    WritersInit /\ [][WritersNext]_writerVars
    /\ WF_writerVars(Cycle \/ \E j \in Jobs : BackfillStep(j))

-----------------------------------------------------------------------------
(* Properties                                                               *)

(* The type invariant of both.                                              *)
WritersTypeOK == TypeOK /\ BackfillTypeOK

(* A backfill that met no failure has recorded the whole history of every    *)
(* symbol, whatever the walk of its adapter and wherever pages and batches  *)
(* end, also when another backfill or writer inserted rows meanwhile.       *)
Complete ==
    \A j \in Jobs : job[j].stage = "done" /\ job[j].clean =>
        \A s \in ToSet(Listed) : \A t \in History(s) : <<job[j].exchange, Upper[s], t>> \in recorded

(* The caches, which outlive a job that raised, hold ids of committed rows  *)
(* only: a later job that trusts them never breaks a foreign key, as the    *)
(* cycle's dictionaries do after a rollback.                                *)
CachedRowsExist ==
    \A j \in Jobs : /\ caches[j].ex \subseteq dbExchanges
                    /\ {Upper[s] : s \in caches[j].tok} \subseteq dbTokens

(* Every cycle and all backfills end, whatever fails and whoever else        *)
(* writes: no flush is tried and no page asked for for ever, and no call    *)
(* waits for what cannot happen.                                            *)
WritersEnd ==
    (view = "backfill" \/ ~CycleOver) ~> (IF view = "backfill" THEN AllOver ELSE CycleOver)

Starting == {"guard", "exchange", "newExchange", "load"}

Rank(stage) ==
    CASE stage = "guard" -> 8 [] stage = "exchange" -> 7 [] stage = "newExchange" -> 6
      [] stage = "load" -> 5 [] stage = "token" -> 4 [] stage = "newToken" -> 3
      [] stage = "flush" -> 2 [] stage \in {"fetch", "mark"} -> 1 [] OTHER -> 0

(* How much of the range a walk may still ask for.                          *)
Togo(v) ==
    CASE ~Goes(walk, v) -> 0
      [] Goes(walk, v) /\ walk = "backward" -> v.hi - Start
      [] OTHER -> End - v.lo

(* The lexicographic order of tuples of numbers.                            *)
Less(m, n) == \E k \in DOMAIN n : m[k] < n[k] /\ \A i \in 1..(k - 1) : m[i] = n[i]

(* What a backfill has left to do, the most significant first: symbols, the *)
(* rest of the range, records of the page, records of the batch, awaits.    *)
Work(r) ==
    << Len(IF r.stage \in Starting THEN Listed ELSE r.left),
       Togo(r.window), Len(r.page), Len(r.batch), Rank(r.stage) >>

(* Whatever the exchanges answer and whatever fails, every step but another *)
(* writer's leaves one backfill less to do and the rest as they are: each   *)
(* request asks for less of the range than the one before it, and a record  *)
(* is taken or dropped once.  The safety half of WritersEnd.                *)
BackfillsAdvance ==
    [][view = "backfill" =>
        \/ \E j \in Jobs : /\ Less(Work(job'[j]), Work(job[j]))
                          /\ \A i \in Jobs \ {j} : job'[i] = job[i]
        \/ Others]_writerVars
=============================================================================
