----------------------------- MODULE HistoryPaging ------------------------------
(***************************************************************************)
(* The page walks of _fetch_history_range(): Hyperliquid's by chunks of    *)
(* time, Aster's forward and Extended's backward by pages of a limited     *)
(* size.  (Pacifica has no history: its walk yields nothing.)  A walk is   *)
(* the time window it asks for next; a symbol's history is the set of the  *)
(* times of its records.                                                   *)
(***************************************************************************)
EXTENDS Naturals, Sequences, FiniteSets, FiniteSetsExt, SequencesExt

CONSTANTS
    Start, End,     \* start_ms and end_ms, both part of the range
    Chunk,          \* CHUNK_MS: seven days
    PageSize        \* PAGE_SIZE: records in one answer

\* A walk by chunks never reaches End with the start of a chunk: thirty days are
\* not a multiple of seven days and a millisecond.
ASSUME PagingAssumption ==
    /\ Start \in Nat \ {0} /\ End \in Nat /\ Start < End
    /\ Chunk \in Nat \ {0} /\ PageSize \in Nat \ {0, 1}
    /\ \A k \in 0..End : Start + k * (Chunk + 1) # End

Walks == {"chunks", "forward", "backward"}
Windows == [lo : Start..(End + 1), hi : (Start - 1)..End]

ChunkFrom(t) == [lo |-> t, hi |-> Min({t + Chunk, End})]

First(walk) == IF walk = "chunks" THEN ChunkFrom(Start) ELSE [lo |-> Start, hi |-> End]

\* The loop's condition.
Goes(walk, w) == IF walk = "backward" THEN w.hi > Start ELSE w.lo < End

\* The loop is left by its break: no loop goes on from here.
Broken == [lo |-> End, hi |-> Start]

Precedes(walk, t, u) == IF walk = "backward" THEN t > u ELSE t < u

\* The times of a set, the oldest or the newest first.
Sorted == [walk \in Walks |-> [S \in SUBSET (Start..End) |->
    CHOOSE q \in [1..Cardinality(S) -> S] :
        \A i, k \in 1..Cardinality(S) : i < k => Precedes(walk, q[i], q[k])]]

\* The answer: the records of the window in that order, cut to a page.
Answer(walk, w, history) ==
    LET ordered == Sorted[walk][{t \in history : w.lo <= t /\ t <= w.hi}]
    IN IF walk = "chunks" THEN ordered
       ELSE SubSeq(ordered, 1, Min({PageSize, Len(ordered)}))

\* Mutant of Beyond: the walk backward goes on as one that goes forward.
BeyondForward(walk, w, page) == [w EXCEPT !.lo = Last(page) + 1]

\* Mutant of Beyond: the window is not moved.
Unmoved(walk, w, page) == w

\* The page was full: on from its last record.
Beyond(walk, w, page) ==
    IF walk = "backward" THEN [w EXCEPT !.hi = Last(page) - 1]
    ELSE [w EXCEPT !.lo = Last(page) + 1]

\* A short page, or one that brings nothing new, ends a walk by pages.
Ending(walk, w, page) ==
    \/ Len(page) < PageSize
    \/ IF walk = "backward" THEN Last(page) <= Start ELSE Last(page) <= w.lo

After(walk, w, page) ==
    CASE walk = "chunks" -> ChunkFrom(w.hi + 1)
      [] walk # "chunks" /\ Ending(walk, w, page) -> Broken
      [] OTHER -> Beyond(walk, w, page)

\* A failed request: a walk by chunks goes on behind the hole.
AfterError(walk, w) == IF walk = "chunks" THEN ChunkFrom(w.hi + 1) ELSE Broken
=============================================================================
