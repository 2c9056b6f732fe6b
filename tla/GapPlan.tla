------------------------------ MODULE GapPlan ------------------------------
(***************************************************************************)
(* The loops that decide which blocks a run fetches: covered_frontier and  *)
(* find_gaps of indexer/storage.py walk the range table, run() of          *)
(* indexer/index_base.py cuts the gaps into subranges, and                 *)
(* get_logs_chunked of indexer/chain.py cuts a subrange into requests that *)
(* shrink when the RPC refuses them.  SettlementIndex takes their results  *)
(* as definitions (Frontier, Uncovered, IsNextSubrange); here they are the *)
(* code's own loops, one iteration a step, over any table of overlapping,  *)
(* nested, adjacent or repeated ranges.                                    *)
(*                                                                         *)
(* One log scan stands for the two of a subrange; both are the same loop.  *)
(***************************************************************************)
EXTENDS Integers, Sequences

CONSTANTS
    MaxBlock,    \* bound: the highest block of a range or a target
    Tables,      \* contents of indexed_ranges for the chain, ORDER BY from_block
    Subrange,    \* chain.subrange
    MaxRange     \* max_range of a new ChainClient

Block == 0..MaxBlock

ASSUME PlanAssumption ==
    /\ MaxBlock \in Nat
    /\ Subrange \in Nat \ {0}
    /\ MaxRange \in Nat \ {0}
    /\ Tables \subseteq Seq(Block \X Block)
    /\ \A t \in Tables : \A j, k \in DOMAIN t :
          /\ t[j][1] <= t[j][2]
          /\ j <= k => t[j][1] <= t[k][1]

VARIABLES
    table,       \* the rows both queries read
    toHead,      \* --to-head, or an operator's --from/--to
    start, end,  \* the target
    phase,       \* the loop that runs
    i,           \* the row the walk looks at
    frontier,    \* covered_frontier's result so far
    from,        \* where find_gaps starts
    cursor,      \* find_gaps: first block not yet decided
    gaps,        \* find_gaps' result so far
    g,           \* the gap run() works on
    lo, hi,      \* the subrange run() works on
    chunk,       \* get_logs_chunked: first block not yet fetched
    maxRange,    \* the client's current request size; it never grows back
    seen         \* blocks whose logs have been fetched

target == <<table, toHead, start, end>>
plan   == <<i, frontier, from, cursor, gaps>>
fetch  == <<g, lo, hi, chunk, maxRange, seen>>
vars   == <<target, phase, plan, fetch>>

Phases == {"frontier", "gaps", "gap", "batch", "scan", "done", "failed"}

Larger(a, b) == IF a >= b THEN a ELSE b
Smaller(a, b) == IF a <= b THEN a ELSE b

\* A block that some row of indexed_ranges covers.
Cov(b) == \E k \in DOMAIN table : table[k][1] <= b /\ b <= table[k][2]

Init ==
    /\ table \in Tables
    /\ start \in Block
    /\ end \in Block
    /\ toHead \in BOOLEAN
    /\ phase = IF toHead THEN "frontier" ELSE "gaps"
    /\ i = 1
    /\ frontier = start - 1
    /\ from = start
    /\ cursor = start
    /\ gaps = <<>>
    /\ g = 0
    /\ lo = 0
    /\ hi = 0
    /\ chunk = 0
    /\ maxRange = MaxRange
    /\ seen = {}

-----------------------------------------------------------------------------
(***************************************************************************)
(* covered_frontier: advance over touching rows, stop at the first hole.   *)
(***************************************************************************)
\* Mutant of WalkRow: the row's end replaces the frontier.
WalkRowEnd ==
    /\ phase = "frontier"
    /\ i \in DOMAIN table
    /\ table[i][1] <= frontier + 1
    /\ frontier' = table[i][2]
    /\ i' = i + 1
    /\ UNCHANGED <<target, phase, from, cursor, gaps, fetch>>

WalkRow ==
    /\ phase = "frontier"
    /\ i \in DOMAIN table
    /\ table[i][1] <= frontier + 1
    /\ frontier' = Larger(frontier, table[i][2])
    /\ i' = i + 1
    /\ UNCHANGED <<target, phase, from, cursor, gaps, fetch>>

\* main --to-head: the gaps are looked for behind the frontier.
StopWalk ==
    /\ phase = "frontier"
    /\ i \in DOMAIN table => table[i][1] > frontier + 1
    /\ from' = Larger(start, frontier + 1)
    /\ cursor' = Larger(start, frontier + 1)
    /\ i' = 1
    /\ phase' = "gaps"
    /\ UNCHANGED <<target, frontier, gaps, fetch>>

-----------------------------------------------------------------------------
(***************************************************************************)
(* find_gaps: the WHERE clause, then one pass over the rows it selects.    *)
(***************************************************************************)
Selected(row) == row[2] >= from /\ row[1] <= end

\* A row the WHERE clause leaves out.
SkipRow ==
    /\ phase = "gaps"
    /\ i \in DOMAIN table
    /\ ~Selected(table[i])
    /\ i' = i + 1
    /\ UNCHANGED <<target, phase, frontier, from, cursor, gaps, fetch>>

\* Mutant of TakeRow: the cursor follows the row even when it moves back.
TakeRowBack ==
    /\ phase = "gaps"
    /\ i \in DOMAIN table
    /\ Selected(table[i])
    /\ gaps' = IF table[i][1] > cursor
               THEN Append(gaps, <<cursor, Smaller(table[i][1] - 1, end)>>)
               ELSE gaps
    /\ cursor' = table[i][2] + 1
    /\ i' = i + 1
    /\ phase' = IF cursor' > end THEN "gap" ELSE "gaps"
    /\ UNCHANGED <<target, frontier, from, fetch>>

\* A row after the cursor leaves a gap; past the end nothing more is decided.
TakeRow ==
    /\ phase = "gaps"
    /\ i \in DOMAIN table
    /\ Selected(table[i])
    /\ gaps' = IF table[i][1] > cursor
               THEN Append(gaps, <<cursor, Smaller(table[i][1] - 1, end)>>)
               ELSE gaps
    /\ cursor' = Larger(cursor, table[i][2] + 1)
    /\ i' = i + 1
    /\ phase' = IF cursor' > end THEN "gap" ELSE "gaps"
    /\ UNCHANGED <<target, frontier, from, fetch>>

\* Behind the last row everything up to the end is a gap.
LastGap ==
    /\ phase = "gaps"
    /\ i \notin DOMAIN table
    /\ gaps' = IF cursor <= end THEN Append(gaps, <<cursor, end>>) ELSE gaps
    /\ cursor' = Larger(cursor, end + 1)
    /\ phase' = "gap"
    /\ UNCHANGED <<target, i, frontier, from, fetch>>

-----------------------------------------------------------------------------
(***************************************************************************)
(* run: the gaps in order, each in subranges.                              *)
(***************************************************************************)
NextGap ==
    /\ phase = "gap"
    /\ IF g < Len(gaps)
       THEN /\ g' = g + 1
            /\ lo' = gaps[g + 1][1]
            /\ phase' = "batch"
       ELSE /\ phase' = "done"
            /\ UNCHANGED <<g, lo>>
    /\ UNCHANGED <<target, plan, hi, chunk, maxRange, seen>>

\* Mutant of NextBatch: the last subrange of a gap is not cut at its end.
NextBatchPastGap ==
    /\ phase = "batch"
    /\ IF lo <= gaps[g][2]
       THEN /\ hi' = lo + Subrange - 1
            /\ chunk' = lo
            /\ phase' = "scan"
       ELSE /\ phase' = "gap"
            /\ UNCHANGED <<hi, chunk>>
    /\ UNCHANGED <<target, plan, g, lo, maxRange, seen>>

NextBatch ==
    /\ phase = "batch"
    /\ IF lo <= gaps[g][2]
       THEN /\ hi' = Smaller(lo + Subrange - 1, gaps[g][2])
            /\ chunk' = lo
            /\ phase' = "scan"
       ELSE /\ phase' = "gap"
            /\ UNCHANGED <<hi, chunk>>
    /\ UNCHANGED <<target, plan, g, lo, maxRange, seen>>

-----------------------------------------------------------------------------
(***************************************************************************)
(* get_logs_chunked, and the commit of the subrange behind it.             *)
(***************************************************************************)
ChunkEnd == Smaller(chunk + maxRange - 1, hi)

\* Mutant of Fetch: the next request starts at the last block of this one.
FetchOverlap ==
    /\ phase = "scan"
    /\ chunk <= hi
    /\ seen' = seen \cup (chunk..ChunkEnd)
    /\ chunk' = IF ChunkEnd < hi THEN ChunkEnd ELSE hi + 1
    /\ UNCHANGED <<target, phase, plan, g, lo, hi, maxRange>>

Fetch ==
    /\ phase = "scan"
    /\ chunk <= hi
    /\ seen' = seen \cup (chunk..ChunkEnd)
    /\ chunk' = ChunkEnd + 1
    /\ UNCHANGED <<target, phase, plan, g, lo, hi, maxRange>>

\* The RPC refuses the range or throttles it: halve and retry the lower half.
Refuse ==
    /\ phase = "scan"
    /\ chunk < ChunkEnd
    /\ maxRange' = Larger(1, ((ChunkEnd - chunk) + 1) \div 2)
    /\ UNCHANGED <<target, phase, plan, g, lo, hi, chunk, seen>>

\* Any other error, or a refused request for one block, ends the run.
Fail ==
    /\ phase = "scan"
    /\ chunk <= hi
    /\ phase' = "failed"
    /\ UNCHANGED <<target, plan, fetch>>

\* Mutant of Commit: the next subrange starts at the last block of this one.
CommitOverlap ==
    /\ phase = "scan"
    /\ chunk > hi
    /\ lo' = hi
    /\ phase' = "batch"
    /\ UNCHANGED <<target, plan, g, hi, chunk, maxRange, seen>>

\* The generator is exhausted: the subrange is committed.
Commit ==
    /\ phase = "scan"
    /\ chunk > hi
    /\ lo' = hi + 1
    /\ phase' = "batch"
    /\ UNCHANGED <<target, plan, g, hi, chunk, maxRange, seen>>

Next ==
    \/ WalkRow \/ StopWalk
    \/ SkipRow \/ TakeRow \/ LastGap
    \/ NextGap \/ NextBatch
    \/ Fetch \/ Refuse \/ Fail \/ Commit

Spec == Init /\ [][Next]_vars

\* The loops run on their own; nothing but the RPC's answers is outside them.
FairSpec == Spec /\ WF_vars(Next)

-----------------------------------------------------------------------------
\* Every variable holds a value of its kind, and the cursors point into what
\* they walk.
TypeOK ==
    /\ table \in Tables
    /\ toHead \in BOOLEAN
    /\ start \in Block
    /\ end \in Block
    /\ phase \in Phases
    /\ i \in 1..(Len(table) + 1)
    /\ frontier \in Block \cup {-1}
    /\ from \in 0..(MaxBlock + 1)
    /\ cursor \in 0..(MaxBlock + 1)
    /\ gaps \in Seq(Block \X Block)
    /\ g \in 0..Len(gaps)
    /\ lo \in 0..(MaxBlock + 1)
    /\ hi \in Block
    /\ chunk \in 0..(MaxBlock + 1)
    /\ maxRange \in Nat \ {0}
    /\ seen \subseteq Block

InGap(k, b) == gaps[k][1] <= b /\ b <= gaps[k][2]
Planned(b) == \E k \in DOMAIN gaps : InGap(k, b)
Missing(b) == start <= b /\ b <= end /\ ~Cov(b)

\* covered_frontier returns the last block of the covered stretch that begins
\* at the start block: "it will not jump over a hole" (storage.py:520), and it
\* never stops short of one, however the ranges overlap or nest.
FrontierExact ==
    toHead /\ phase # "frontier" =>
        /\ \A b \in Block : start <= b /\ b <= frontier => Cov(b)
        /\ ~Cov(frontier + 1)

\* A run that ends without an error has fetched exactly the blocks of its
\* target that no range covered, whatever the RPC refused on the way: "never
\* skips a sub-range" (chain.py:119).
FetchedExactly == phase = "done" => seen = {b \in Block : Missing(b)}

\* No block's logs are fetched twice in a run, and none outside the gaps: a
\* request that is refused and split starts again where it stood.
NeverFetchedTwice ==
    [][phase = "scan" /\ phase' = "scan" =>
          \A b \in Block : chunk <= b /\ b < chunk' => b \notin seen /\ Missing(b)]_vars

\* Planning and fetching end: every refusal shrinks the next request.
Terminates == <>(phase \in {"done", "failed"})

\* Loop invariant of covered_frontier.
WalkInv ==
    phase = "frontier" =>
        /\ toHead
        /\ start <= frontier + 1
        /\ \A b \in Block : start <= b /\ b <= frontier => Cov(b)
        /\ \A k \in DOMAIN table : k < i => table[k][2] <= frontier

\* What the walk leaves to find_gaps: everything before from is covered.
FromInv ==
    phase # "frontier" =>
        /\ start <= from
        /\ \A b \in Block : start <= b /\ b < from => Cov(b)

\* The gaps are intervals of the target in ascending order, clear of each
\* other.
GapsOrdered ==
    \A k \in DOMAIN gaps :
        /\ from <= gaps[k][1]
        /\ gaps[k][1] <= gaps[k][2]
        /\ gaps[k][2] <= end
        /\ \A j \in DOMAIN gaps : j < k => gaps[j][2] < gaps[k][1]

\* Loop invariant of find_gaps: up to the cursor, gaps and coverage are
\* complements, and no selected row behind reaches past it.
CursorInv ==
    phase = "gaps" =>
        /\ from <= cursor
        /\ \A k \in DOMAIN table : k < i /\ Selected(table[k]) => table[k][2] < cursor
        /\ \A k \in DOMAIN gaps : gaps[k][2] < cursor
        /\ \A b \in Block : from <= b /\ b < cursor /\ b <= end => (Planned(b) <=> ~Cov(b))

\* What find_gaps hands to run(): the plan is exactly what is missing.
PlanExact ==
    phase \in {"gap", "batch", "scan", "done"} =>
        \A b \in Block : Planned(b) <=> from <= b /\ b <= end /\ ~Cov(b)

\* Loop invariants of run() and get_logs_chunked.
FetchInv ==
    /\ phase \in {"frontier", "gaps"} => g = 0 /\ seen = {}
    /\ phase = "gap" =>
          seen = {b \in Block : \E k \in DOMAIN gaps : k <= g /\ InGap(k, b)}
    /\ phase \in {"batch", "scan"} =>
          /\ g \in DOMAIN gaps
          /\ gaps[g][1] <= lo
    /\ phase = "batch" =>
          /\ lo <= gaps[g][2] + 1
          /\ seen = {b \in Block : Planned(b) /\ b < lo}
    /\ phase = "scan" =>
          /\ lo <= hi
          /\ hi <= gaps[g][2]
          /\ hi < lo + Subrange
          /\ lo <= chunk
          /\ chunk <= hi + 1
          /\ seen = {b \in Block : Planned(b) /\ b < chunk}
    /\ phase = "done" => seen = {b \in Block : Planned(b)}

\* The invariants of the four nested loops together.
PlanInv ==
    /\ WalkInv
    /\ FrontierExact
    /\ FromInv
    /\ phase = "frontier" => gaps = <<>>
    /\ GapsOrdered
    /\ CursorInv
    /\ PlanExact
    /\ FetchInv
=============================================================================
