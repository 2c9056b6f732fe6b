---------------------------- MODULE SnapshotNight ----------------------------
(***************************************************************************)
(* The nightly run of indexer/daily_snapshot.py over the EVM chains: index *)
(* the primary chain, refuse to go on over a hole, index the additive      *)
(* chains as well as they can be had, write the day's snapshot.  The       *)
(* working database may be wiped; the snapshots are durable and the next   *)
(* run resumes from the heads they record.                                 *)
(*                                                                         *)
(* Data abstraction: what a chain's blocks will carry is decided in the    *)
(* first state and shows as they are final; a block has a settlement or    *)
(* none; a night indexes a chain in one step (SettlementIndex has its      *)
(* subranges), up to any block where it may fail.  Only the newest day's   *)
(* directory can change or be read, so days are not numbered.              *)
(***************************************************************************)
EXTENDS Integers, FiniteSets

CONSTANTS
    Chain,       \* EVM chains
    Primary,     \* BASE; the others are ADDITIVE_EVM_CHAINS
    MaxBlock,    \* bound: the last block of a chain
    Traffic,     \* bound: which blocks of which chain may carry settlements
    FirstFinal,  \* final block of each chain when the program is installed
    Lookback,    \* chain.bootstrap_lookback_blocks
    Unsafe,      \* an operator backfills at most Unsafe blocks above final
    Backfilled,  \* chains that operators backfill
    Kinds,       \* the mishaps that can happen, once each
    MaxMishaps,  \* how many of them happen
    NoBlock      \* absent meta value, a chain without rows

Block == 1..MaxBlock

(***************************************************************************)
(* wipe: the working database is lost (a fresh box, an evicted cache);     *)
(* outage: an additive chain's RPC does not answer at all for a night;     *)
(* torn: a kill leaves snapshot_meta.json empty or cut;                    *)
(* operator: index_base.py is the first to open a database.                *)
(***************************************************************************)
Mishap == {"wipe", "outage", "torn", "operator"}

ASSUME NightAssumption ==
    /\ Primary \in Chain
    /\ MaxBlock \in Nat
    /\ Traffic \subseteq [Chain -> SUBSET Block]
    /\ FirstFinal \in Block
    /\ Lookback \in Nat
    /\ Lookback < FirstFinal
    /\ Unsafe \in Nat
    /\ Backfilled \subseteq Chain
    /\ Kinds \subseteq Mishap
    /\ MaxMishaps \in Nat
    /\ NoBlock \notin Int

VARIABLES
    busy,       \* the blocks of each chain that carry a settlement
    final,      \* finalized block of each chain
    covered,    \* blocks that indexed_ranges covers, per chain
    start,      \* meta start_block of each chain
    taken,      \* today's seller_aggregates.csv exists
    archived,   \* settled blocks that some day's seller_aggregates.csv counts
    heads,      \* max_block per chain of the newest snapshot_meta.json
    pc,         \* what the nightly run does next
    cur,        \* the chain it indexes
    end,        \* the finalized block it read for that chain
    max_blk,    \* the primary chain's max_block that its gap check goes up to
    left,       \* chains it has not come to
    anchors,    \* the snapshot heads it read
    mishaps,    \* those that have happened
    first,      \* history variable: the start block of each chain's first head
    recorded,   \* history variable: the highest head a snapshot recorded
    jumped      \* history variable: settlements of the primary chain above max_blk
                \* that a backfill reached or passed while a night went on

chainVars == <<busy, final>>
dbVars    == <<covered, start>>
diskVars  == <<taken, archived, heads>>
nightVars == <<pc, cur, end, max_blk, left, anchors>>
auxVars   == <<mishaps, first, recorded, jumped>>
vars      == <<chainVars, dbVars, diskVars, nightVars, auxVars>>

Steps == {"idle", "open", "index", "check", "gaps", "write", "meta"}

\* The settlements of a chain that the database holds, by block.
Rows(c) == busy[c] \cap covered[c]

Highest(S) == IF S = {} THEN NoBlock ELSE CHOOSE b \in S : \A d \in S : d <= b

\* find_gaps(CHAIN, start, max_blk) is not empty.
Gap == max_blk # NoBlock /\ ~(start[Primary]..max_blk \subseteq covered[Primary])

\* The nightly run has read max_blk and has not ended.
MaxRead == pc \in {"gaps", "write", "meta"} \/ (pc # "idle" /\ cur # Primary)

\* Block b of the primary chain is above what the gap check has looked at.
Unseen(b) == max_blk = NoBlock \/ max_blk < b

-----------------------------------------------------------------------------
\* Every variable holds a value of its kind; a run indexes a chain that has a
\* start block, and the database covers nothing without one.
TypeOK ==
    /\ busy \in Traffic
    /\ final \in [Chain -> FirstFinal..MaxBlock]
    /\ covered \in [Chain -> SUBSET Block]
    /\ start \in [Chain -> Block \cup {NoBlock}]
    /\ taken \in BOOLEAN
    /\ archived \in [Chain -> SUBSET Block]
    /\ heads \in [Chain -> Block \cup {NoBlock}]
    /\ pc \in Steps
    /\ cur \in Chain
    /\ end \in Block \cup {NoBlock}
    /\ max_blk \in Block \cup {NoBlock}
    /\ left \subseteq Chain
    /\ anchors \in [Chain -> Block \cup {NoBlock}]
    /\ mishaps \subseteq Kinds
    /\ first \in [Chain -> Block \cup {NoBlock}]
    /\ recorded \in [Chain -> Block \cup {NoBlock}]
    /\ jumped \subseteq Block
    /\ pc = "index" => start[cur] # NoBlock /\ end # NoBlock
    /\ \A c \in Chain : start[c] = NoBlock => covered[c] = {}

NoHeads == [c \in Chain |-> NoBlock]

Init ==
    /\ busy \in Traffic
    /\ final = [c \in Chain |-> FirstFinal]
    /\ covered = [c \in Chain |-> {}]
    /\ start = NoHeads
    /\ taken = FALSE
    /\ archived = [c \in Chain |-> {}]
    /\ heads = NoHeads
    /\ pc = "idle"
    /\ cur = Primary
    /\ end = NoBlock
    /\ max_blk = NoBlock
    /\ left = {}
    /\ anchors = NoHeads
    /\ mishaps = {}
    /\ first = NoHeads
    /\ recorded = NoHeads
    /\ jumped = {}

-----------------------------------------------------------------------------
(***************************************************************************)
(* The world around the run.                                               *)
(***************************************************************************)
Finalize(c) ==
    /\ final[c] < MaxBlock
    /\ final' = [final EXCEPT ![c] = @ + 1]
    /\ UNCHANGED <<busy, dbVars, diskVars, nightVars, auxVars>>

\* A new UTC day: its directory does not exist.
NewDay ==
    /\ taken
    /\ taken' = FALSE
    /\ UNCHANGED <<chainVars, dbVars, archived, heads, nightVars, auxVars>>

Happens(k) ==
    /\ k \in Kinds \ mishaps
    /\ Cardinality(mishaps) < MaxMishaps
    /\ mishaps' = mishaps \cup {k}

\* The working database is gone.
Wipe ==
    /\ pc = "idle"
    /\ Happens("wipe")
    /\ covered' = [c \in Chain |-> {}]
    /\ start' = NoHeads
    /\ UNCHANGED <<chainVars, diskVars, nightVars, first, recorded, jumped>>

\* The start block b of chain c is stored.
StoreStart(c, b) ==
    /\ start' = [start EXCEPT ![c] = b]
    /\ first' = [first EXCEPT ![c] = IF recorded[c] = NoBlock THEN b ELSE @]

\* index_base.py --status or --from/--to on a database without a start block,
\* before a nightly run or beside it.
OperatorOpens(c) ==
    /\ start[c] = NoBlock
    /\ Happens("operator")
    /\ StoreStart(c, final[c] - Lookback)
    /\ UNCHANGED <<chainVars, covered, diskVars, nightVars, recorded, jumped>>

\* The settlements up to block b that a gap check in progress does not look at.
Passed(b) == IF MaxRead THEN {d \in busy[Primary] : Unseen(d) /\ d <= b} ELSE {}

\* index_base.py --from a --to b: another process, which nothing keeps from the
\* database while a nightly run goes on.
Backfill(c) ==
    /\ c \in Backfilled
    /\ start[c] # NoBlock
    /\ \E a, b \in Block :
          /\ b <= final[c] + Unsafe
          /\ covered' = [covered EXCEPT ![c] = @ \cup (a..b)]
          /\ jumped' = IF c = Primary THEN jumped \cup Passed(b) ELSE jumped
    /\ UNCHANGED <<chainVars, start, diskVars, nightVars, mishaps, first, recorded>>

-----------------------------------------------------------------------------
(***************************************************************************)
(* The nightly run.                                                        *)
(***************************************************************************)
\* main: the heads of the newest snapshot, then the primary chain.
StartNight ==
    /\ pc = "idle"
    /\ anchors' = heads
    /\ cur' = Primary
    /\ end' = NoBlock
    /\ UNCHANGED max_blk
    /\ left' = Chain \ {Primary}
    /\ pc' = "open"
    /\ UNCHANGED <<chainVars, dbVars, diskVars, auxVars>>

\* The run ends: done, aborted or dead.
EndNight ==
    /\ pc' = "idle"
    /\ cur' = Primary
    /\ end' = NoBlock
    /\ max_blk' = NoBlock
    /\ left' = {}
    /\ anchors' = NoHeads

\* On to an additive chain, or to the snapshot.
NextChain ==
    /\ IF left = {}
       THEN /\ pc' = "write"
            /\ cur' = Primary
            /\ UNCHANGED left
       ELSE /\ pc' = "open"
            /\ cur' \in left
            /\ left' = left \ {cur'}
    /\ end' = NoBlock
    /\ UNCHANGED <<max_blk, anchors>>

\* Mutant of BootBlock: the anchor counts only while it is in reach.
BootBlockInReach(c) ==
    IF anchors[c] # NoBlock /\ anchors[c] >= final[c] - Lookback
    THEN IF anchors[c] + 1 <= final[c] THEN anchors[c] + 1 ELSE final[c]
    ELSE final[c] - Lookback

\* Behind the snapshot's head when there is one, else near the tip.
BootBlock(c) ==
    IF anchors[c] # NoBlock
    THEN IF anchors[c] + 1 <= final[c] THEN anchors[c] + 1 ELSE final[c]
    ELSE final[c] - Lookback

\* Mutant of OpenChain: the start block is not stored.
OpenChainUnstored ==
    /\ pc = "open"
    /\ end' = final[cur]
    /\ pc' = "index"
    /\ UNCHANGED <<chainVars, dbVars, diskVars, cur, max_blk, left, anchors, auxVars>>

\* finalized_end and bootstrap_start_block of the current chain.
OpenChain ==
    /\ pc = "open"
    /\ IF start[cur] = NoBlock
       THEN StoreStart(cur, BootBlock(cur))
       ELSE UNCHANGED <<start, first>>
    /\ end' = final[cur]
    /\ pc' = "index"
    /\ UNCHANGED <<chainVars, covered, diskVars, cur, max_blk, left, anchors,
                   mishaps, recorded, jumped>>

\* Neither RPC of the chain answers: fatal for the primary chain only.
Unreachable ==
    /\ pc = "open"
    /\ \/ /\ cur = Primary
          /\ EndNight
          /\ UNCHANGED mishaps
       \/ /\ cur # Primary
          /\ NextChain
          /\ Happens("outage")
    /\ UNCHANGED <<chainVars, dbVars, diskVars, first, recorded, jumped>>

\* run up to the final block: the gaps in ascending order.
IndexAll ==
    /\ pc = "index"
    /\ covered' = [covered EXCEPT ![cur] = @ \cup (start[cur]..end)]
    /\ IF cur = Primary
       THEN /\ pc' = "check"
            /\ UNCHANGED <<cur, end, max_blk, left, anchors>>
       ELSE NextChain
    /\ UNCHANGED <<chainVars, start, diskVars, auxVars>>

\* run ends with an error at some block: fatal for the primary chain only.
IndexSome ==
    /\ pc = "index"
    /\ \E b \in Block :
          /\ b < end
          /\ covered' = [covered EXCEPT ![cur] = @ \cup (start[cur]..b)]
    /\ IF cur = Primary THEN EndNight ELSE NextChain
    /\ UNCHANGED <<chainVars, start, diskVars, auxVars>>

\* max_blk = store.stats(CHAIN)["max_block"].
ReadMax ==
    /\ pc = "check"
    /\ max_blk' = Highest(Rows(Primary))
    /\ pc' = "gaps"
    /\ UNCHANGED <<chainVars, dbVars, diskVars, cur, end, left, anchors, auxVars>>

\* Mutant of CheckGaps: a hole of the primary chain is a warning too.
CheckGapsWarn ==
    /\ pc = "gaps"
    /\ NextChain
    /\ UNCHANGED <<chainVars, dbVars, diskVars, auxVars>>

\* The hard gap check: abort over a hole of the primary chain up to max_blk.
CheckGaps ==
    /\ pc = "gaps"
    /\ IF Gap THEN EndNight ELSE NextChain
    /\ UNCHANGED <<chainVars, dbVars, diskVars, auxVars>>

\* write_seller_snapshot: the aggregates, unless the day has them.
WriteSellers ==
    /\ pc = "write"
    /\ IF taken
       THEN /\ EndNight
            /\ UNCHANGED <<taken, archived>>
       ELSE /\ taken' = TRUE
            /\ archived' = [c \in Chain |-> archived[c] \cup Rows(c)]
            /\ pc' = "meta"
            /\ UNCHANGED <<cur, end, max_blk, left, anchors>>
    /\ UNCHANGED <<chainVars, dbVars, heads, auxVars>>

\* write_seller_snapshot: snapshot_meta.json with stats of every chain.
WriteMeta ==
    /\ pc = "meta"
    /\ heads' = [c \in Chain |-> Highest(Rows(c))]
    /\ recorded' = [c \in Chain |->
                       IF heads'[c] = NoBlock THEN recorded[c]
                       ELSE Highest({heads'[c], recorded[c]} \ {NoBlock})]
    /\ EndNight
    /\ UNCHANGED <<chainVars, dbVars, taken, archived, mishaps, first, jumped>>

\* The process is killed while it writes the aggregates: the day has a file,
\* and the file counts nothing.
TearSellers ==
    /\ pc = "write"
    /\ ~taken
    /\ taken' = TRUE
    /\ EndNight
    /\ UNCHANGED <<chainVars, dbVars, archived, heads, auxVars>>

\* The process is killed; what it wrote stays.
Die ==
    /\ pc # "idle"
    /\ EndNight
    /\ UNCHANGED <<chainVars, dbVars, diskVars, auxVars>>

\* The process is killed while it writes snapshot_meta.json, which the next
\* run cannot read: last_snapshot_chain_heads returns nothing.
TearMeta ==
    /\ pc = "meta"
    /\ Happens("torn")
    /\ heads' = NoHeads
    /\ EndNight
    /\ UNCHANGED <<chainVars, dbVars, taken, archived, first, recorded, jumped>>

Next ==
    \/ NewDay \/ Wipe
    \/ \E c \in Chain : Finalize(c) \/ OperatorOpens(c) \/ Backfill(c)
    \/ StartNight \/ OpenChain \/ IndexAll \/ ReadMax \/ CheckGaps
    \/ WriteSellers \/ WriteMeta \/ Unreachable \/ IndexSome \/ Die \/ TearSellers \/ TearMeta

Spec == Init /\ [][Next]_vars

-----------------------------------------------------------------------------
\* "If the working DB is wiped ... a fresh bootstrap must RESUME from the last
\* snapshot head" (tests/test_recovery.py:3): however often the database is
\* opened anew, no chain starts above the block behind the highest head that any
\* snapshot recorded for it, unless it starts where it always did.
ResumesAtHead ==
    \A c \in Chain :
        start[c] # NoBlock /\ recorded[c] # NoBlock =>
            start[c] <= recorded[c] + 1 \/ start[c] = first[c]

\* Once a snapshot has recorded a head of a chain, recovery leaves "no silent
\* gap" (daily_snapshot.py:301): every settlement below the database's start
\* block is in the snapshots, back to the start block that the chain's first
\* head came from.  Excepted are settlements of the primary chain that a backfill
\* passed behind a night's reading of max_blk: see NeverOverAnyGap.
NothingLost ==
    \A c \in Chain :
        start[c] # NoBlock /\ recorded[c] # NoBlock =>
            \A b \in busy[c] : first[c] <= b /\ b < start[c] =>
                b \in archived[c] \/ (c = Primary /\ b \in jumped)

\* What a snapshot may miss: it "HALTS LOUDLY if there is any gap below the
\* frontier" (daily_snapshot.py:5), so every settlement of the primary chain below
\* one of its rows is counted, whatever operators backfill and whenever, unless it
\* is above the block that this night's check went up to, and a backfill that came
\* in behind the check passed it.
NeverOverGap ==
    [][archived' # archived =>
          \A b \in busy[Primary] :
              start[Primary] <= b /\ (\E r \in Rows(Primary) : b <= r)
                  => b \in archived'[Primary] \/ (b \in jumped /\ Unseen(b))]_vars

\* What daily_snapshot.py:5 promises without that exception.  The code does not
\* keep it: no lock stands between the check (1348-1358) and the snapshot (1396).
NeverOverAnyGap ==
    [][archived' # archived =>
          \A b \in busy[Primary] :
              start[Primary] <= b /\ (\E r \in Rows(Primary) : b <= r)
                  => b \in archived'[Primary]]_vars

\* What daily_snapshot.py:301 promises without it: such a snapshot's head is above
\* the hole, and a database that is lost then resumes above it.
NothingEverLost ==
    \A c \in Chain :
        start[c] # NoBlock /\ recorded[c] # NoBlock =>
            \A b \in busy[c] : first[c] <= b /\ b < start[c] => b \in archived[c]

-----------------------------------------------------------------------------
(***************************************************************************)
(* Why the three hold.                                                     *)
(***************************************************************************)
\* What the gap check has found: the primary chain has every settlement up to max_blk.
Whole ==
    \A b \in busy[Primary] : start[Primary] <= b /\ ~Unseen(b) => b \in covered[Primary]

\* A row that the gap check did not look at came with a backfill.
Accounted ==
    \A b \in busy[Primary] :
        Unseen(b) /\ (\E r \in Rows(Primary) : b <= r) => b \in jumped

\* Behind the gap check the primary chain stays whole up to max_blk to the end of
\* the night, and nothing is above max_blk unaccounted for.
GapChecked ==
    /\ Primary \notin left
    /\ pc = "idle" => left = {}
    /\ pc \in {"check", "gaps", "write", "meta"} => cur = Primary
    /\ pc \in {"write", "meta"} => left = {}
    /\ pc = "check" \/ MaxRead => start[Primary] # NoBlock
    /\ MaxRead => Accounted
    /\ MaxRead /\ pc # "gaps" => Whole

\* NothingLost and ResumesAtHead are promised for deployments in which at most one
\* mishap happens, and operators leave the additive chains alone.
OneMishap == MaxMishaps <= 1 /\ Backfilled \subseteq {Primary}

\* The one mishap, and what a night without an outage has opened.
Opened ==
    /\ \A k, l \in mishaps : k = l
    /\ "outage" \notin mishaps /\ pc # "idle" =>
          \A c \in Chain \ (left \cup {cur}) : start[c] # NoBlock

\* The settlement at block b is in the snapshots, or was passed by a backfill.
Kept(c, b) == b \in archived[c] \/ (c = Primary /\ b \in jumped)

\* An additive chain is covered from its start block on, and the snapshot that is
\* under way counts every row; of the primary chain, every row from the start block
\* on that no backfill brought behind the gap check.
Contiguous ==
    /\ \A c \in Chain \ {Primary} :
          \A a \in covered[c], b \in Block : start[c] <= b /\ b <= a => b \in covered[c]
    /\ pc = "meta" =>
          \A c \in Chain : \A b \in Rows(c) : start[c] <= b => Kept(c, b)

\* Before a database is lost, a chain with a recorded head is where it always was,
\* and the head is the newest snapshot's and that of a row.
HeadsTrue ==
    /\ "wipe" \notin mishaps =>
          \A c \in Chain :
             /\ start[c] = NoBlock => recorded[c] = NoBlock
             /\ start[c] # NoBlock => start[c] = first[c]
             /\ recorded[c] # NoBlock => recorded[c] \in Rows(c)
             /\ "torn" \notin mishaps => heads[c] = recorded[c]
    /\ \A c \in Chain : start[c] # NoBlock /\ recorded[c] = NoBlock => start[c] = first[c]
    /\ "wipe" \in mishaps => \A c \in Chain : start[c] = NoBlock => heads[c] = recorded[c]
    /\ pc # "idle" => anchors = heads

\* Up to the head that a chain resumes behind, the snapshots have everything that
\* no backfill passed.
Archived ==
    \A c \in Chain :
        recorded[c] # NoBlock /\ ("wipe" \notin mishaps \/ start[c] = NoBlock) =>
            \A b \in busy[c] : first[c] <= b /\ b <= recorded[c] => Kept(c, b)

NightInv ==
    TypeOK /\ GapChecked /\ Opened /\ Contiguous /\ HeadsTrue /\ Archived
        /\ ResumesAtHead /\ NothingLost
=============================================================================
