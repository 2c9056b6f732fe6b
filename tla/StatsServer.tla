------------------------------ MODULE StatsServer ------------------------------
(***************************************************************************)
(* The stats server (serving/stats_server.py) behind the publish step: a   *)
(* thread refreshes what is served from the stored blob, and keeps a copy  *)
(* on disk that a restarted process serves until it can do better.         *)
(***************************************************************************)
EXTENDS DashboardBlob

CONSTANTS
    NoData,     \* nothing to serve: 503
    MaxOutage   \* bound: refreshes that fail, and restarts

ASSUME ServerAssumption == MaxOutage \in Nat

VARIABLES
    served,    \* _state["data"]
    cache,     \* .stats_cache.json
    refresh,   \* where the refresher is: "seed", "compute" or "save"
    outages

serverVars == <<served, cache, refresh, outages>>
statsVars == <<blobVars, serverVars>>

Payloads ==
    [at : Night, rows : [BlobChain -> Row], tiers : [ToSet(Ladder) -> 0..MaxNight],
     index : BOOLEAN, stale : SUBSET Note, health : {"good", "crit"}]

StatsInit ==
    /\ BlobInit
    /\ served = NoData
    /\ cache = NoData
    /\ refresh = "seed"
    /\ outages = 0

\* Every variable holds a value of its kind.
StatsTypeOK ==
    /\ BlobTypeOK
    /\ served = NoData \/ served \in Payloads
    /\ cache = NoData \/ cache \in Payloads
    /\ refresh \in {"seed", "compute", "save"}
    /\ outages \in 0..MaxOutage

-----------------------------------------------------------------------------
\* compute: what is kept of a blob.  Of the notes those of the seller index come
\* along, being part of it; "stale_chains" of the chains does not.
Payload(b) ==
    [at |-> b.night, rows |-> b.rows, tiers |-> b.tiers, index |-> b.index,
     stale |-> {n \in b.stale : n[1] = "tier" /\ b.index}, health |-> "good"]

\* build_dashboard_metrics in the server, where nothing has been stored: all chains
\* or, within the shorter time limit, those whose queries are fast.
LiveBlob(ok) ==
    [night |-> night,
     rows |-> [c \in BlobChain |-> IF c \in ok
                  THEN [scoped |-> night, merchant |-> IF c \in Scopable THEN night ELSE 0]
                  ELSE NoRow],
     tiers |-> [c \in ToSet(Ladder) |-> IF c \in ok THEN night ELSE 0],
     index |-> TRUE,
     stale |-> ({"scoped"} \X (BlobChain \ ok) \X {FALSE})
                  \cup ({"tier"} \X (ToSet(Ladder) \ ok) \X {FALSE})]

\* refresher: the persisted copy, until there is something better.
Seed ==
    /\ refresh = "seed"
    /\ served' = cache
    /\ refresh' = "compute"
    /\ UNCHANGED <<blobVars, cache, outages>>

\* _db_metrics and compute.
Compute ==
    /\ refresh = "compute"
    /\ \/ blob # NoBlob /\ served' = Payload(blob)
       \/ blob = NoBlob /\ \E ok \in {BlobChain, BlobChain \ Scopable} : served' = Payload(LiveBlob(ok))
    /\ refresh' = "save"
    /\ UNCHANGED <<blobVars, cache, outages>>

\* Mutant of ComputeFails: the exception ends the thread.
ComputeFailsForGood ==
    /\ refresh = "compute"
    /\ outages < MaxOutage
    /\ outages' = outages + 1
    /\ refresh' = "dead"
    /\ UNCHANGED <<blobVars, served, cache>>

\* compute raises: the last good data stay, marked.
ComputeFails ==
    /\ refresh = "compute"
    /\ outages < MaxOutage
    /\ outages' = outages + 1
    /\ served' = IF served = NoData THEN NoData ELSE [served EXCEPT !.health = "crit"]
    /\ UNCHANGED <<blobVars, cache, refresh>>

\* _save_cache.
Save ==
    /\ refresh = "save"
    /\ cache' = served
    /\ refresh' = "compute"
    /\ UNCHANGED <<blobVars, served, outages>>

\* A new process.  The copy on disk is written in place: a death inside the write
\* leaves a file that cannot be read.
Restart ==
    /\ outages < MaxOutage
    /\ outages' = outages + 1
    /\ served' = NoData
    /\ cache' \in IF refresh = "save" THEN {cache, NoData} ELSE {cache}
    /\ refresh' = "seed"
    /\ UNCHANGED blobVars

Serving == Seed \/ Compute \/ ComputeFails \/ Save \/ Restart

StatsNext ==
    \/ Publishing /\ UNCHANGED serverVars
    \/ Serving

StatsSpec == StatsInit /\ [][StatsNext]_statsVars

\* The refresher is a loop that catches every exception and sleeps for a fixed time.
StatsFairSpec == StatsSpec /\ WF_statsVars(Seed \/ Compute \/ Save)

-----------------------------------------------------------------------------
(***************************************************************************)
(* Isolation of the publish step.                                          *)
(***************************************************************************)
Published == query = StoreAt /\ query' = 0 /\ ended' = "published"

\* The sections and the seller index share a fate: a section that fails leaves the
\* transaction aborted up to the seller index, and the index without it.
SectionsFailed == \E s \in Section : <<"section", s>> \in failed
Before(s, t) ==
    \E i, j \in DOMAIN Sections : i <= j /\ Sections[i] = s /\ Sections[j] = t

\* The last published row, as far as the step could read it.
OldRow(c) == IF blob = NoBlob \/ <<"prior", "">> \in failed THEN NoRow ELSE blob.rows[c]

RowIsolated(c) ==
    LET row == blob'.rows[c]
        old == OldRow(c)
    IN /\ IF <<"scoped", c>> \in failed
          THEN row.scoped = old.scoped /\ <<"scoped", c, old.scoped # 0>> \in blob'.stale
          ELSE row.scoped = night /\ \A b \in BOOLEAN : <<"scoped", c, b>> \notin blob'.stale
       /\ row.scoped # 0 /\ c \in Scopable /\ row.merchant # night =>
             /\ row.merchant = old.merchant
             /\ <<"merchant", c, row.merchant # 0>> \in blob'.stale
             /\ {<<"merchant", c>>, <<"prior", "">>} \cap failed # {}

TierIsolated(c) ==
    \/ blob'.tiers[c] = night
    \/ /\ <<"tier", c, blob'.tiers[c] # 0>> \in blob'.stale
       /\ \/ <<"tier", c>> \in failed
          \/ c = Ladder[1] /\ <<"priorTiers", "">> \in failed

SectionIsolated(s) ==
    blob'.instr[s] = 0 => \E t \in Section : Before(t, s) /\ <<"section", t>> \in failed

Isolated ==
    /\ \A c \in BlobChain : RowIsolated(c)
    /\ blob'.index \/ <<"witnessed", "">> \in failed \/ SectionsFailed
    /\ blob'.index => \A c \in ToSet(Ladder) : TierIsolated(c)
    /\ \A s \in Section : SectionIsolated(s)

\* "A failure rolls back and yields a marker for just that chain"
\* (daily_snapshot.py:1194), and a note tells which figures are old or missing
\* (:882): in a blob that is stored every figure of tonight whose own query
\* did not fail is there, an older one is noted and is the last published one, and
\* what is missing could not be carried forward either.
FailuresIsolated == [][Published => Isolated]_statsVars

\* "A metrics-precompute failure must not fail the run" (daily_snapshot.py:1088) and
\* costs figures, not the blob: a step that lives to its end stores one, unless the
\* coverage dates cannot be read or the blob itself cannot be stored.
AlwaysPublished ==
    ended = "unpublished" /\ query = 0 =>
        failed \cap {<<"since", "">>, <<"store", "">>} # {}

-----------------------------------------------------------------------------
(***************************************************************************)
(* What a publish step has put together so far, query by query.            *)
(***************************************************************************)
\* The transaction is aborted only behind a handler that does not roll back, up to the
\* next one that does.
AbortedWhere ==
    txn = "aborted" =>
        \/ PriorAt < query /\ query <= KindsAt /\ <<"prior", "">> \in failed
        \/ /\ CountsAt < query /\ query <= WitnessedAt
           /\ \E j \in DOMAIN Sections : CountsAt + j < query /\ <<"section", Sections[j]>> \in failed
        \/ query = WitnessedAt + 2 /\ <<"priorTiers", "">> \in failed

\* What has failed has had its turn.
FailedInTurn == query # 0 => \A f \in failed : \E i \in 1..(query - 1) : Program[i] = f

ScopedDone ==
    0 < query /\ query <= PriorAt =>
        /\ draft.stale = {}
        /\ \A i \in DOMAIN ChainOrder :
              LET row == draft.rows[ChainOrder[i]]
              IN /\ row.merchant = 0
                 /\ row.scoped = IF i + 1 < query /\ <<"scoped", ChainOrder[i]>> \notin failed
                                 THEN night ELSE 0

CarriedDone ==
    PriorAt < query =>
        \A c \in BlobChain :
            /\ draft.priorRows[c] = OldRow(c)
            /\ IF <<"scoped", c>> \in failed
               THEN /\ draft.rows[c].scoped = OldRow(c).scoped
                    /\ <<"scoped", c, OldRow(c).scoped # 0>> \in draft.stale
               ELSE /\ draft.rows[c].scoped = night
                    /\ \A b \in BOOLEAN : <<"scoped", c, b>> \notin draft.stale

MerchantDone ==
    PriorAt < query =>
        \A i \in DOMAIN ChainOrder :
            LET c == ChainOrder[i]
                row == draft.rows[c]
            IN IF query <= PriorAt + i
               THEN row.merchant \in {0, OldRow(c).merchant}
               ELSE row.scoped # 0 /\ c \in Scopable /\ row.merchant # night =>
                       /\ row.merchant = OldRow(c).merchant
                       /\ <<"merchant", c, row.merchant # 0>> \in draft.stale
                       /\ {<<"merchant", c>>, <<"prior", "">>} \cap failed # {}

SectionsDone ==
    \A j \in DOMAIN Sections :
        CountsAt + j < query /\ draft.instr[Sections[j]] = 0 =>
            \E t \in Section : Before(t, Sections[j]) /\ <<"section", t>> \in failed

TiersDone ==
    IF draft.index
    THEN \A j \in DOMAIN Ladder :
            WitnessedAt + 1 + j < query =>
                LET c == Ladder[j]
                IN \/ draft.tiers[c] = night
                   \/ /\ <<"tier", c, draft.tiers[c] # 0>> \in draft.stale
                      /\ \/ <<"tier", c>> \in failed
                         \/ c = Ladder[1] /\ <<"priorTiers", "">> \in failed
    ELSE <<"witnessed", "">> \in failed \/ SectionsFailed

PublishInv ==
    /\ BlobTypeOK
    /\ query = 0 => draft = EmptyDraft
    /\ AbortedWhere /\ FailedInTurn
    /\ ScopedDone /\ CarriedDone /\ MerchantDone
    /\ SectionsDone /\ TiersDone
    /\ AlwaysPublished

-----------------------------------------------------------------------------
(***************************************************************************)
(* What the public sees.                                                   *)
(***************************************************************************)
\* However often the database fails the refresher and the process restarts, what a
\* night published is served at last, or what a later one did.
EventuallyServed ==
    \A n \in Night :
        (blob # NoBlob /\ blob.night >= n) ~>
            (served # NoData /\ served.at >= n /\ served.health = "good")

\* "Every note lands in metrics["stale_chains"] so a consumer can tell which numbers
\* are old" (daily_snapshot.py:882): a served row that was not measured on the night
\* that dates the answer carries a note.
StaleShown ==
    served # NoData =>
        \A c \in BlobChain :
            served.rows[c].scoped \notin {0, served.at} =>
                <<"scoped", c, TRUE>> \in served.stale

\* "Each section isolated so one empty/missing table never blanks the rest"
\* (daily_snapshot.py:448): a section is missing only when its own query failed.
SectionsIsolated ==
    [][Published =>
        \A s \in Section : blob'.instr[s] = 0 => <<"section", s>> \in failed]_statsVars
=============================================================================
