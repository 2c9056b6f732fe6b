----------------------------- MODULE SolanaSweep ----------------------------
(***************************************************************************)
(* The cursor-driven Solana indexer of indexer/index_solana.py.            *)
(*                                                                         *)
(* A sweep visits every facilitator relayer, the one furthest behind       *)
(* first.  For each it reads the relayer's cursor, lists the signatures    *)
(* behind it (or, without a cursor, the newest page of its history),       *)
(* fetches the transactions chunk by chunk and commits them one by one:    *)
(* the settlements of a transaction, and then, in a second database        *)
(* transaction, the cursor.  Sweeps may overlap (the nightly run and a     *)
(* manual one), run out of time, lose their API key or die at any step.    *)
(*                                                                         *)
(* Data abstraction: the finalised history is one sequence, a signature is *)
(* its position there and that position is its slot; a transaction that    *)
(* did not fail carries one settlement.                                    *)
(***************************************************************************)
EXTENDS Integers, Sequences, FiniteSets

CONSTANTS
    Relayer,       \* facilitator relayers
    Registry,      \* solana_relayers of the registry: the relayers in its order
    Sweep,         \* processes that run the indexer on this database
    MaxSlot,       \* bound: the last slot of the history
    MayFail,       \* bound: the history holds failed transactions too
    Page,          \* signatures in the newest page (1000 * bootstrap_pages)
    Chunk,         \* SOLANA_CHUNK
    NoSlot         \* no cursor, no stamp

Slot == 1..MaxSlot

ASSUME SolanaAssumption ==
    /\ Relayer # {}
    /\ Registry \in Seq(Relayer)
    /\ \A r \in Relayer : \E k \in DOMAIN Registry : Registry[k] = r
    /\ \A j, k \in DOMAIN Registry : Registry[j] = Registry[k] => j = k
    /\ MaxSlot \in Nat
    /\ MayFail \in BOOLEAN
    /\ Page \in Nat \ {0}
    /\ Chunk \in Nat \ {0}
    /\ NoSlot \notin Int

VARIABLES
    history,    \* finalised signatures: their relayer, and whether the tx failed
    rows,       \* Solana rows of table settlements, by slot
    cursor,     \* solana_cursors.last_signature
    behind,     \* pairs of relayers: the first's updated_at is older or absent
    startSlot,  \* meta solana_coverage_start_slot
    dated,      \* whether meta solana_coverage_start_date is set
    pc,         \* what each sweep does next
    queue,      \* relayers a sweep has not finished, the current one first
    last,       \* the cursor a sweep read
    todo,       \* signatures a sweep listed and has not passed
    chunk,      \* signatures of the current chunk it has not passed
    got,        \* signatures of the chunk whose transaction arrived
    worked,     \* whether the sweep has spent time on a chunk
    page,       \* first signature of the page a sweep bootstraps from
    base,       \* history variable: first slot of the page that began a cursor
    listed      \* history variable: first slot any sweep ever listed

dbVars    == <<rows, cursor, behind, startSlot, dated>>
sweepVars == <<pc, queue, last, todo, chunk, got, worked, page>>
auxVars   == <<base, listed>>
vars      == <<history, dbVars, sweepVars, auxVars>>

Steps == {"idle", "next", "list", "fetch", "rows", "cursor", "stamp", "date"}

Current(s) == Head(queue[s])
SigsOf(r) == {n \in DOMAIN history : history[n].relayer = r}
Failed(n) == history[n].failed
Least(S) == CHOOSE n \in S : \A m \in S : n <= m

\* The k oldest signatures, or the k newest, of S; all of S if it has fewer.
Oldest(S, k) == {n \in S : Cardinality({m \in S : m < n}) < k}
Newest(S, k) == {n \in S : Cardinality({m \in S : m > n}) < k}

\* x to the value v, but never down.
Raised(x, v) == IF v = NoSlot \/ (x # NoSlot /\ v < x) THEN x ELSE v

\* The order of a sweep: sorted() by updated_at is stable.
Place(r) == CHOOSE k \in DOMAIN Registry : Registry[k] = r
Before(a, b) == <<a, b>> \in behind \/ (<<b, a>> \notin behind /\ Place(a) < Place(b))

\* The relayer's updated_at becomes the newest.
Touched(r) == (behind \ ({r} \X Relayer)) \cup ((Relayer \ {r}) \X {r})

-----------------------------------------------------------------------------
\* Every variable holds a value of its kind, every slot is one of the history;
\* a sweep that visits relayers has one, between two chunks it has signatures
\* left, and inside a chunk part of that chunk.
TypeOK ==
    /\ history \in Seq([relayer : Relayer, failed : BOOLEAN])
    /\ Len(history) <= MaxSlot
    /\ rows \subseteq DOMAIN history
    /\ cursor \in [Relayer -> DOMAIN history \cup {NoSlot}]
    /\ behind \subseteq Relayer \X Relayer
    /\ startSlot \in DOMAIN history \cup {NoSlot}
    /\ dated \in BOOLEAN
    /\ pc \in [Sweep -> Steps]
    /\ queue \in [Sweep -> Seq(Relayer)]
    /\ last \in [Sweep -> DOMAIN history \cup {NoSlot}]
    /\ todo \in [Sweep -> SUBSET DOMAIN history]
    /\ chunk \in [Sweep -> SUBSET DOMAIN history]
    /\ got \in [Sweep -> SUBSET DOMAIN history]
    /\ worked \in [Sweep -> BOOLEAN]
    /\ page \in [Sweep -> DOMAIN history \cup {NoSlot}]
    /\ base \in [Relayer -> DOMAIN history \cup {NoSlot}]
    /\ listed \in [Relayer -> DOMAIN history \cup {NoSlot}]
    /\ \A s \in Sweep :
          /\ pc[s] \in {"next", "list", "fetch", "rows", "cursor"} => queue[s] # <<>>
          /\ pc[s] \in {"fetch", "rows", "cursor"} => todo[s] # {}
          /\ pc[s] \in {"rows", "cursor"} => chunk[s] # {}

Init ==
    /\ history = <<>>
    /\ rows = {}
    /\ cursor = [r \in Relayer |-> NoSlot]
    /\ behind = {}
    /\ startSlot = NoSlot
    /\ dated = FALSE
    /\ pc = [s \in Sweep |-> "idle"]
    /\ queue = [s \in Sweep |-> <<>>]
    /\ last = [s \in Sweep |-> NoSlot]
    /\ todo = [s \in Sweep |-> {}]
    /\ chunk = [s \in Sweep |-> {}]
    /\ got = [s \in Sweep |-> {}]
    /\ worked = [s \in Sweep |-> FALSE]
    /\ page = [s \in Sweep |-> NoSlot]
    /\ base = [r \in Relayer |-> NoSlot]
    /\ listed = [r \in Relayer |-> NoSlot]

-----------------------------------------------------------------------------
\* The RPC's finalised history of all relayers grows.
NewSignature ==
    /\ Len(history) < MaxSlot
    /\ \E r \in Relayer, f \in {FALSE, MayFail} :
          history' = Append(history, [relayer |-> r, failed |-> f])
    /\ UNCHANGED <<dbVars, sweepVars, auxVars>>

-----------------------------------------------------------------------------
\* Leave the current relayer: what was read for it is forgotten.
Forget(s) ==
    /\ last' = [last EXCEPT ![s] = NoSlot]
    /\ todo' = [todo EXCEPT ![s] = {}]
    /\ chunk' = [chunk EXCEPT ![s] = {}]
    /\ got' = [got EXCEPT ![s] = {}]
    /\ page' = [page EXCEPT ![s] = NoSlot]

\* On to the next relayer, or to the end of the sweep.
NextRelayer(s) ==
    /\ Forget(s)
    /\ queue' = [queue EXCEPT ![s] = Tail(@)]
    /\ pc' = [pc EXCEPT ![s] = IF Tail(queue[s]) = <<>> THEN "stamp" ELSE "next"]

\* No more relayers in this sweep.
EndSweep(s) ==
    /\ Forget(s)
    /\ queue' = [queue EXCEPT ![s] = <<>>]
    /\ pc' = [pc EXCEPT ![s] = "stamp"]

\* run: the relayer furthest behind first, the registry's order among equals.
StartSweep(s) ==
    /\ pc[s] = "idle"
    /\ \E order \in [DOMAIN Registry -> Relayer] :
          /\ \A j, k \in DOMAIN Registry : j < k => Before(order[j], order[k])
          /\ queue' = [queue EXCEPT ![s] = order]
    /\ pc' = [pc EXCEPT ![s] = "next"]
    /\ UNCHANGED <<history, dbVars, last, todo, chunk, got, worked, page, auxVars>>

\* index_relayer: get_solana_cursor.
ReadCursor(s) ==
    /\ pc[s] = "next"
    /\ last' = [last EXCEPT ![s] = cursor[Current(s)]]
    /\ pc' = [pc EXCEPT ![s] = "list"]
    /\ UNCHANGED <<history, dbVars, queue, todo, chunk, got, worked, page, auxVars>>

\* Mutant of Listing: off by one behind the cursor.
ListingPastCursor(s) ==
    IF last[s] = NoSlot
    THEN Newest(SigsOf(Current(s)), Page)
    ELSE {n \in SigsOf(Current(s)) : n > last[s] + 1}

\* The newest page for a relayer without a cursor, else what is newer than it.
Listing(s) ==
    IF last[s] = NoSlot
    THEN Newest(SigsOf(Current(s)), Page)
    ELSE {n \in SigsOf(Current(s)) : n > last[s]}

\* Mutant of List: a relayer with nothing new goes on to the chunks.
ListWithoutReturn(s) ==
    /\ pc[s] = "list"
    /\ last[s] # NoSlot \/ Listing(s) # {}
    /\ todo' = [todo EXCEPT ![s] = Listing(s)]
    /\ pc' = [pc EXCEPT ![s] = "fetch"]
    /\ UNCHANGED <<history, dbVars, queue, last, chunk, got, worked, page, auxVars>>

\* index_relayer: the signatures to work on; a relayer without any is done.
List(s) ==
    /\ pc[s] = "list"
    /\ LET r == Current(s)
           new == Listing(s)
       IN IF new = {}
          THEN /\ NextRelayer(s)
               /\ UNCHANGED listed
          ELSE /\ todo' = [todo EXCEPT ![s] = new]
               /\ page' = [page EXCEPT ![s] = IF last[s] = NoSlot THEN Least(new)
                                                                  ELSE NoSlot]
               /\ listed' = [listed EXCEPT ![r] = IF @ = NoSlot THEN Least(new)
                                                                ELSE @]
               /\ pc' = [pc EXCEPT ![s] = "fetch"]
               /\ UNCHANGED <<queue, last, chunk, got>>
    /\ UNCHANGED <<history, dbVars, worked, base>>

\* Mutant of Fetch: the cursor is written in front of the first rows.
FetchCursorFirst(s) ==
    /\ pc[s] = "fetch"
    /\ LET next == Oldest(todo[s], Chunk)
       IN /\ chunk' = [chunk EXCEPT ![s] = next]
          /\ \E avail \in SUBSET {n \in next : ~Failed(n)} :
                got' = [got EXCEPT ![s] = avail]
    /\ worked' = [worked EXCEPT ![s] = TRUE]
    /\ pc' = [pc EXCEPT ![s] = "cursor"]
    /\ UNCHANGED <<history, dbVars, queue, last, todo, page, auxVars>>

\* index_relayer: the transactions of the next chunk, concurrently; those the
\* RPC does not have yet, or fails on, are missing from got.
Fetch(s) ==
    /\ pc[s] = "fetch"
    /\ LET next == Oldest(todo[s], Chunk)
       IN /\ chunk' = [chunk EXCEPT ![s] = next]
          /\ \E avail \in SUBSET {n \in next : ~Failed(n)} :
                got' = [got EXCEPT ![s] = avail]
    /\ worked' = [worked EXCEPT ![s] = TRUE]
    /\ pc' = [pc EXCEPT ![s] = "rows"]
    /\ UNCHANGED <<history, dbVars, queue, last, todo, page, auxVars>>

\* commit_solana_batch: the rows of the oldest transaction of the chunk.
WriteRows(s) ==
    /\ pc[s] = "rows"
    /\ LET n == Least(chunk[s])
       IN /\ ~Failed(n)
          /\ n \in got[s]
          /\ rows' = rows \cup {n}
    /\ pc' = [pc EXCEPT ![s] = "cursor"]
    /\ UNCHANGED <<history, cursor, behind, startSlot, dated, queue, last, todo, chunk,
                   got, worked, page, auxVars>>

\* Stop at the first transaction that is not available.
StopAtMissing(s) ==
    /\ pc[s] = "rows"
    /\ LET n == Least(chunk[s]) IN ~Failed(n) /\ n \notin got[s]
    /\ NextRelayer(s)
    /\ UNCHANGED <<history, dbVars, worked, auxVars>>

\* Mutant of WriteCursor: a transaction that is not available is passed over.
WriteCursorPastMissing(s) ==
    LET r == Current(s)
        n == Least(chunk[s])
    IN /\ pc[s] = "cursor" \/ (pc[s] = "rows" /\ n \notin got[s])
       /\ cursor' = [cursor EXCEPT ![r] = n]
       /\ behind' = Touched(r)
       /\ base' = [base EXCEPT ![r] = Raised(@, page[s])]
       /\ \/ /\ todo[s] # {n}
             /\ todo' = [todo EXCEPT ![s] = @ \ {n}]
             /\ chunk' = [chunk EXCEPT ![s] = @ \ {n}]
             /\ got' = [got EXCEPT ![s] = @ \ {n}]
             /\ pc' = [pc EXCEPT ![s] = IF chunk[s] = {n} THEN "fetch" ELSE "rows"]
             /\ UNCHANGED <<queue, last, page>>
          \/ /\ chunk[s] = {n}
             /\ NextRelayer(s)
       /\ UNCHANGED <<history, rows, startSlot, dated, worked, listed>>

\* set_solana_cursor, a database transaction of its own.  A failed signature
\* gets here without rows.  Between two chunks the relayer's budget may be up.
WriteCursor(s) ==
    LET r == Current(s)
        n == Least(chunk[s])
    IN /\ pc[s] = "cursor" \/ (pc[s] = "rows" /\ Failed(n))
       /\ cursor' = [cursor EXCEPT ![r] = n]
       /\ behind' = Touched(r)
       /\ base' = [base EXCEPT ![r] = Raised(@, page[s])]
       /\ \/ /\ todo[s] # {n}
             /\ todo' = [todo EXCEPT ![s] = @ \ {n}]
             /\ chunk' = [chunk EXCEPT ![s] = @ \ {n}]
             /\ got' = [got EXCEPT ![s] = @ \ {n}]
             /\ pc' = [pc EXCEPT ![s] = IF chunk[s] = {n} THEN "fetch" ELSE "rows"]
             /\ UNCHANGED <<queue, last, page>>
          \/ /\ chunk[s] = {n}
             /\ NextRelayer(s)
       /\ UNCHANGED <<history, rows, startSlot, dated, worked, listed>>

-----------------------------------------------------------------------------
\* Fetching transactions is what takes time: behind a chunk the sweep's time
\* may be up.
OutOfTime(s) ==
    /\ pc[s] \in {"next", "fetch"}
    /\ worked[s]
    /\ EndSweep(s)
    /\ UNCHANGED <<history, dbVars, worked, auxVars>>

\* SolAuthError: one key serves every relayer, so the sweep is over.
KeyRejected(s) ==
    /\ pc[s] \in {"list", "fetch"}
    /\ EndSweep(s)
    /\ UNCHANGED <<history, dbVars, worked, auxVars>>

\* Any other exception: the cursor is preserved, on to the next relayer.
RelayerFailed(s) ==
    /\ pc[s] \in {"next", "list", "rows", "cursor"}
    /\ NextRelayer(s)
    /\ UNCHANGED <<history, dbVars, worked, auxVars>>

\* _stamp_coverage_start: once, when there are Solana rows, the earliest slot.
StampSlot(s) ==
    /\ pc[s] = "stamp"
    /\ IF startSlot = NoSlot /\ rows # {}
       THEN /\ startSlot' = Least(rows)
            /\ pc' = [pc EXCEPT ![s] = "date"]
            /\ UNCHANGED worked
       ELSE /\ pc' = [pc EXCEPT ![s] = "idle"]
            /\ worked' = [worked EXCEPT ![s] = FALSE]
            /\ UNCHANGED startSlot
    /\ UNCHANGED <<history, rows, cursor, behind, dated, queue, last, todo,
                   chunk, got, page, auxVars>>

\* _stamp_coverage_start: the date, in a database transaction of its own.
StampDate(s) ==
    /\ pc[s] = "date"
    /\ dated' = TRUE
    /\ pc' = [pc EXCEPT ![s] = "idle"]
    /\ worked' = [worked EXCEPT ![s] = FALSE]
    /\ UNCHANGED <<history, rows, cursor, behind, startSlot, queue, last, todo,
                   chunk, got, page, auxVars>>

\* The process is killed.
Die(s) ==
    /\ pc[s] # "idle"
    /\ Forget(s)
    /\ queue' = [queue EXCEPT ![s] = <<>>]
    /\ pc' = [pc EXCEPT ![s] = "idle"]
    /\ worked' = [worked EXCEPT ![s] = FALSE]
    /\ UNCHANGED <<history, dbVars, auxVars>>

SweepStep(s) ==
    \/ StartSweep(s) \/ ReadCursor(s) \/ List(s) \/ Fetch(s)
    \/ WriteRows(s) \/ StopAtMissing(s) \/ WriteCursor(s)
    \/ StampSlot(s) \/ StampDate(s)

Trouble(s) == OutOfTime(s) \/ KeyRejected(s) \/ RelayerFailed(s) \/ Die(s)

Next == NewSignature \/ \E s \in Sweep : SweepStep(s) \/ Trouble(s)

Spec == Init /\ [][Next]_vars

\* A transaction that a sweep asks for can be had.
FetchAll(s) == Fetch(s) /\ got'[s] = {n \in chunk'[s] : ~Failed(n)}

(***************************************************************************)
(* The timer starts a sweep every night, and the steps of a sweep follow   *)
(* each other.  A relayer that is asked again and again does not meet an   *)
(* error, a rejected key, a death or a missing transaction every time.     *)
(* Nothing is assumed of the time a sweep has once it has worked on a      *)
(* chunk: the rotation must give every relayer its turn.                   *)
(***************************************************************************)
Fairness ==
    \A s \in Sweep :
        /\ WF_vars(SweepStep(s))
        /\ \A r \in Relayer :
              /\ SF_vars(~worked[s] /\ ReadCursor(s) /\ Current(s) = r)
              /\ SF_vars(List(s) /\ Current(s) = r)
              /\ SF_vars(~worked[s] /\ FetchAll(s) /\ Current(s) = r)
              /\ SF_vars(WriteRows(s) /\ Current(s) = r)
              /\ SF_vars(WriteCursor(s) /\ Current(s) = r)

FairSpec == Spec /\ Fairness

-----------------------------------------------------------------------------
\* The signatures of r between two slots whose settlement is due.
Due(r, from, to) == {n \in SigsOf(r) : from <= n /\ n <= to /\ ~Failed(n)}

\* Behind a relayer's cursor nothing is missing, back to the newest page it
\* was ever bootstrapped from: a sweep that stops, dies or races another one
\* re-does work but never skips any ("so a crash re-does the batch rather than
\* skipping it", index_solana.py:5).
NoSkip ==
    \A r \in Relayer :
        cursor[r] # NoSlot => Due(r, base[r], cursor[r]) \subseteq rows

\* The slot from which a sweep vouches for what precedes its signatures.
From(s) == Raised(base[Current(s)], page[s])

\* What a sweep holds between two of its steps: the cursor it read has nothing
\* missing behind it; below each signature it still has to pass, everything
\* due is indexed or still on its list; the chunk is the oldest part of that
\* list; and a cursor is written behind its rows.
SweepExact(s) ==
    /\ pc[s] \in {"list", "fetch", "rows", "cursor"} /\ last[s] # NoSlot =>
          /\ base[Current(s)] # NoSlot
          /\ Due(Current(s), base[Current(s)], last[s]) \subseteq rows
    /\ pc[s] \in {"fetch", "rows", "cursor"} =>
          /\ todo[s] \subseteq SigsOf(Current(s))
          /\ From(s) # NoSlot
          /\ \A m \in todo[s] : Due(Current(s), From(s), m) \subseteq rows \cup todo[s]
    /\ pc[s] \in {"rows", "cursor"} =>
          /\ chunk[s] \subseteq todo[s]
          /\ \A n \in chunk[s], m \in todo[s] \ chunk[s] : n < m
    /\ pc[s] = "cursor" => Least(chunk[s]) \in rows

\* The inductive invariant behind NoSkip.
SweepInv ==
    /\ \A r \in Relayer : cursor[r] # NoSlot => base[r] # NoSlot
    /\ NoSkip
    /\ \A s \in Sweep : SweepExact(s)

\* A signature behind the cursor is indexed in the end, although every sweep
\* may run out of time after its first chunk, provided no other sweep still
\* takes the relayer for a fresh one: "no relayer is perpetually starved"
\* (index_solana.py:128).
EventuallyIndexed ==
    \A n \in Slot :
        (/\ n \in DOMAIN history
         /\ ~Failed(n)
         /\ LET r == history[n].relayer
            IN /\ cursor[r] # NoSlot
               /\ cursor[r] < n
               /\ \A s \in Sweep : pc[s] \in {"list", "fetch", "rows", "cursor"}
                                      /\ Current(s) = r => last[s] # NoSlot)
            ~> (n \in rows)

\* Once a run has listed a signature, the cursor never passes it without its
\* settlement: "stop at the first unavailable tx so we resume from exactly
\* there next run (no gap, no skip)" (index_solana.py:106).
ResumesWhereItStopped ==
    \A r \in Relayer :
        cursor[r] # NoSlot => Due(r, listed[r], cursor[r]) \subseteq rows

\* The published coverage note: "Solana slots before start_slot are NOT
\* indexed" (daily_snapshot.py:126).
StartSlotIsEarliest ==
    startSlot # NoSlot => \A n \in rows : startSlot <= n
=============================================================================
