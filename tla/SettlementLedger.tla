-------------------------- MODULE SettlementLedger --------------------------
(***************************************************************************)
(* What the header of indexer/storage.py promises of the ledger, without   *)
(* runs, ranges, subranges or scans: the chain settles transfers for good, *)
(* block after block, and the ledger records sets of final blocks, each    *)
(* with exactly the settlements it carries.                                *)
(***************************************************************************)
EXTENDS Integers

CONSTANTS
    Row,        \* settlements, records with a field block
    Block       \* block numbers

VARIABLES
    final,      \* newest block whose content can no longer change
    settled,    \* the settlements of the final blocks
    recorded,   \* the blocks the ledger vouches for
    ledger      \* the settlements the ledger holds

ledgerVars == <<final, settled, recorded, ledger>>

LedgerInit ==
    /\ final \in Block
    /\ settled \subseteq {x \in Row : x.block <= final}
    /\ recorded = {}
    /\ ledger = {}

\* Newer blocks become final; what was settled stays settled.
Settle ==
    /\ final' \in {b \in Block : b >= final}
    /\ \E new \in SUBSET {x \in Row : final < x.block /\ x.block <= final'} :
          settled' = settled \cup new
    /\ UNCHANGED <<recorded, ledger>>

\* Final blocks are recorded, with all of their settlements and no others.
Record ==
    /\ \E B \in SUBSET {b \in Block : b <= final} :
          /\ recorded' = recorded \cup B
          /\ ledger' = ledger \cup {x \in settled : x.block \in B}
    /\ UNCHANGED <<final, settled>>

LedgerNext == Settle \/ Record

LedgerSpec == LedgerInit /\ [][LedgerNext]_ledgerVars
=============================================================================
