-------------------------- MODULE MCSettlementIndex -------------------------
(***************************************************************************)
(* Small instances of SettlementIndex.                                     *)
(***************************************************************************)
EXTENDS SettlementIndex, TLC

CONSTANTS r1, r2, t1, t2

OneRunner == {r1}
TwoRunners == {r1, r2}
OneTx == {t1}
TwoTx == {t1, t2}

\* Runners and transactions are interchangeable.
Symmetry == Permutations(Runner) \cup Permutations(Tx)

FinalityTag == {"finalized"}
FallbackTip == {"confirmations"}
EitherTip == {"finalized", "confirmations"}
MinusOne == -1
MinusTwo == -2
=============================================================================
