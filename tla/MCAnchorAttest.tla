--------------------------- MODULE MCAnchorAttest ---------------------------
(***************************************************************************)
(* Small instances of AnchorAttest.                                        *)
(***************************************************************************)
EXTENDS AnchorAttest

CONSTANTS sellers, meta

TwoFiles == {sellers, meta}
=============================================================================
