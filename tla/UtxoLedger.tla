----------------------------- MODULE UtxoLedger -----------------------------
(***************************************************************************)
(* What the UTXO collector promises to whoever reads its address index at  *)
(* rest or restarts from it: a height, and exactly the outputs that are    *)
(* unspent at that height; the height only moves forward.                  *)
(***************************************************************************)
EXTENDS Chain

VARIABLES committed,   \* the height the index answers for
          unspent      \* the outputs the index lists

ledgerVars == <<committed, unspent>>

LedgerInit == committed = 0 /\ unspent = {}

\* A flush makes one or more whole blocks visible at once.
Commit(h) ==
    /\ h > committed
    /\ committed' = h
    /\ unspent' = UnspentAt(h)

LedgerNext == \E h \in Heights : Commit(h)

LedgerSpec == LedgerInit /\ [][LedgerNext]_ledgerVars
=============================================================================
