----------------------------- MODULE BalanceApi -----------------------------
(***************************************************************************)
(* Zchain.Address.GetBalance of service/sim_api.py.  The collectors count  *)
(* in units (btm, eth and the tokens) or in coins (the BTC family), and a  *)
(* client is told a decimal text; usdt passes on the text of its node.  A  *)
(* source that does not answer makes the balance "0".                      *)
(***************************************************************************)
EXTENDS Amounts

CONSTANTS
    Decimals      \* "precison" of the coins and tokens

VARIABLES
    asked,        \* the kind of coin a call is about, or "none"
    precision,    \* its decimals
    balance,      \* what the source has counted, in units
    told          \* the answer

Kinds == {"btc", "btm", "eth", "token", "unlisted"}
NoText == [whole |-> << >>, frac |-> << >>]
Nothing == [whole |-> <<0>>, frac |-> << >>]

\* The two ways to write an amount.
TextOf(kind, n, p) ==
    IF kind \in {"btc", "btm"} THEN FixedText(n, p) ELSE ShortText(n, p)

BalanceInit == asked = "none" /\ balance = 0 /\ precision \in Decimals /\ told = Nothing

\* GetBalance of an address is called; for a token that is not listed it is an error.
GetBalance(kind) ==
    /\ asked = "none" /\ asked' = IF kind = "unlisted" THEN "none" ELSE kind
    /\ precision' \in Decimals
    /\ told' = IF kind = "unlisted" THEN NoText ELSE Nothing
    /\ balance' = 0

\* The source answers, or does not.
Answer ==
    /\ asked # "none" /\ asked' = "none"
    /\ \/ \E n \in 0..MaxUnits : balance' = n /\ told' = TextOf(asked, n, precision)
       \/ told' = Nothing /\ UNCHANGED balance
    /\ UNCHANGED precision

BalanceNext == Answer \/ \E kind \in Kinds : GetBalance(kind)

\* The text is worth the units that the source counted, whatever digits they have:
\* fewer than the coin has decimals, just as many, or zeros at either end.
BalanceTold == told # NoText => UnitsOf(told, precision) = balance
=============================================================================
