------------------------- MODULE MCCreateTransaction -------------------------
(***************************************************************************)
(* btc, hc and btm: wallets of up to five or six outputs, of which more    *)
(* than three are tidied up with at least three inputs.  The reserve of    *)
(* btc and hc pays for two or three inputs, so that some requests need     *)
(* more than it; the node of btm may ask for more than its reserve.  usdt: *)
(* wallets of up to four outputs, two amounts of which are below the       *)
(* reserve; it pays for two inputs, with the payload.                      *)
(***************************************************************************)
EXTENDS CreateTransaction

CONSTANTS p, q, self

MCPayee == {p, q}

MCConfig == [
    btc |-> [coin |-> {1, 4, 9, 13, 30}, maxCoins |-> 5, amount |-> {3, 8}, fee |-> 6,
             perFee |-> 2, vinSize |-> 9, voutSize |-> 1, unit |-> 10, many |-> 3,
             atLeast |-> 3, dust |-> 1],
    hc |->  [coin |-> {1, 4, 9, 13, 30}, maxCoins |-> 5, amount |-> {1, 8}, fee |-> 6,
             perFee |-> 3, vinSize |-> 7, voutSize |-> 1, unit |-> 10, many |-> 3,
             atLeast |-> 3, dust |-> 1],
    btm |-> [coin |-> {1, 11, 15, 40}, maxCoins |-> 6, amount |-> {3, 15}, fee |-> 25,
             perFee |-> 2, vinSize |-> 9, voutSize |-> 1, unit |-> 10, many |-> 3,
             atLeast |-> 3, dust |-> 1, maxInputs |-> 4, estimates |-> {10, 20, 30}],
    usdt |-> [coin |-> {1, 2, 7, 10, 40}, maxCoins |-> 4, amount |-> {3, 5}, fee |-> 10,
              perFee |-> 3, vinSize |-> 6, voutSize |-> 1, unit |-> 10, payloadSize |-> 3,
              dust |-> 2]]
==============================================================================
