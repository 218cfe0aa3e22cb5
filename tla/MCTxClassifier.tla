---------------------------- MODULE MCTxClassifier ----------------------------
(***************************************************************************)
(* All transactions of at most two inputs and three outputs.  Of the BTC   *)
(* family they are over two watched addresses, another one, a witness      *)
(* address or a second plain one, and outputs without an address; of BTM   *)
(* they also move an asset that is not the coin, or none.  Amounts have    *)
(* two decimals: "0.01", "1.20" and what they add to.                      *)
(***************************************************************************)
EXTENDS TxClassifier

CONSTANTS w1, w2, x, y, yhex

MCAddr    == {w1, w2, x, y}
MCWatched == {w1, w2}
MCWitness == {y}
MCHex     == [a \in MCWitness |-> yhex]

UpTo(n, S) == UNION {[1..k -> S] : k \in 0..n}

BtcInputs  == [addr : MCAddr \cup {NoAddr}, kind : {"coin"}] \cup [addr : {NoAddr}, kind : {"void"}]
BtcOutputs == [addr : MCAddr, kind : {"coin"}, value : {1, 120}]
                \cup [addr : {NoAddr}, kind : {"coin"}, value : {1}]

BtmInputs  == [addr : {w1, w2, y}, kind : {"coin"}]
                \cup {[addr |-> w1, kind |-> "another"], [addr |-> NoAddr, kind |-> "void"]}
BtmOutputs == [addr : {w1, y}, kind : {"coin"}, value : {1, 120}]
                \cup [addr : {w2}, kind : {"coin"}, value : {1}]
                \cup [addr : {w1, x}, kind : {"another", "void"}, value : {1}]
                \cup [addr : {NoAddr}, kind : {"coin"}, value : {1}]

MCTx == [coin : {"btc"}, vin : UpTo(2, BtcInputs), vout : UpTo(3, BtcOutputs)]
          \cup [coin : {"btm"}, vin : UpTo(2, BtmInputs), vout : UpTo(3, BtmOutputs)]
===============================================================================
