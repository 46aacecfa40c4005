------------------------------ MODULE MCAlgorithms ------------------------------
(* Algorithms for TLC: the inputs, small but past every branch.             *)
EXTENDS Algorithms

SeqsUpTo(S, n) == UNION {[1 .. k -> S] : k \in 0 .. n}

-----------------------------------------------------------------------------
(* Transfers, newest first.  No exchange writes an EVM address in a way that *)
(* folding changes.                                                          *)

Outside == [cex |-> FALSE, lower |-> TRUE]
Folded == [cex |-> TRUE, lower |-> TRUE]
Mixed == [cex |-> TRUE, lower |-> FALSE]

Age(x) == CASE x.at = "current" -> 0 [] x.at = "target" -> 1 [] OTHER -> 2

Transfers(addresses) ==
  {x \in [from : addresses, to : addresses, at : {"current", "target", "earlier"},
          timed : BOOLEAN, usd : {MinUsd, MinUsd + 1},
          contract : {"BTC", "ETH", "none"}, name : {"BTC", "none"}] :
     /\ x.timed \/ x.at = "target"
     /\ x.contract = "BTC" => x.name = "BTC"}

Jobs2(network, transfers, n) ==
  [network : {network}, symbol : {"BTC"},
   transfers : {s \in SeqsUpTo(transfers, n) :
                  \A i, j \in DOMAIN s : i < j => Age(s[i]) <= Age(s[j])},
   answered : SUBSET Directions]

EvmJobs == Jobs2("ethereum", Transfers({Outside, Folded}), 2)
SolanaJobs == Jobs2("solana", Transfers({Outside, Folded, Mixed}), 1)

-----------------------------------------------------------------------------
(* The other functions.                                                      *)

Tables ==
  {SetToSortSeq({[bucket |-> b, label |-> f[b]] : b \in {c \in DOMAIN f : f[c] # 2}},
                LAMBDA x, y : x.bucket < y.bucket) : f \in [1 .. 6 -> {0, 1, 2}]}

MCWindowJobs == [rows : Tables, n : 1 .. 3]

MCCalibrationJobs ==
  {j \in [scores : {s \in SeqsUpTo({2, 4, 6, 8}, 4) : IsInjective(s)},
          labels : SeqsUpTo({0, 1}, 4)] : Len(j.scores) = Len(j.labels)}

\* An error below, above, and more than twice above its threshold; the last
\* threshold is rounded away.
Errors == {<<82, 71>>, <<82, 83>>, <<82, 131>>, <<82, 251>>, <<3, 12>>}

MCHealthJobs ==
  {[market |-> [imbalance |-> i, news |-> n, tweets |-> t, flow |-> f, price |-> p,
                trade |-> r, threshold |-> e[1], mse |-> e[2]]] :
     i \in {-10, 0, 9}, n \in {-10, -2, -1, 0, 1, 9}, t \in {-9, 0, 3}, f \in {-9, 0, 10},
     p \in -1 .. 1, r \in -1 .. 1, e \in Errors}

MCCandleJobs ==
  [trades : SeqsUpTo([price : 1 .. 3, qty : {1, 2}, time : 1 .. 3, maker : {TRUE}]
                       \union [price : {2}, qty : {1, 2}, time : 1 .. 3, maker : {FALSE}], 3)]

MCNewsJobs == [scores : SeqsUpTo({-10, -3, -2, 0, 2, 3}, 4)]

MCWeightJobs == [items : SeqsUpTo([score : {-10, 0, 7}, weight : {-1, 0, 1, 3, 5}], 3)]

None == {}
=============================================================================
