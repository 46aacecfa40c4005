-------------------------------- MODULE FlowRows --------------------------------
(***************************************************************************)
(* How one poll of the CEX flows turns transfers into the row of its target*)
(* bucket, for one network and one symbol: two queries by direction, each  *)
(* answered with a limited number of transfers, newest first.  The ten     *)
(* minutes that a query reaches back cover the target bucket.              *)
(*                                                                         *)
(* A transfer has its sender and receiver, the bucket it happened in,      *)
(* whether its block time can be read, its value, and the symbols that its *)
(* contract and its name stand for, "none" when the tables do not list it. *)
(***************************************************************************)
EXTENDS Integers, Sequences, SequencesExt

CONSTANTS
  FlowLimit,  \* transfers in an answer, 500
  MinUsd      \* the least value that is counted, 100

ASSUME FlowAssumption == FlowLimit \in Nat /\ MinUsd \in Nat

Directions == {"inflow", "outflow"}

\* An address is that of an exchange (cex) or not; lower is whether it stays the
\* same when it is folded to lower case, which addresses of Solana do not.
Address == [cex : BOOLEAN, lower : BOOLEAN]

Transfer == [from : Address, to : Address, at : STRING, timed : BOOLEAN, usd : Nat,
             contract : STRING, name : STRING]

Exchange(x, direction) == IF direction = "inflow" THEN x.to ELSE x.from
Other(x, direction) == IF direction = "inflow" THEN x.from ELSE x.to

SumOf(s) == FoldLeft(LAMBDA sum, x : sum + x, 0, s)

\* The value of the transfers at some positions.
Total(xs, positions) ==
  SumOf([i \in DOMAIN xs |-> IF i \in positions THEN xs[i].usd ELSE 0])

\* _build_evm_cex_query, _build_solana_cex_query.
Matches(x, direction) == x.usd > MinUsd /\ Exchange(x, direction).cex

Matching(xs, direction) == {i \in DOMAIN xs : Matches(xs[i], direction)}

\* The newest ones come first, up to the limit.
Answer(xs, direction) ==
  LET found == Matching(xs, direction)
  IN {i \in found : Cardinality({j \in found : j <= i}) <= FlowLimit}

\* _resolve_symbol
Resolve(x) == IF x.contract # "none" THEN x.contract ELSE x.name

\* _parse_block_time: a time that cannot be read is taken to be this moment.
BucketOf(x) == IF x.timed THEN x.at ELSE "current"

\* sender in cex_addresses: the address in lower case is looked up in a set
\* that was folded to lower case for the EVM networks only.
InCexSet(network, address) ==
  address.cex /\ (network = "solana" => address.lower)

\* Fault: what is left of other buckets in the ten minutes is not thrown away.
CountsAllBuckets(network, symbol, direction, x) ==
  x.usd >= MinUsd /\ Resolve(x) = symbol /\ ~InCexSet(network, Other(x, direction))

\* _aggregate_by_symbol, and the rows that _poll_once keeps.
Counts(network, symbol, direction, x) ==
  /\ x.usd >= MinUsd
  /\ Resolve(x) = symbol
  /\ ~InCexSet(network, Other(x, direction))
  /\ BucketOf(x) = "target"

\* A direction whose query failed counts as one without transfers.
Side(network, symbol, direction, xs, answered) ==
  {i \in Answer(xs, direction) :
     direction \in answered /\ Counts(network, symbol, direction, xs[i])}

FlowRow(network, symbol, xs, answered) ==
  LET side(direction) == Side(network, symbol, direction, xs, answered)
  IN [inflow |-> Total(xs, side("inflow")),
      outflow |-> Total(xs, side("outflow")),
      net |-> Total(xs, side("inflow")) - Total(xs, side("outflow")),
      written |-> side("inflow") # {} \/ side("outflow") # {}]

\* What the row is to say: the value that crossed between the exchanges and the
\* rest of the network in the bucket.
Flow(symbol, xs, direction) ==
  Total(xs, {i \in Matching(xs, direction) : /\ ~Other(xs[i], direction).cex
                                            /\ Resolve(xs[i]) = symbol
                                            /\ xs[i].at = "target"})
=============================================================================
