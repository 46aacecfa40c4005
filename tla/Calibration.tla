------------------------------ MODULE Calibration ------------------------------
(***************************************************************************)
(* The threshold above which a reconstruction error is an anomaly: the best*)
(* cut of the training windows by their scores, against proxy labels.      *)
(* A score is an even number, so that one more is less than the next one,  *)
(* and no two samples have the same.                                       *)
(***************************************************************************)
EXTENDS Integers, Sequences, FiniteSetsExt

CONSTANT DefaultThreshold   \* 0.008

\* The rate of a class without members is 0: its count stays 0.
AtLeastOne(n) == IF n = 0 THEN 1 ELSE n

Labelled(samples, some, label) == Cardinality({i \in some : samples[i].label = label})

\* np.argsort(y_scores)[::-1]: where a sample stands among all, highest score first.
Position(samples, i) ==
  Cardinality({j \in DOMAIN samples : samples[j].score >= samples[i].score})

First(samples, k) == {i \in DOMAIN samples : Position(samples, i) <= k}

\* tpr - fpr when some are flagged, times the sizes of both classes.
Youden(samples, some) ==
  Labelled(samples, some, 1) * AtLeastOne(Labelled(samples, DOMAIN samples, 0))
  - Labelled(samples, some, 0) * AtLeastOne(Labelled(samples, DOMAIN samples, 1))

\* Fault: no point before the first sample, "none is an anomaly".
BestIndexOfSamples(samples) ==
  Min({k \in 1 .. Len(samples) :
         \A j \in 1 .. Len(samples) :
           Youden(samples, First(samples, j)) <= Youden(samples, First(samples, k))})

\* np.argmax: the first of the best.
BestIndex(samples) ==
  Min({k \in 0 .. Len(samples) :
         \A j \in 0 .. Len(samples) :
           Youden(samples, First(samples, j)) <= Youden(samples, First(samples, k))})

\* The score of the last one flagged, or a little more than all.
calculate_optimal_threshold(samples) ==
  LET best == BestIndex(samples)
      at == CHOOSE i \in DOMAIN samples : Position(samples, i) = Max({1, best})
  IN IF best = 0 THEN samples[at].score + 1 ELSE samples[at].score

\* _calibrate_and_update_scaler_params: scores and labels are cut to the same
\* length; without any, the default is used.
Samples(scores, labels) ==
  [i \in 1 .. Min({Len(scores), Len(labels)}) |-> [score |-> scores[i], label |-> labels[i]]]

Calibrate(scores, labels) ==
  LET samples == Samples(scores, labels)
  IN IF samples = <<>> THEN DefaultThreshold ELSE calculate_optimal_threshold(samples)

\* Youden's statistic of the rule "at least the threshold".
Informedness(samples, threshold) ==
  Youden(samples, {i \in DOMAIN samples : samples[i].score >= threshold})
=============================================================================
