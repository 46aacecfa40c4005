---------------------------- MODULE TrainingWindows ----------------------------
(***************************************************************************)
(* How a table with gaps is cut: the training set's windows and their      *)
(* labels, and the window that the engine scores.  Rows are in the order of*)
(* their buckets; a row has its bucket's number and its proxy label.       *)
(***************************************************************************)
EXTENDS Integers, Sequences, SequencesExt

\* A row is added to the current block, or, later than a bucket after it, starts a
\* new one; what is cut from the finished block comes out.
NoRows == [out |-> <<>>, block |-> <<>>]

AddRow(s, row, cut) ==
  IF s.block # <<>> /\ row.bucket - Last(s.block).bucket > 1
    THEN [out |-> s.out \o cut, block |-> <<row>>]
    ELSE [out |-> s.out, block |-> Append(s.block, row)]

Cut(block, n) == [i \in 1 .. Len(block) - n + 1 |-> SubSeq(block, i, i + n - 1)]

slice_continuous_windows(rows, n) ==
  LET end == FoldLeft(LAMBDA s, row : AddRow(s, row, Cut(s.block, n)), NoRows, rows)
  IN end.out \o Cut(end.block, n)

\* Fault: a window gets the label of its first row.
CutFirstLabels(block, n) == [i \in 1 .. Len(block) - n + 1 |-> block[i].label]

\* The label of a window is that of its last row.
CutLabels(block, n) == [i \in 1 .. Len(block) - n + 1 |-> block[i + n - 1].label]

align_labels_to_sequences(rows, n) ==
  LET end == FoldLeft(LAMBDA s, row : AddRow(s, row, CutLabels(s.block, n)), NoRows, rows)
  IN end.out \o CutLabels(end.block, n)

\* fetch_and_scale_latest_window: the last n rows, <<>> when they are too few or
\* have a gap.
LatestWindow(rows, n) ==
  LET tail == SubSeq(rows, Len(rows) - n + 1, Len(rows))
  IN IF \/ Len(rows) < n
        \/ \E i \in 1 .. n - 1 : tail[i + 1].bucket - tail[i].bucket > 1
       THEN <<>>
       ELSE tail

\* All runs of n consecutive buckets, in their order.
EndsRun(rows, n, i) == i >= n /\ rows[i].bucket - rows[i - n + 1].bucket = n - 1

AddRun(out, rows, n, i) ==
  IF EndsRun(rows, n, i) THEN Append(out, SubSeq(rows, i - n + 1, i)) ELSE out

Positions(rows) == [i \in DOMAIN rows |-> i]

Runs(rows, n) == FoldLeft(LAMBDA out, i : AddRun(out, rows, n, i), <<>>, Positions(rows))
=============================================================================
