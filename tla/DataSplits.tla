----------------------------- MODULE DataSplits -----------------------------
(***************************************************************************)
(* How a labelled data set becomes training, validation and test windows,  *)
(* and how a trained model is judged on them: the pure part of             *)
(* backend/model_governance.py.                                            *)
(*                                                                         *)
(* A data set is a record of columns over its rows 1..n; a column is None  *)
(* when the manifest does not name it.  The group-aware shuffle is         *)
(* scikit-learn's: any assignment of whole groups to the three partitions. *)
(* A trained model is what it answers: for each window of a sample, the    *)
(* class it is of and the probability, in 0..Scale, given to each class.   *)
(* The classes are those of the data, by name, "BENIGN" first.             *)
(***************************************************************************)
EXTENDS Integers, FiniteSets, Sequences

CONSTANTS
    None,
    Dataset,   \* records with the fields size, sequence, group, day, time, label, policy
    Known,     \* source labels that the taxonomy maps
    Length,    \* sequence_length, the rows of a window
    Scale      \* probabilities are multiples of 1 / Scale

\* Times are numbers.
ASSUME DatasetAssumption ==
    \A d \in Dataset : d.size \in Nat /\ (d.time # None => d.time \in [1..d.size -> Int])

Strategy == {"group", "time", "capture_day", "random_dev_only"}

Partition == {"train", "validation", "test"}

-----------------------------------------------------------------------------
\* Loading.

Rows(d) == 1..d.size

SequenceColumn(d) ==
    IF d.sequence # None THEN d.sequence ELSE IF d.group # None THEN d.group ELSE d.day

\* A label without a mapping fails the load, unless unknown labels are attacks.
Loadable(d) ==
    /\ SequenceColumn(d) # None
    /\ d.policy = "other_attack" \/ \A r \in Rows(d) : d.label[r] \in Known

-----------------------------------------------------------------------------
\* Splitting.

SplitColumn(d, strategy) ==
    IF strategy = "capture_day" THEN d.day
    ELSE IF strategy = "group" /\ d.group # None THEN d.group
    ELSE SequenceColumn(d)

\* A row's position by time, and by row where the times are equal.
Position(d, r) ==
    Cardinality({q \in Rows(d) :
                    d.time[q] < d.time[r] \/ (d.time[q] = d.time[r] /\ q <= r)})

AtLeastOne(n) == IF n < 1 THEN 1 ELSE n

TimeSplit(d) ==
    LET train == AtLeastOne((d.size * 6) \div 10)
        validation == AtLeastOne((d.size * 2) \div 10)
    IN  [r \in Rows(d) |->
            IF Position(d, r) <= train THEN "train"
            ELSE IF Position(d, r) <= train + validation THEN "validation"
            ELSE "test"]

GroupSplits(d, column) ==
    {[r \in Rows(d) |-> s[column[r]]] :
        s \in [{column[r] : r \in Rows(d)} -> Partition]}

\* _assert_partition_integrity.
Integral(d, split) ==
    /\ \A p \in Partition : \E r \in Rows(d) : split[r] = p
    /\ \A q, r \in Rows(d) :
           SequenceColumn(d)[q] = SequenceColumn(d)[r] => split[q] = split[r]

\* Rows in the order in which windows are cut.
Earlier(d, q, r) ==
    IF d.time = None THEN q < r ELSE Position(d, q) < Position(d, r)

\* The windows of a partition: rows of one group, one after the other.
Windows(d, split, p) ==
    LET part == {r \in Rows(d) : split[r] = p}
        same(q, r) == SequenceColumn(d)[q] = SequenceColumn(d)[r]
    IN  {w \in SUBSET part :
            /\ Cardinality(w) = Length
            /\ \A q, r \in w : same(q, r)
            /\ \A q \in part, e, l \in w :
                   same(q, e) /\ Earlier(d, e, q) /\ Earlier(d, q, l) => q \in w}

\* prepare_partitions: the splits it may return; none, when it raises.
Splits(d, strategy) ==
    LET column == SplitColumn(d, strategy)
        proposed == IF strategy = "time"
                    THEN IF d.time = None \/ d.size < 3 THEN {} ELSE {TimeSplit(d)}
                    ELSE IF column = None THEN {} ELSE GroupSplits(d, column)
    IN  {s \in proposed : Integral(d, s) /\ \A p \in Partition : Windows(d, s, p) # {}}

-----------------------------------------------------------------------------
\* Judging a model.  A rate is a pair <<numerator, denominator>>.

\* Samples of k classes: what a window is, and the probability given to each class.
Sample(k) == Seq([truth : 1..k, p : [1..k -> 0..Scale]])

AtMost(a, b) == a[1] * b[2] <= b[1] * a[2]

\* zero_division: a rate of nothing is zero.
Ratio(n, m) == IF m = 0 THEN <<0, 1>> ELSE <<n, m>>

Plus(a, b) == <<a[1] * b[2] + b[1] * a[2], a[2] * b[2]>>

Total(k, rate) ==
    LET sum[i \in 0..k] == IF i = 0 THEN <<0, 1>> ELSE Plus(sum[i - 1], rate[i])
    IN  sum[k]

\* The sum of k rates over n.
Mean(k, n, rate) == <<Total(k, rate)[1], n * Total(k, rate)[2]>>

\* _thresholded_predictions: without a threshold, the first of the likeliest classes.
Predicted(p, threshold) ==
    IF threshold # None THEN IF p[2] >= threshold THEN 2 ELSE 1
    ELSE CHOOSE c \in DOMAIN p : \A e \in DOMAIN p : p[e] < p[c] \/ (p[e] = p[c] /\ c <= e)

\* The confusion matrix as each class meets it, one against the rest.
Confusion(k, s, threshold) ==
    [c \in 1..k |->
        LET count(actual, flagged) ==
                Cardinality({i \in DOMAIN s : /\ (s[i].truth = c) = actual
                                              /\ (Predicted(s[i].p, threshold) = c) = flagged})
        IN  [tp |-> count(TRUE, TRUE), fn |-> count(TRUE, FALSE),
             fp |-> count(FALSE, TRUE), tn |-> count(FALSE, FALSE)]]

MacroF1(k, m) ==
    Mean(k, k, [c \in 1..k |-> Ratio(2 * m[c].tp, 2 * m[c].tp + m[c].fp + m[c].fn)])

Recall(counts) == Ratio(counts.tp, counts.tp + counts.fn)

\* The mean over the classes that another class occurs beside.  A missed attack is a
\* false positive of BENIGN.
FalsePositiveRate(k, m) ==
    LET beside == {c \in 1..k : m[c].fp + m[c].tn # 0}
    IN  IF beside = {} THEN None
        ELSE Mean(k, Cardinality(beside),
                  [c \in 1..k |-> Ratio(m[c].fp, m[c].fp + m[c].tn)])

\* select_threshold, for two classes only: the best macro F1 among the candidates
\* that satisfy the policy, or among all, and the lowest threshold of the best.
SelectThreshold(classes, s, policy) ==
    LET candidates == 1..(Scale - 1)
        at(t) == Confusion(2, s, t)
        attack == IF classes[1] = "BENIGN" THEN 2 ELSE 1
        satisfies(t) ==
            CASE policy.name = "max_false_positive_rate" ->
                   /\ FalsePositiveRate(2, at(t)) # None
                   /\ AtMost(FalsePositiveRate(2, at(t)), policy.limit)
              [] policy.name = "min_recall_high_risk" ->
                   AtMost(policy.limit, Recall(at(t)[attack]))
              [] policy.name = "maximize_macro_f1" -> TRUE
        eligible == {t \in candidates : satisfies(t)}
        from == IF eligible = {} THEN candidates ELSE eligible
        best == {t \in from : \A u \in from : AtMost(MacroF1(2, at(u)), MacroF1(2, at(t)))}
    IN  IF Len(classes) # 2 THEN None ELSE CHOOSE t \in best : \A u \in best : t <= u

PromotableSplits == {"group", "capture_day", "time"}

\* evaluate_quality_gates of a benchmark's strategy, classes and test matrix; latency
\* is left out.  A class the model does not know fails its minimum.
PassesGates(made, gates) ==
    LET k == Len(made.classes)
    IN  /\ made.strategy \in PromotableSplits
        /\ AtMost(gates.macroF1, MacroF1(k, made.test))
        /\ FalsePositiveRate(k, made.test) # None
        /\ AtMost(FalsePositiveRate(k, made.test), gates.falsePositives)
        /\ \A x \in gates.recall : \E c \in 1..k :
               made.classes[c] = x.class /\ AtMost(x.minimum, Recall(made.test[c]))
=============================================================================
