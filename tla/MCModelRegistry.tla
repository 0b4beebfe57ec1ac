-------------------------- MODULE MCModelRegistry --------------------------
(***************************************************************************)
(* Data sets of a few rows whose columns agree and disagree: groups that   *)
(* cross days, groups one after the other in time and interleaved, equal   *)
(* times, a label without a mapping.                                       *)
(***************************************************************************)
EXTENDS ModelRegistry

CONSTANTS r1, r2, a, b, c, d, known, unknown

ADataset(sequence, group, day, time) ==
    LET rows == DOMAIN (CHOOSE col \in {sequence, group, day, time} : col # None)
    IN  [size |-> Cardinality(rows), sequence |-> sequence, group |-> group, day |-> day,
         time |-> time, label |-> [r \in rows |-> known], policy |-> "reject"]

MCDataset == {
    ADataset(None, <<a, a, b, b, c, c>>, <<1, 1, 2, 2, 3, 3>>, <<6, 5, 4, 3, 2, 1>>),
    ADataset(<<a, a, b, b, c, c>>, <<a, a, a, b, c, c>>, <<1, 1, 2, 3, 3, 3>>, None),
    ADataset(None, <<a, b, a, b, a, b, c, c, d, d>>, None, <<1, 1, 2, 3, 4, 4, 4, 5, 6, 7>>),
    ADataset(<<a, a, a, a, b, b, b, b, c, c>>, None, <<1, 1, 1, 1, 1, 1, 2, 2, 3, 3>>,
             <<1, 2, 3, 4, 5, 6, 7, 8, 9, 9>>),
    ADataset(None, None, None, <<1, 2, 3, 4, 5, 6>>),
    [ADataset(None, <<a, a, b, b, c, c>>, None, None) EXCEPT !.label[1] = unknown]}

\* Windows of a class, with the probabilities given to the classes.
Windowed(class, ps) == [i \in DOMAIN ps |-> [truth |-> class, p |-> ps[i]]]
Attacks(ps) == Windowed(2, [i \in DOMAIN ps |-> <<Scale - ps[i], ps[i]>>])
Benign(ps) == Windowed(1, [i \in DOMAIN ps |-> <<Scale - ps[i], ps[i]>>])

\* A good model, and one of three classes that the default gates let through: the mean
\* of its rates, of 3/20, hides that it takes 9 attacks of 20 for BENIGN.
MCTrained == {
    [classes |-> <<"BENIGN", "ATTACK">>,
     validation |-> Attacks(<<3, 4>>) \o Benign(<<0, 1>>),
     test |-> Attacks(<<4, 4, 3>>) \o Benign(<<0, 1, 2, 0, 0>>)],
    [classes |-> <<"BENIGN", "BRUTE_FORCE", "DOS_DDOS">>,
     validation |-> Windowed(1, <<<<4, 0, 0>>>>),
     test |-> Windowed(1, [i \in 1..10 |-> <<3, 1, 0>>])
              \o Windowed(2, [i \in 1..10 |-> IF i <= 5 THEN <<2, 2, 0>> ELSE <<1, 3, 0>>])
              \o Windowed(3, [i \in 1..10 |-> IF i <= 4 THEN <<2, 1, 1>> ELSE <<0, 1, 3>>])]}

MCThresholdPolicy == {[name |-> "maximize_macro_f1"],
                      [name |-> "max_false_positive_rate", limit |-> <<1, 20>>],
                      [name |-> "min_recall_high_risk", limit |-> <<4, 5>>]}
MCGates == {[macroF1 |-> <<1, 2>>, falsePositives |-> <<1, 5>>, recall |-> {}],
            [macroF1 |-> <<1, 2>>, falsePositives |-> <<1, 20>>,
             recall |-> {[class |-> "ATTACK", minimum |-> <<1, 1>>]}]}

MCVersion == {<<r1, "transformer">>, <<r1, "random_forest">>, <<r2, "transformer">>}
=============================================================================
