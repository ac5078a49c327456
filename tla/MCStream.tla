------------------------------ MODULE MCStream ------------------------------
(***************************************************************************)
(* Small instances of Stream: the paths are spelled out and key.Match of   *)
(* the module Key decides which of them match.                             *)
(***************************************************************************)
EXTENDS StreamBus, Sequences, TLC

K == INSTANCE Key WITH Letters <- {"a", "b", "1", "2"}

\* One key; two keys apart; one key and its glob; two keys, their glob and one
\* that crosses it.
Itself(paths) == {<<p, p>> : p \in paths}
PairsKey == Itself({"a1"})
PairsApart == Itself({"a1", "b1"})
PairsOne == Itself({"a1", "as"}) \cup {<<"as", "a1">>}
PairsCrossed ==
    Itself({"a1", "a2", "as", "s2"})
        \cup {<<"as", "a1">>, <<"as", "a2">>, <<"s2", "a2">>}

\* The spelling of the paths of the instances, which says which of them match.
Spelling ==
    [a1 |-> <<"a", "/", "1">>, a2 |-> <<"a", "/", "2">>, b1 |-> <<"b", "/", "1">>,
     as |-> <<"a", "/", "*">>, s2 |-> <<"*", "/", "2">>]

ASSUME PairsAreMatches ==
    \A pairs \in {PairsKey, PairsApart, PairsOne, PairsCrossed} :
        LET paths == {m[1] : m \in pairs}
        IN  pairs = {m \in paths \X paths : K!Match(Spelling[m[1]], Spelling[m[2]])}

Interchangeable ==
    Permutations(Writers) \cup Permutations(Workers) \cup Permutations(Conns)
=============================================================================
