------------------------------ MODULE KeyProofs -------------------------------
(***************************************************************************)
(* Theorems about the operators of Key, for paths and keys of any length   *)
(* over any alphabet.                                                      *)
(*                                                                         *)
(* Match is computed from right to left by the recursion of filepath.Match *)
(* and denotes what a cut of the key shows.  A cut of the rest of the key  *)
(* satisfies the equations of the recursion, so that there is a function   *)
(* that does, and there is only one.                                       *)
(***************************************************************************)
EXTENDS KeyCases, FiniteSetTheorems, FunctionTheorems, SequenceTheorems,
        WellFoundedInduction, TLAPS

Text == Seq(Symbols)

\* The piece of character x of the path, after position from and up to to.
Piece(path, k, x, from, to) ==
    /\ from <= to
    /\ IF path[x] = Star
       THEN \A y \in from + 1 .. to : k[y] # Slash
       ELSE to = from + 1 /\ k[to] = path[x]

\* end cuts what follows position j - 1 of the key as the path does from i on.
IsCut(path, k, i, j, end) ==
    /\ end \in [i - 1 .. Len(path) -> 0 .. Len(k)]
    /\ end[i - 1] = j - 1
    /\ end[Len(path)] = Len(k)
    /\ \A x \in i .. Len(path) : Piece(path, k, x, end[x - 1], end[x])

CanCut(path, k, i, j) ==
    \E end \in [i - 1 .. Len(path) -> 0 .. Len(k)] : IsCut(path, k, i, j, end)

LEMMA DenotesIsCut ==
    ASSUME NEW path \in Text, NEW k \in Text
    PROVE  Denotes(path, k) <=> CanCut(path, k, 1, 1)
<1>1. 1 - 1 = 0
    OBVIOUS
<1> QED
    BY <1>1, Zenon DEF Denotes, CanCut, IsCut, Piece

(***************************************************************************)
(* The equations of the recursion.                                         *)
(***************************************************************************)
LEMMA CutOfNothing ==
    ASSUME NEW path \in Text, NEW k \in Text, NEW j \in 1 .. Len(k) + 1
    PROVE  CanCut(path, k, Len(path) + 1, j) <=> j > Len(k)
<1>1. Len(path) \in Nat /\ Len(k) \in Nat
    BY DEF Text
<1>2. ASSUME NEW end, IsCut(path, k, Len(path) + 1, j, end) PROVE j > Len(k)
    <2>1. end[Len(path)] = j - 1 /\ end[Len(path)] = Len(k)
        BY <1>1, <1>2 DEF IsCut
    <2> QED
        BY <1>1, <2>1
<1>3. ASSUME j > Len(k) PROVE CanCut(path, k, Len(path) + 1, j)
    <2> DEFINE last == [x \in Len(path) + 1 - 1 .. Len(path) |-> Len(k)]
    <2>1. Len(path) + 1 - 1 = Len(path) /\ j - 1 = Len(k) /\ Len(k) \in 0 .. Len(k)
        BY <1>1, <1>3
    <2>2. last \in [Len(path) + 1 - 1 .. Len(path) -> 0 .. Len(k)] /\ last[Len(path)] = Len(k)
        BY <1>1, <2>1
    <2>3. Len(path) + 1 .. Len(path) = {}
        BY <1>1
    <2> HIDE DEF last
    <2>4. last[Len(path) + 1 - 1] = j - 1
        BY <2>1, <2>2
    <2>5. IsCut(path, k, Len(path) + 1, j, last)
        BY <2>2, <2>3, <2>4 DEF IsCut
    <2> QED
        BY <2>2, <2>5 DEF CanCut
<1> QED
    BY <1>2, <1>3 DEF CanCut

\* A cut goes on behind its first piece, and can be begun with any piece.
LEMMA CutTail ==
    ASSUME NEW path \in Text, NEW k \in Text, NEW i \in 1 .. Len(path), NEW j,
           NEW end, IsCut(path, k, i, j, end)
    PROVE  CanCut(path, k, i + 1, end[i] + 1)
<1> DEFINE m == Len(path)
           rest == [x \in i + 1 - 1 .. m |-> end[x]]
<1>1. m \in Nat /\ i + 1 - 1 = i /\ i + 1 .. m \subseteq i .. m
    BY DEF Text
<1>2. end[i] \in 0 .. Len(k) /\ end[i] + 1 - 1 = end[i]
    BY DEF IsCut, Text
<1>3. rest \in [i + 1 - 1 .. m -> 0 .. Len(k)]
    BY <1>1 DEF IsCut
<1>4. rest[i + 1 - 1] = end[i] /\ rest[m] = Len(k)
    BY <1>1 DEF IsCut
<1>5. ASSUME NEW x \in i + 1 .. m PROVE Piece(path, k, x, rest[x - 1], rest[x])
    <2>1. rest[x - 1] = end[x - 1] /\ rest[x] = end[x]
        BY <1>1
    <2> QED
        BY <1>1, <2>1 DEF IsCut
<1>6. IsCut(path, k, i + 1, end[i] + 1, rest)
    BY <1>2, <1>3, <1>4, <1>5 DEF IsCut
<1> QED
    BY <1>3, <1>6 DEF CanCut

LEMMA CutWithHead ==
    ASSUME NEW path \in Text, NEW k \in Text, NEW i \in 1 .. Len(path),
           NEW j \in 1 .. Len(k) + 1, NEW to \in 0 .. Len(k),
           Piece(path, k, i, j - 1, to), CanCut(path, k, i + 1, to + 1)
    PROVE  CanCut(path, k, i, j)
<1> DEFINE m == Len(path)
<1>1. PICK rest : IsCut(path, k, i + 1, to + 1, rest)
    BY DEF CanCut
<1> DEFINE end == [x \in i - 1 .. m |-> IF x = i - 1 THEN j - 1 ELSE rest[x]]
<1>2. m \in Nat /\ Len(k) \in Nat /\ i + 1 - 1 = i /\ to + 1 - 1 = to
    BY DEF Text
<1>3. rest \in [i .. m -> 0 .. Len(k)] /\ rest[i] = to /\ rest[m] = Len(k)
    BY <1>1, <1>2 DEF IsCut
<1>4. end \in [i - 1 .. m -> 0 .. Len(k)]
    <2>1. \A x \in i - 1 .. m : x = i - 1 \/ x \in i .. m
        BY <1>2
    <2>2. j - 1 \in 0 .. Len(k)
        BY <1>2
    <2> QED
        BY <1>3, <2>1, <2>2
<1>5. end[i - 1] = j - 1 /\ end[m] = Len(k)
    BY <1>2, <1>3
<1>6. ASSUME NEW x \in i .. m PROVE Piece(path, k, x, end[x - 1], end[x])
    <2>1. CASE x = i
        <3>1. end[x - 1] = j - 1 /\ end[x] = to
            BY <1>2, <1>3, <2>1
        <3> QED
            BY <2>1, <3>1
    <2>2. CASE x # i
        <3>1. x \in i + 1 .. m /\ end[x - 1] = rest[x - 1] /\ end[x] = rest[x]
            BY <1>2, <2>2
        <3> QED
            BY <1>1, <3>1 DEF IsCut
    <2> QED
        BY <2>1, <2>2
<1>7. IsCut(path, k, i, j, end)
    BY <1>4, <1>5, <1>6 DEF IsCut
<1> QED
    BY <1>4, <1>7 DEF CanCut

LEMMA CutStar ==
    ASSUME NEW path \in Text, NEW k \in Text, NEW i \in 1 .. Len(path),
           NEW j \in 1 .. Len(k) + 1, path[i] = Star
    PROVE  CanCut(path, k, i, j)
           <=> \/ CanCut(path, k, i + 1, j)
               \/ j <= Len(k) /\ k[j] # Slash /\ CanCut(path, k, i, j + 1)
<1>1. Len(path) \in Nat /\ Len(k) \in Nat
    BY DEF Text
<1>2. ASSUME CanCut(path, k, i, j), ~CanCut(path, k, i + 1, j)
      PROVE  j <= Len(k) /\ k[j] # Slash /\ CanCut(path, k, i, j + 1)
    <2>1. PICK end : IsCut(path, k, i, j, end)
        BY <1>2 DEF CanCut
    <2>2. end[i - 1] = j - 1 /\ end[i] \in 0 .. Len(k) /\ Piece(path, k, i, end[i - 1], end[i])
        BY <1>1, <2>1 DEF IsCut
    <2>3. CanCut(path, k, i + 1, end[i] + 1)
        BY <2>1, CutTail
    <2>4. end[i] # j - 1
        <3>1. (j - 1) + 1 = j
            OBVIOUS
        <3> QED
            BY <1>2, <2>3, <3>1
    <2>5. j - 1 <= end[i] /\ \A y \in j - 1 + 1 .. end[i] : k[y] # Slash
        BY <2>2 DEF Piece
    <2>6. j <= end[i] /\ j \in j - 1 + 1 .. end[i] /\ j + 1 \in 1 .. Len(k) + 1
        BY <1>1, <2>2, <2>4, <2>5
    <2>7. Piece(path, k, i, (j + 1) - 1, end[i])
        <3>1. (j + 1) - 1 <= end[i] /\ (j + 1) - 1 + 1 .. end[i] \subseteq j - 1 + 1 .. end[i]
            BY <1>1, <2>2, <2>6
        <3> QED
            BY <2>5, <3>1 DEF Piece
    <2>8. CanCut(path, k, i, j + 1)
        BY <2>2, <2>3, <2>6, <2>7, CutWithHead
    <2> QED
        BY <1>1, <2>2, <2>5, <2>6, <2>8
<1>3. ASSUME CanCut(path, k, i + 1, j) PROVE CanCut(path, k, i, j)
    <2>1. j - 1 \in 0 .. Len(k) /\ (j - 1) + 1 = j /\ j - 1 <= j - 1 /\ j - 1 + 1 .. j - 1 = {}
        BY <1>1
    <2>2. Piece(path, k, i, j - 1, j - 1)
        BY <2>1 DEF Piece
    <2> QED
        BY <1>3, <2>1, <2>2, CutWithHead
<1>4. ASSUME j <= Len(k), k[j] # Slash, CanCut(path, k, i, j + 1) PROVE CanCut(path, k, i, j)
    <2>1. PICK end : IsCut(path, k, i, j + 1, end)
        BY <1>4 DEF CanCut
    <2>2. end[i - 1] = (j + 1) - 1 /\ end[i] \in 0 .. Len(k) /\ Piece(path, k, i, end[i - 1], end[i])
        BY <1>1, <2>1 DEF IsCut
    <2>3. CanCut(path, k, i + 1, end[i] + 1)
        BY <2>1, CutTail
    <2>4. j <= end[i] /\ \A y \in j + 1 .. end[i] : k[y] # Slash
        BY <2>2 DEF Piece
    <2>5. j - 1 <= end[i] /\ \A y \in j - 1 + 1 .. end[i] : y = j \/ y \in j + 1 .. end[i]
        BY <1>1, <2>2, <2>4
    <2>6. Piece(path, k, i, j - 1, end[i])
        BY <1>4, <2>4, <2>5 DEF Piece
    <2> QED
        BY <2>2, <2>3, <2>6, CutWithHead
<1> QED
    BY <1>2, <1>3, <1>4

LEMMA CutChar ==
    ASSUME NEW path \in Text, NEW k \in Text, NEW i \in 1 .. Len(path),
           NEW j \in 1 .. Len(k) + 1, path[i] # Star
    PROVE  CanCut(path, k, i, j)
           <=> j <= Len(k) /\ path[i] = k[j] /\ CanCut(path, k, i + 1, j + 1)
<1>1. Len(path) \in Nat /\ Len(k) \in Nat /\ (j - 1) + 1 = j
    BY DEF Text
<1>2. ASSUME CanCut(path, k, i, j)
      PROVE  j <= Len(k) /\ path[i] = k[j] /\ CanCut(path, k, i + 1, j + 1)
    <2>1. PICK end : IsCut(path, k, i, j, end)
        BY <1>2 DEF CanCut
    <2>2. end[i - 1] = j - 1 /\ end[i] \in 0 .. Len(k) /\ Piece(path, k, i, end[i - 1], end[i])
        BY <1>1, <2>1 DEF IsCut
    <2>3. end[i] = j /\ k[j] = path[i]
        BY <1>1, <2>2 DEF Piece
    <2> QED
        BY <1>1, <2>1, <2>2, <2>3, CutTail
<1>3. ASSUME j <= Len(k), path[i] = k[j], CanCut(path, k, i + 1, j + 1)
      PROVE  CanCut(path, k, i, j)
    <2>1. Piece(path, k, i, j - 1, j) /\ j \in 0 .. Len(k)
        BY <1>1, <1>3 DEF Piece
    <2> QED
        BY <1>3, <2>1, CutWithHead
<1> QED
    BY <1>2, <1>3

-----------------------------------------------------------------------------
(***************************************************************************)
(* Match decides the denotation.                                           *)
(***************************************************************************)
\* What the recursion of filepath.Match computes for two positions from its
\* own results at later ones.
Positions(path, k) == (1 .. Len(path) + 1) \X (1 .. Len(k) + 1)

Unfolding(path, k, match, i, j) ==
    IF i > Len(path)
    THEN j > Len(k)
    ELSE IF path[i] = Star
         THEN \/ match[<<i + 1, j>>]
              \/ j <= Len(k) /\ k[j] # Slash /\ match[<<i, j + 1>>]
         ELSE /\ j <= Len(k)
              /\ path[i] = k[j]
              /\ match[<<i + 1, j + 1>>]

\* The cuts of all the rests satisfy the recursion.
LEMMA CutsUnfold ==
    ASSUME NEW path \in Text, NEW k \in Text,
           NEW i \in 1 .. Len(path) + 1, NEW j \in 1 .. Len(k) + 1,
           NEW cuts, cuts = [at \in Positions(path, k) |-> CanCut(path, k, at[1], at[2])]
    PROVE  CanCut(path, k, i, j) <=> Unfolding(path, k, cuts, i, j)
<1>1. Len(path) \in Nat /\ Len(k) \in Nat
    BY DEF Text
<1>2. ASSUME NEW x \in 1 .. Len(path) + 1, NEW y \in 1 .. Len(k) + 1
      PROVE  cuts[<<x, y>>] = CanCut(path, k, x, y)
    BY DEF Positions
<1>3. CASE i > Len(path)
    <2>1. i = Len(path) + 1
        BY <1>1, <1>3
    <2> QED
        BY <1>3, <2>1, CutOfNothing DEF Unfolding
<1>4. CASE i <= Len(path) /\ path[i] = Star
    <2>1. i \in 1 .. Len(path) /\ i + 1 \in 1 .. Len(path) + 1
        BY <1>1, <1>4
    <2>2. j <= Len(k) => j + 1 \in 1 .. Len(k) + 1
        BY <1>1
    <2>3. cuts[<<i + 1, j>>] = CanCut(path, k, i + 1, j)
        BY <1>2, <2>1
    <2>4. j <= Len(k) => cuts[<<i, j + 1>>] = CanCut(path, k, i, j + 1)
        BY <1>2, <2>2
    <2>5. ~(i > Len(path))
        BY <1>1, <1>4
    <2> QED
        BY <1>4, <2>1, <2>3, <2>4, <2>5, CutStar DEF Unfolding
<1>5. CASE i <= Len(path) /\ path[i] # Star
    <2>1. i \in 1 .. Len(path) /\ i + 1 \in 1 .. Len(path) + 1
        BY <1>1, <1>5
    <2>2. j <= Len(k) => j + 1 \in 1 .. Len(k) + 1
        BY <1>1
    <2>3. j <= Len(k) => cuts[<<i + 1, j + 1>>] = CanCut(path, k, i + 1, j + 1)
        BY <1>2, <2>1, <2>2
    <2>4. ~(i > Len(path))
        BY <1>1, <1>5
    <2> QED
        BY <1>5, <2>1, <2>3, <2>4, CutChar DEF Unfolding
<1> QED
    BY <1>1, <1>3, <1>4, <1>5

\* So there is a function that satisfies it, and Suffixes is one.
LEMMA SuffixesUnfold ==
    ASSUME NEW path \in Text, NEW k \in Text
    PROVE  Suffixes(path, k)
             = [at \in Positions(path, k) |->
                  Unfolding(path, k, Suffixes(path, k), at[1], at[2])]
<1> DEFINE match[at \in (1 .. Len(path) + 1) \X (1 .. Len(k) + 1)] ==
             LET i == at[1]
                 j == at[2]
             IN  IF i > Len(path)
                 THEN j > Len(k)
                 ELSE IF path[i] = Star
                      THEN \/ match[<<i + 1, j>>]
                           \/ j <= Len(k) /\ k[j] # Slash /\ match[<<i, j + 1>>]
                      ELSE /\ j <= Len(k)
                           /\ path[i] = k[j]
                           /\ match[<<i + 1, j + 1>>]
<1>1. Suffixes(path, k) = match
    BY DEF Suffixes
<1> DEFINE cuts == [at \in Positions(path, k) |-> CanCut(path, k, at[1], at[2])]
           step == [at \in Positions(path, k) |-> Unfolding(path, k, cuts, at[1], at[2])]
<1>2. ASSUME NEW at \in Positions(path, k)
      PROVE  CanCut(path, k, at[1], at[2]) = Unfolding(path, k, cuts, at[1], at[2])
    <2>1. at[1] \in 1 .. Len(path) + 1 /\ at[2] \in 1 .. Len(k) + 1
        BY DEF Positions
    <2> HIDE DEF cuts
    <2>2. CanCut(path, k, at[1], at[2]) <=> Unfolding(path, k, cuts, at[1], at[2])
        BY <2>1, CutsUnfold, Zenon DEF cuts
    <2>3. CanCut(path, k, at[1], at[2]) \in BOOLEAN
        BY DEF CanCut
    <2>4. Unfolding(path, k, cuts, at[1], at[2]) \in BOOLEAN
        <3>1. CASE at[1] > Len(path)
            <4>1. (at[2] > Len(k)) \in BOOLEAN
                <5>1. \A x \in 1 .. Len(k) + 1 : (x > Len(k)) \in BOOLEAN
                    OBVIOUS
                <5> QED
                    BY <2>1, <5>1, Zenon
            <4>2. Unfolding(path, k, cuts, at[1], at[2]) = (at[2] > Len(k))
                BY <3>1, Zenon DEF Unfolding
            <4> QED
                BY <4>1, <4>2, Zenon
        <3>2. CASE ~(at[1] > Len(path)) /\ path[at[1]] = Star
            BY <3>2 DEF Unfolding
        <3>3. CASE ~(at[1] > Len(path)) /\ path[at[1]] # Star
            BY <3>3 DEF Unfolding
        <3> QED
            BY <3>1, <3>2, <3>3
    <2> QED
        BY <2>2, <2>3, <2>4
<1>3. cuts = step
    BY <1>2, Zenon
<1>4. match = [at \in Positions(path, k) |-> Unfolding(path, k, match, at[1], at[2])]
    BY <1>3, Zenon DEF match, Unfolding, Positions
<1> QED
    BY <1>1, <1>4, Zenon

LEMMA SetHasLeast ==
    ASSUME NEW T \in SUBSET Nat, T # {}
    PROVE  \E x \in T : \A y \in T : x <= y
<1> DEFINE R == {ss \in Nat \X Nat : ss[1] < ss[2]}
<1>1. IsWellFoundedOn(R, Nat)
    BY NatLessThanWellFounded DEF OpToRel
<1>2. PICK x \in T : \A y \in T : ~(<<y, x>> \in R)
    BY <1>1, WFMin
<1>3. ASSUME NEW y \in T PROVE x <= y
    <2>1. x \in Nat /\ y \in Nat /\ ~(<<y, x>> \in R)
        BY <1>2
    <2>2. ~(y < x)
        BY <2>1
    <2> QED
        BY <2>1, <2>2
<1> QED
    BY <1>3

\* It is the only one: two positions on which a solution and the cuts differ,
\* as near to the two ends as there are any, have later ones that differ.
LEMMA SuffixesAreCuts ==
    ASSUME NEW path \in Text, NEW k \in Text,
           NEW i \in 1 .. Len(path) + 1, NEW j \in 1 .. Len(k) + 1
    PROVE  Suffixes(path, k)[<<i, j>>] <=> CanCut(path, k, i, j)
<1> DEFINE match == Suffixes(path, k)
           cuts  == [at \in Positions(path, k) |-> CanCut(path, k, at[1], at[2])]
           Rest(x, y)    == (Len(path) + 1 - x) + (Len(k) + 1 - y)
           Differ(x, y)  == ~(match[<<x, y>>] <=> CanCut(path, k, x, y))
           T == {n \in Nat : \E x \in 1 .. Len(path) + 1, y \in 1 .. Len(k) + 1 :
                               n = Rest(x, y) /\ Differ(x, y)}
<1>1. Len(path) \in Nat /\ Len(k) \in Nat
    BY DEF Text
<1>2. SUFFICES ASSUME T # {} PROVE FALSE
    <2>1. Rest(i, j) \in Nat
        BY <1>1
    <2> QED
        BY <1>2, <2>1
<1>3. PICK n \in T : \A m \in T : n <= m
    BY <1>2, SetHasLeast
<1>4. PICK x \in 1 .. Len(path) + 1, y \in 1 .. Len(k) + 1 : n = Rest(x, y) /\ Differ(x, y)
    OBVIOUS
<1>5. ASSUME NEW u \in 1 .. Len(path) + 1, NEW v \in 1 .. Len(k) + 1, Rest(u, v) < Rest(x, y)
      PROVE  match[<<u, v>>] <=> cuts[<<u, v>>]
    <2>1. Rest(u, v) \in Nat /\ Rest(x, y) \in Nat
        <3> HIDE DEF match, cuts, Differ, T
        <3>1. \A a \in 1 .. Len(path) + 1, b \in 1 .. Len(k) + 1 : Rest(a, b) \in Nat
            BY <1>1
        <3> HIDE DEF Rest
        <3> QED
            BY <3>1
    <2>2. ~(n <= Rest(u, v))
        <3> HIDE DEF Rest, Differ, T
        <3> QED
            BY <1>4, <1>5, <2>1
    <2>3. ~Differ(u, v)
        <3> HIDE DEF Rest, Differ
        <3> QED
            BY <1>3, <2>1, <2>2
    <2>4. cuts[<<u, v>>] = CanCut(path, k, u, v)
        BY DEF Positions
    <2> QED
        BY <2>3, <2>4
<1>6. CanCut(path, k, x, y) <=> Unfolding(path, k, cuts, x, y)
    <2> HIDE DEF cuts
    <2> QED
        BY CutsUnfold, Zenon DEF cuts
<1>7. match[<<x, y>>] = Unfolding(path, k, match, x, y)
    <2>1. <<x, y>> \in Positions(path, k)
        BY DEF Positions
    <2> QED
        BY <2>1, SuffixesUnfold
<1>8. Unfolding(path, k, match, x, y) <=> Unfolding(path, k, cuts, x, y)
    <2> HIDE DEF match, cuts
    <2>1. x <= Len(path) =>
            /\ match[<<x + 1, y>>] <=> cuts[<<x + 1, y>>]
            /\ y <= Len(k) =>
                 /\ match[<<x, y + 1>>] <=> cuts[<<x, y + 1>>]
                 /\ match[<<x + 1, y + 1>>] <=> cuts[<<x + 1, y + 1>>]
        BY <1>1, <1>5
    <2>2. x > Len(path) \/ x <= Len(path)
        BY <1>1
    <2> QED
        BY <2>1, <2>2, Zenon DEF Unfolding
<1> QED
    BY <1>4, <1>6, <1>7, <1>8

\* filepath.Match decides what a path denotes, for all paths and keys.
THEOREM FilepathMatchDenotes ==
    ASSUME NEW path \in Text, NEW k \in Text
    PROVE  FilepathMatch(path, k) <=> Denotes(path, k)
<1>1. 1 \in 1 .. Len(path) + 1 /\ 1 \in 1 .. Len(k) + 1
    BY DEF Text
<1> QED
    BY <1>1, SuffixesAreCuts, DenotesIsCut, Zenon DEF FilepathMatch

-----------------------------------------------------------------------------
(***************************************************************************)
(* The separator count that Match adds, and the shortcut for a path        *)
(* without "*".                                                            *)
(***************************************************************************)
\* end cuts the whole key as the path does.
Cuts(path, k, end) ==
    /\ end \in [0 .. Len(path) -> 0 .. Len(k)]
    /\ end[0] = 0
    /\ end[Len(path)] = Len(k)
    /\ \A x \in 1 .. Len(path) : Piece(path, k, x, end[x - 1], end[x])

LEMMA DenotesCuts ==
    ASSUME NEW path, NEW k
    PROVE  Denotes(path, k) <=> \E end : Cuts(path, k, end)
BY Zenon DEF Denotes, Cuts, Piece

LEMMA CutsMonotone ==
    ASSUME NEW path \in Text, NEW k \in Text, NEW end, Cuts(path, k, end),
           NEW a \in 0 .. Len(path), NEW b \in 0 .. Len(path), a <= b
    PROVE  end[a] <= end[b]
<1> DEFINE T == {x \in Nat : x \in 0 .. Len(path) /\ a <= x /\ ~(end[a] <= end[x])}
<1>1. Len(path) \in Nat /\ Len(k) \in Nat
    BY DEF Text
<1>2. \A x \in 0 .. Len(path) : end[x] \in 0 .. Len(k)
    BY DEF Cuts
<1>3. SUFFICES ASSUME T # {} PROVE FALSE
    BY <1>1
<1>4. PICK x \in T : \A y \in T : x <= y
    BY <1>3, SetHasLeast
<1>5. x # a /\ x - 1 \in 0 .. Len(path) /\ x \in 1 .. Len(path) /\ a <= x - 1
    BY <1>1, <1>2
<1>6. end[a] <= end[x - 1]
    <2>1. ~(x <= x - 1)
        BY <1>5
    <2> QED
        BY <1>4, <1>5, <2>1
<1>7. end[x - 1] <= end[x]
    BY <1>5 DEF Cuts, Piece
<1> QED
    BY <1>1, <1>2, <1>5, <1>6, <1>7

\* Each position of the key is in a piece.
LEMMA CutsCover ==
    ASSUME NEW path \in Text, NEW k \in Text, NEW end, Cuts(path, k, end),
           NEW y \in 1 .. Len(k)
    PROVE  \E x \in 1 .. Len(path) : end[x - 1] < y /\ y <= end[x]
<1> DEFINE T == {x \in Nat : x \in 0 .. Len(path) /\ y <= end[x]}
<1>1. Len(path) \in Nat /\ Len(k) \in Nat
    BY DEF Text
<1>2. \A x \in 0 .. Len(path) : end[x] \in 0 .. Len(k)
    BY DEF Cuts
<1>3. Len(path) \in T
    BY <1>1 DEF Cuts
<1>4. PICK x \in T : \A z \in T : x <= z
    BY <1>3, SetHasLeast
<1>5. x # 0
    BY <1>1 DEF Cuts
<1>6. x \in 1 .. Len(path) /\ x - 1 \in 0 .. Len(path) /\ ~(x <= x - 1)
    BY <1>1, <1>5
<1>7. ~(y <= end[x - 1])
    BY <1>4, <1>6
<1>8. end[x - 1] < y
    BY <1>1, <1>2, <1>6, <1>7
<1> QED
    BY <1>6, <1>8

\* A path denotes only keys with as many separators.
LEMMA DenotedSlashes ==
    ASSUME NEW path \in Text, NEW k \in Text, Denotes(path, k)
    PROVE  Count(path, Slash) = Count(k, Slash)
<1>1. PICK end : Cuts(path, k, end)
    BY DenotesCuts
<1> DEFINE P == {x \in DOMAIN path : path[x] = Slash}
           K == {y \in DOMAIN k : k[y] = Slash}
           f == [x \in P |-> end[x]]
<1>2. Len(path) \in Nat /\ Len(k) \in Nat /\ DOMAIN path = 1 .. Len(path) /\ DOMAIN k = 1 .. Len(k)
    BY DEF Text
<1>3. \A x \in 0 .. Len(path) : end[x] \in 0 .. Len(k)
    BY <1>1 DEF Cuts
<1>4. ASSUME NEW x \in P
      PROVE  end[x] = end[x - 1] + 1 /\ end[x] \in K
    <2>1. x \in 1 .. Len(path) /\ x - 1 \in 0 .. Len(path) /\ path[x] # Star
        BY <1>2 DEF Slash, Star
    <2>2. end[x] = end[x - 1] + 1 /\ k[end[x]] = path[x]
        BY <1>1, <2>1 DEF Cuts, Piece
    <2>3. end[x] \in 1 .. Len(k)
        BY <1>2, <1>3, <2>1, <2>2
    <2> QED
        BY <1>2, <2>2, <2>3
<1>5. f \in [P -> K]
    BY <1>4
<1>6. ASSUME NEW a \in P, NEW b \in P, a < b PROVE end[a] # end[b]
    <2>1. a \in 0 .. Len(path) /\ b - 1 \in 0 .. Len(path) /\ a <= b - 1
        BY <1>2, <1>6
    <2>2. end[a] <= end[b - 1]
        BY <1>1, <2>1, CutsMonotone
    <2> QED
        BY <1>2, <1>3, <1>4, <2>1, <2>2
<1>7. ASSUME NEW a \in P, NEW b \in P, f[a] = f[b] PROVE a = b
    BY <1>2, <1>6, <1>7
<1>8. ASSUME NEW y \in K PROVE \E x \in P : f[x] = y
    <2>1. PICK x \in 1 .. Len(path) : end[x - 1] < y /\ y <= end[x]
        BY <1>1, <1>2, CutsCover
    <2>2. Piece(path, k, x, end[x - 1], end[x])
        BY <1>1 DEF Cuts
    <2>3. x - 1 \in 0 .. Len(path) /\ x \in 0 .. Len(path) /\ y \in 1 .. Len(k)
        BY <1>2
    <2>4. y \in end[x - 1] + 1 .. end[x]
        BY <1>2, <1>3, <2>1, <2>3
    <2>5. path[x] # Star /\ end[x] = end[x - 1] + 1 /\ k[end[x]] = path[x]
        BY <2>2, <2>4 DEF Piece
    <2>6. end[x] = y
        BY <1>3, <2>1, <2>3, <2>5
    <2> QED
        BY <1>2, <2>5, <2>6
<1>9. f \in Bijection(P, K)
    BY <1>5, <1>7, <1>8, Fun_IsBij
<1>10. IsFiniteSet(P)
    <2>1. P \subseteq 1 .. Len(path)
        BY <1>2
    <2> HIDE DEF P
    <2>2. IsFiniteSet(1 .. Len(path))
        BY <1>2, FS_Interval
    <2> QED
        BY <2>1, <2>2, FS_Subset
<1> QED
    <2> HIDE DEF P, K, f
    <2>1. Cardinality(K) = Cardinality(P)
        BY <1>9, <1>10, FS_Bijection DEF ExistsBijection
    <2> QED
        BY <2>1 DEF P, K, Count

\* A path denotes itself, and without "*" nothing else.
LEMMA DenotesItself ==
    ASSUME NEW path \in Text
    PROVE  Denotes(path, path)
<1> DEFINE end == [x \in 0 .. Len(path) |-> x]
<1>1. Len(path) \in Nat /\ Slash # Star
    BY DEF Text, Slash, Star
<1>2. ASSUME NEW x \in 1 .. Len(path) PROVE Piece(path, path, x, end[x - 1], end[x])
    <2>1. end[x - 1] = x - 1 /\ end[x] = x /\ \A y \in x - 1 + 1 .. x : y = x
        BY <1>1
    <2> HIDE DEF end
    <2> QED
        BY <1>1, <2>1 DEF Piece
<1>3. end \in [0 .. Len(path) -> 0 .. Len(path)] /\ end[0] = 0 /\ end[Len(path)] = Len(path)
    BY <1>1
<1>4. Cuts(path, path, end)
    <2> HIDE DEF end
    <2> QED
        BY <1>2, <1>3 DEF Cuts
<1> QED
    BY <1>4, DenotesCuts

LEMMA DenotesOnlyItself ==
    ASSUME NEW path \in Text, NEW k \in Text, ~Has(path, Star), Denotes(path, k)
    PROVE  path = k
<1>1. PICK end : Cuts(path, k, end)
    BY DenotesCuts
<1>2. Len(path) \in Nat /\ Len(k) \in Nat
    BY DEF Text
<1>3. ASSUME NEW x \in 1 .. Len(path) PROVE end[x] = end[x - 1] + 1 /\ k[end[x]] = path[x]
    <2>1. path[x] # Star
        BY DEF Has, Text
    <2> QED
        BY <1>1, <2>1 DEF Cuts, Piece
<1> DEFINE T == {x \in Nat : x \in 0 .. Len(path) /\ end[x] # x}
<1>4. T = {}
    <2> SUFFICES ASSUME T # {} PROVE FALSE
        OBVIOUS
    <2>1. PICK x \in T : \A y \in T : x <= y
        BY SetHasLeast
    <2>2. x # 0 /\ x \in 1 .. Len(path)
        BY <1>1, <1>2 DEF Cuts
    <2>3. x - 1 \in Nat /\ x - 1 \in 0 .. Len(path) /\ ~(x <= x - 1)
        BY <1>2, <2>2
    <2>4. end[x - 1] = x - 1
        BY <2>1, <2>3
    <2> QED
        BY <1>3, <2>2, <2>4
<1>5. \A x \in 0 .. Len(path) : end[x] = x
    BY <1>2, <1>4
<1>6. Len(path) = Len(k)
    BY <1>1, <1>2, <1>5 DEF Cuts
<1>7. \A x \in 1 .. Len(path) : path[x] = k[x]
    BY <1>2, <1>3, <1>5
<1> QED
    BY <1>6, <1>7, SeqEqual DEF Text

\* Match decides exactly what the path denotes, for paths and keys of any
\* length over any alphabet (key.go, Match).
THEOREM MatchDenotes ==
    ASSUME NEW path \in Text, NEW k \in Text
    PROVE  Match(path, k) <=> Denotes(path, k)
BY FilepathMatchDenotes, DenotedSlashes, DenotesItself, DenotesOnlyItself, Zenon DEF Match

-----------------------------------------------------------------------------
(***************************************************************************)
(* What the modules Stream and Storage take from key.Match.                *)
(***************************************************************************)
\* A key is matched by itself alone, which is what a broadcast to a pool that
\* is a key relies on (key.go, Match and Peer).
THEOREM KeyMatchesItself ==
    ASSUME NEW k \in Text, NEW other \in Text, IsKey(k)
    PROVE  Match(k, other) <=> other = k
BY DEF Match, IsKey

\* Whatever a path matches, a path that matches it matches: the keys of a
\* narrower subscription are among those of a wider one (key.go, Match).
THEOREM MatchTransitive ==
    ASSUME NEW path \in Text, NEW mid \in Text, NEW k \in Text,
           Match(path, mid), Match(mid, k)
    PROVE  Match(path, k)
<1>1. PICK to : Cuts(path, mid, to)
    BY MatchDenotes, DenotesCuts
<1>2. PICK on : Cuts(mid, k, on)
    BY MatchDenotes, DenotesCuts
<1> DEFINE end == [x \in 0 .. Len(path) |-> on[to[x]]]
<1>3. Len(path) \in Nat /\ Len(mid) \in Nat /\ Len(k) \in Nat
    BY DEF Text
<1>4. \A x \in 0 .. Len(path) : to[x] \in 0 .. Len(mid)
    BY <1>1 DEF Cuts
<1>5. \A y \in 0 .. Len(mid) : on[y] \in 0 .. Len(k)
    BY <1>2 DEF Cuts
<1>6. ASSUME NEW x \in 1 .. Len(path) PROVE Piece(path, k, x, end[x - 1], end[x])
    <2>1. x \in 0 .. Len(path) /\ x - 1 \in 0 .. Len(path)
        BY <1>3
    <2>2. end[x - 1] = on[to[x - 1]] /\ end[x] = on[to[x]]
        BY <2>1
    <2> HIDE DEF end
    <2>3. Piece(path, mid, x, to[x - 1], to[x])
        BY <1>1 DEF Cuts
    <2>4. end[x - 1] <= end[x]
        BY <1>2, <1>4, <2>1, <2>2, <2>3, CutsMonotone DEF Piece
    <2>5. CASE path[x] = Star
        <3>1. ASSUME NEW z \in end[x - 1] + 1 .. end[x] PROVE k[z] # Slash
            <4>1. z \in 1 .. Len(k) /\ end[x - 1] < z /\ z <= end[x]
                BY <1>3, <1>4, <1>5, <2>1, <2>2
            <4>2. PICK y \in 1 .. Len(mid) : on[y - 1] < z /\ z <= on[y]
                BY <1>2, <4>1, CutsCover
            <4>3. y - 1 \in 0 .. Len(mid) /\ y \in 0 .. Len(mid)
                BY <1>3
            <4>4. to[x - 1] \in 0 .. Len(mid) /\ to[x] \in 0 .. Len(mid)
                BY <1>4, <2>1
            <4>5. {on[y - 1], on[y], on[to[x - 1]], on[to[x]]} \subseteq 0 .. Len(k)
                BY <1>5, <4>3, <4>4
            <4>6. y <= to[x - 1] => on[y] <= on[to[x - 1]]
                BY <1>2, <4>3, <4>4, CutsMonotone
            <4>7. to[x] <= y - 1 => on[to[x]] <= on[y - 1]
                BY <1>2, <4>3, <4>4, CutsMonotone
            <4>8. ~(y <= to[x - 1]) /\ ~(to[x] <= y - 1)
                BY <1>3, <2>2, <4>1, <4>2, <4>5, <4>6, <4>7
            <4>9. y \in to[x - 1] + 1 .. to[x]
                BY <1>3, <4>3, <4>4, <4>8
            <4>10. mid[y] # Slash
                BY <2>3, <2>5, <4>9 DEF Piece
            <4>11. Piece(mid, k, y, on[y - 1], on[y])
                BY <1>2 DEF Cuts
            <4>12. CASE mid[y] = Star
                <5>1. z \in on[y - 1] + 1 .. on[y]
                    BY <1>3, <4>1, <4>2, <4>5
                <5> QED
                    BY <4>11, <4>12, <5>1 DEF Piece
            <4>13. CASE mid[y] # Star
                <5>1. on[y] = on[y - 1] + 1 /\ k[on[y]] = mid[y]
                    BY <4>11, <4>13 DEF Piece
                <5>2. z = on[y]
                    BY <1>3, <4>1, <4>2, <4>5, <5>1
                <5> QED
                    BY <4>10, <5>1, <5>2
            <4> QED
                BY <4>12, <4>13
        <3> QED
            BY <2>4, <2>5, <3>1 DEF Piece
    <2>6. CASE path[x] # Star
        <3>1. to[x] = to[x - 1] + 1 /\ mid[to[x]] = path[x]
            BY <2>3, <2>6 DEF Piece
        <3>2. to[x] \in 1 .. Len(mid) /\ to[x] - 1 = to[x - 1]
            BY <1>3, <1>4, <2>1, <3>1
        <3>3. Piece(mid, k, to[x], on[to[x] - 1], on[to[x]])
            BY <1>2, <3>2 DEF Cuts
        <3>4. on[to[x]] = on[to[x - 1]] + 1 /\ k[on[to[x]]] = mid[to[x]]
            BY <2>6, <3>1, <3>2, <3>3 DEF Piece
        <3> QED
            BY <2>2, <2>4, <2>6, <3>1, <3>4 DEF Piece
    <2> QED
        BY <2>5, <2>6
<1>7. end \in [0 .. Len(path) -> 0 .. Len(k)] /\ end[0] = 0 /\ end[Len(path)] = Len(k)
    BY <1>1, <1>2, <1>3, <1>4, <1>5 DEF Cuts
<1>8. Cuts(path, k, end)
    <2> HIDE DEF end
    <2> QED
        BY <1>6, <1>7 DEF Cuts
<1> QED
    BY <1>8, DenotesCuts, MatchDenotes

\* The only glob of a path is its last character.
EndsInGlob(path) ==
    /\ Len(path) > 0 /\ path[Len(path)] = Star
    /\ \A x \in 1 .. Len(path) - 1 : path[x] # Star

LEMMA GlobAtEnd ==
    ASSUME NEW path \in Text, NEW k \in Text, EndsInGlob(path)
    PROVE  Match(path, k)
           <=> /\ Len(path) - 1 <= Len(k)
               /\ \A x \in 1 .. Len(path) - 1 : path[x] = k[x]
               /\ \A y \in Len(path) .. Len(k) : k[y] # Slash
<1> DEFINE n == Len(path)
<1>1. n \in Nat \ {0} /\ Len(k) \in Nat /\ n - 1 \in 0 .. n /\ n \in 1 .. n
    BY DEF Text, EndsInGlob
<1>2. ASSUME NEW end, Cuts(path, k, end)
      PROVE  /\ n - 1 <= Len(k)
             /\ \A x \in 1 .. n - 1 : path[x] = k[x]
             /\ \A y \in n .. Len(k) : k[y] # Slash
    <2>1. ASSUME NEW x \in 1 .. n - 1 PROVE end[x] = end[x - 1] + 1 /\ k[end[x]] = path[x]
        <3>1. x \in 1 .. n /\ path[x] # Star
            BY <1>1 DEF EndsInGlob
        <3> QED
            BY <1>2, <3>1 DEF Cuts, Piece
    <2> DEFINE T == {x \in Nat : x \in 0 .. n - 1 /\ end[x] # x}
    <2>2. T = {}
        <3> SUFFICES ASSUME T # {} PROVE FALSE
            OBVIOUS
        <3>1. PICK x \in T : \A y \in T : x <= y
            BY SetHasLeast
        <3>2. x # 0 /\ x \in 1 .. n - 1
            BY <1>1, <1>2 DEF Cuts
        <3>3. x - 1 \in Nat /\ x - 1 \in 0 .. n - 1 /\ ~(x <= x - 1)
            BY <1>1, <3>2
        <3>4. end[x - 1] = x - 1
            BY <3>1, <3>3
        <3> QED
            BY <2>1, <3>2, <3>4
    <2>3. \A x \in 0 .. n - 1 : end[x] = x
        BY <1>1, <2>2
    <2>4. end[n - 1] = n - 1 /\ end[n] = Len(k) /\ Piece(path, k, n, end[n - 1], end[n])
        BY <1>1, <1>2, <2>3 DEF Cuts
    <2>5. n - 1 <= Len(k) /\ \A y \in n - 1 + 1 .. Len(k) : k[y] # Slash
        BY <2>4 DEF Piece, EndsInGlob
    <2>6. \A x \in 1 .. n - 1 : path[x] = k[x]
        BY <1>1, <2>1, <2>3
    <2> QED
        BY <1>1, <2>5, <2>6
<1>3. ASSUME /\ n - 1 <= Len(k)
             /\ \A x \in 1 .. n - 1 : path[x] = k[x]
             /\ \A y \in n .. Len(k) : k[y] # Slash
      PROVE  \E end : Cuts(path, k, end)
    <2> DEFINE end == [x \in 0 .. n |-> IF x = n THEN Len(k) ELSE x]
    <2>1. end \in [0 .. n -> 0 .. Len(k)] /\ end[0] = 0 /\ end[n] = Len(k)
        BY <1>1, <1>3
    <2>2. ASSUME NEW x \in 1 .. n PROVE Piece(path, k, x, end[x - 1], end[x])
        <3>1. CASE x = n
            <4>1. end[x - 1] = n - 1 /\ end[x] = Len(k) /\ n - 1 + 1 = n
                BY <1>1, <3>1
            <4> HIDE DEF end
            <4> QED
                BY <1>3, <3>1, <4>1 DEF Piece, EndsInGlob
        <3>2. CASE x # n
            <4>1. x \in 1 .. n - 1 /\ end[x - 1] = x - 1 /\ end[x] = x
                BY <1>1, <3>2
            <4>2. path[x] # Star /\ path[x] = k[x]
                BY <1>3, <4>1 DEF EndsInGlob
            <4> HIDE DEF end
            <4> QED
                BY <4>1, <4>2 DEF Piece
        <3> QED
            BY <3>1, <3>2
    <2>3. Cuts(path, k, end)
        <3> HIDE DEF end
        <3> QED
            BY <2>1, <2>2 DEF Cuts
    <2> QED
        BY <2>3
<1> QED
    BY <1>2, <1>3, MatchDenotes, DenotesCuts

LEMMA PublishableGlobAtEnd ==
    ASSUME NEW path \in Text, Publishable(path), Has(path, Star)
    PROVE  EndsInGlob(path)
<1> DEFINE S == {x \in DOMAIN path : path[x] = Star}
<1>1. Len(path) \in Nat /\ DOMAIN path = 1 .. Len(path)
    BY DEF Text
<1>2. Len(path) \in S
    <2>1. \E x \in DOMAIN path : path[x] = Star
        BY DEF Has
    <2>2. path[Len(path)] = Star
        BY DEF Publishable
    <2> QED
        BY <1>1, <2>1, <2>2
<1>3. IsFiniteSet(S)
    <2>1. S \subseteq 1 .. Len(path)
        BY <1>1
    <2> HIDE DEF S
    <2>2. IsFiniteSet(1 .. Len(path))
        BY <1>1, FS_Interval
    <2> QED
        BY <2>1, <2>2, FS_Subset
<1>4. ASSUME NEW x \in 1 .. Len(path) - 1, path[x] = Star PROVE FALSE
    <2>1. x \in S /\ x # Len(path)
        <3>1. Len(path) \in Nat
            BY <1>1
        <3>2. x \in 1 .. Len(path) /\ x # Len(path)
            BY <3>1
        <3> QED
            BY <1>1, <1>4, <3>2
    <2>2. Cardinality(S) <= 1
        BY DEF Publishable, Count
    <2> HIDE DEF S
    <2>3. IsFiniteSet({x, Len(path)}) /\ Cardinality({x, Len(path)}) = 2
        <3>1. IsFiniteSet({x}) /\ Cardinality({x}) = 1
            BY FS_Singleton
        <3>2. ~(Len(path) \in {x})
            BY <2>1
        <3>3. IsFiniteSet({x} \cup {Len(path)}) /\ Cardinality({x} \cup {Len(path)}) = 1 + 1
            BY <3>1, <3>2, FS_AddElement, Zenon
        <3>4. {x, Len(path)} = {x} \cup {Len(path)} /\ 1 + 1 = 2
            OBVIOUS
        <3> QED
            BY <3>3, <3>4, Zenon
    <2>4. Cardinality({x, Len(path)}) <= Cardinality(S)
        BY <1>2, <1>3, <2>1, FS_Subset
    <2> QED
        BY <1>3, <2>2, <2>3, <2>4, FS_CardinalityType
<1> QED
    BY <1>1, <1>2, <1>4 DEF EndsInGlob

\* Two paths that publish would accept and that match a key in common are peers,
\* so an operation on one of them reaches the pool of the other: each such pool of
\* Stream hears (Heard) of all its loud keys (key.go, Peer; rest.go).
THEOREM PublishableDoNotCross ==
    ASSUME NEW p \in Text, NEW q \in Text, Publishable(p), Publishable(q),
           NEW k \in Text, Match(p, k), Match(q, k)
    PROVE  Peer(p, q)
<1>1. Len(p) \in Nat /\ Len(q) \in Nat /\ Len(k) \in Nat
    BY DEF Text
<1>2. ASSUME NEW a \in Text, NEW b \in Text, EndsInGlob(a), EndsInGlob(b),
             Match(a, k), Match(b, k), Len(a) <= Len(b)
      PROVE  Match(a, b)
    <2>1. Len(a) \in Nat \ {0} /\ Len(b) \in Nat \ {0}
        BY <1>2 DEF Text, EndsInGlob
    <2>2. \A x \in 1 .. Len(b) - 1 : x \in 1 .. Len(k) /\ b[x] = k[x]
        BY <1>1, <1>2, <2>1, GlobAtEnd
    <2>3. /\ \A x \in 1 .. Len(a) - 1 : a[x] = k[x]
          /\ \A y \in Len(a) .. Len(k) : k[y] # Slash
        BY <1>2, GlobAtEnd
    <2>4. \A x \in 1 .. Len(a) - 1 : a[x] = b[x]
        BY <1>2, <2>1, <2>2, <2>3
    <2>5. ASSUME NEW y \in Len(a) .. Len(b) PROVE b[y] # Slash
        <3>1. CASE y = Len(b)
            BY <1>2, <3>1 DEF EndsInGlob, Slash, Star
        <3>2. CASE y # Len(b)
            BY <1>1, <2>1, <2>2, <2>3, <3>2
        <3> QED
            BY <3>1, <3>2
    <2>6. Len(a) - 1 <= Len(b)
        BY <1>2, <2>1
    <2> QED
        BY <1>2, <2>4, <2>5, <2>6, GlobAtEnd
<1>3. CASE ~Has(p, Star) \/ ~Has(q, Star)
    BY <1>3 DEF Match, Peer
<1>4. CASE Has(p, Star) /\ Has(q, Star)
    BY <1>1, <1>2, <1>4, PublishableGlobAtEnd DEF Peer
<1> QED
    BY <1>3, <1>4

\* In particular, keys and publishable globs of any number are an instance of
\* Stream: a key covers itself alone (MatchAssumption), and two paths with a key
\* in common are peers (Heard).
THEOREM PublishableInstance ==
    ASSUME NEW keys \in SUBSET {k \in Text : IsKey(k)},
           NEW paths \in SUBSET {p \in Text : Publishable(p)}
    PROVE  /\ \A k \in keys : {other \in keys : Match(k, other)} = {k}
           /\ \A p, q \in paths :
                {k \in keys : Match(p, k)} \cap {k \in keys : Match(q, k)} # {} => Peer(p, q)
BY KeyMatchesItself, PublishableDoNotCross

\* Of globs that are not publishable it is false, and a DELETE accepts them: a key
\* that both of two crossed globs match, neither of which is part of the other
\* (key.go, Peer; rest.go, unpublish).
THEOREM CrossedGlobs ==
    ASSUME NEW a \in Letters, NEW b \in Letters
    PROVE  /\ IsValid(<<a, Slash, Star>>) /\ IsValid(<<Star, Slash, b>>)
           /\ Match(<<a, Slash, Star>>, <<a, Slash, b>>)
           /\ Match(<<Star, Slash, b>>, <<a, Slash, b>>)
           /\ ~Peer(<<a, Slash, Star>>, <<Star, Slash, b>>)
<1> DEFINE p == <<a, Slash, Star>>
           q == <<Star, Slash, b>>
           k == <<a, Slash, b>>
<1>1. /\ a # Slash /\ a # Star /\ b # Slash /\ b # Star /\ Slash # Star
      /\ {a, b, Slash, Star} \subseteq Symbols
    BY LettersAssumption DEF Symbols, Slash, Star
<1>2. /\ Len(p) = 3 /\ p[1] = a /\ p[2] = Slash /\ p[3] = Star
      /\ Len(q) = 3 /\ q[1] = Star /\ q[2] = Slash /\ q[3] = b
      /\ Len(k) = 3 /\ k[1] = a /\ k[2] = Slash /\ k[3] = b
    OBVIOUS
<1>3. p \in Text /\ q \in Text /\ k \in Text
    BY <1>1 DEF Text
<1>4. DOMAIN p = 1 .. 3 /\ DOMAIN q = 1 .. 3
    BY <1>2, <1>3 DEF Text
<1> HIDE DEF p, q, k
<1>5. \A x \in 1 .. 3 : x = 1 \/ x = 2 \/ x = 3
    OBVIOUS
<1>6. \A x \in 1 .. 3 - 1 : x = 1 \/ x = 2
    OBVIOUS
<1>7. IsValid(p) /\ IsValid(q)
    <2>1. GlobRegex(p) /\ GlobRegex(q)
        BY <1>1, <1>2, <1>4, <1>5 DEF GlobRegex
    <2>2. ~Doubled(p, Slash) /\ ~Doubled(p, Star) /\ ~Doubled(q, Slash) /\ ~Doubled(q, Star)
        BY <1>1, <1>2, <1>6 DEF Doubled
    <2> QED
        BY <2>1, <2>2 DEF IsValid
<1>8. EndsInGlob(p)
    BY <1>1, <1>2, <1>6 DEF EndsInGlob
<1>9. Match(p, k)
    <2>1. \A y \in 3 .. 3 : y = 3
        OBVIOUS
    <2>2. /\ Len(p) - 1 <= Len(k)
          /\ \A x \in 1 .. Len(p) - 1 : p[x] = k[x]
          /\ \A y \in Len(p) .. Len(k) : k[y] # Slash
        BY <1>1, <1>2, <1>6, <2>1
    <2> QED
        BY <1>3, <1>8, <2>2, GlobAtEnd
<1>10. ~Match(p, q)
    <2>1. 1 \in 1 .. Len(p) - 1 /\ p[1] # q[1]
        BY <1>1, <1>2
    <2> QED
        BY <1>3, <1>8, <2>1, GlobAtEnd
<1>11. Match(q, k)
    <2> DEFINE end == [x \in 0 .. 3 |-> x]
    <2>1. end \in [0 .. Len(q) -> 0 .. Len(k)] /\ end[0] = 0 /\ end[Len(q)] = Len(k)
        BY <1>2
    <2>2. ASSUME NEW x \in 1 .. 3 PROVE Piece(q, k, x, end[x - 1], end[x])
        <3>1. end[x - 1] = x - 1 /\ end[x] = x
            OBVIOUS
        <3> HIDE DEF end
        <3>2. \A y \in x - 1 + 1 .. x : y = x
            OBVIOUS
        <3>3. q[x] = Star => k[x] # Slash
            BY <1>1, <1>2, <1>5
        <3>4. q[x] # Star => k[x] = q[x]
            BY <1>1, <1>2, <1>5
        <3> QED
            BY <3>1, <3>2, <3>3, <3>4 DEF Piece
    <2> HIDE DEF end
    <2>3. Cuts(q, k, end)
        BY <1>2, <2>1, <2>2 DEF Cuts
    <2> QED
        BY <1>3, <2>3, DenotesCuts, MatchDenotes
<1>12. ~Match(q, p)
    <2> SUFFICES ASSUME NEW end, Cuts(q, p, end) PROVE FALSE
        BY <1>3, DenotesCuts, MatchDenotes
    <2>1. end[3] = 3 /\ Piece(q, p, 3, end[3 - 1], end[3])
        BY <1>2 DEF Cuts
    <2>2. p[end[3]] = q[3]
        BY <1>1, <1>2, <2>1 DEF Piece
    <2> QED
        BY <1>1, <1>2, <2>1, <2>2
<1> QED
    BY <1>7, <1>9, <1>10, <1>11, <1>12 DEF Peer, p, q, k

-----------------------------------------------------------------------------
(***************************************************************************)
(* Build.                                                                  *)
(***************************************************************************)
\* The last index of a key is what follows its last separator.
LEMMA LastIndexIs ==
    ASSUME NEW k \in Text, NEW at \in 0 .. Len(k),
           at = 0 \/ k[at] = Slash, \A y \in at + 1 .. Len(k) : k[y] # Slash
    PROVE  LastIndex(k) = SubSeq(k, at + 1, Len(k))
<1> DEFINE cut == {0} \cup {x \in DOMAIN k : k[x] = Slash}
           from == CHOOSE x \in cut : \A y \in cut : y <= x
<1>1. Len(k) \in Nat /\ DOMAIN k = 1 .. Len(k)
    BY DEF Text
<1>2. at \in cut /\ \A y \in cut : y \in Nat /\ y <= at
    BY <1>1
<1> HIDE DEF cut
<1>3. from \in cut /\ \A y \in cut : y <= from
    BY <1>2
<1>4. from = at
    <2> HIDE DEF from
    <2> QED
        BY <1>2, <1>3
<1> QED
    BY <1>4 DEF LastIndex, cut

\* The other way about: a path ends in a sub path "*" when that is its last
\* index.
LEMMA LastIndexStar ==
    ASSUME NEW path \in Text, Len(path) > 1, LastIndex(path) = <<Star>>
    PROVE  path[Len(path)] = Star /\ path[Len(path) - 1] = Slash
<1> DEFINE cut == {0} \cup {x \in DOMAIN path : path[x] = Slash}
           from == CHOOSE x \in cut : \A y \in cut : y <= x
           n == Len(path)
<1>1. n \in Nat /\ DOMAIN path = 1 .. n
    BY DEF Text
<1>2. \E x \in cut : \A y \in cut : y <= x
    <2> DEFINE T == {m \in Nat : \E x \in cut : m = n - x}
    <2>1. \A x \in cut : x \in 0 .. n
        BY <1>1
    <2>2. n \in T
        <3>1. 0 \in cut /\ n \in Nat /\ n = n - 0
            BY <1>1
        <3> HIDE DEF cut
        <3> QED
            BY <3>1
    <2> HIDE DEF cut
    <2>3. PICK m \in T : \A z \in T : m <= z
        BY <2>2, SetHasLeast
    <2>4. PICK x \in cut : m = n - x
        OBVIOUS
    <2>5. ASSUME NEW y \in cut PROVE y <= x
        <3>1. n - y \in T
            BY <1>1, <2>1
        <3> QED
            BY <1>1, <2>1, <2>3, <2>4, <3>1
    <2> QED
        BY <2>5
<1>3. from \in cut /\ \A y \in cut : y <= from
    <2> HIDE DEF cut
    <2> QED
        BY <1>2
<1>4. SubSeq(path, from + 1, n) = <<Star>>
    BY DEF LastIndex
<1>5. from \in 0 .. n /\ (from # 0 => path[from] = Slash)
    BY <1>1, <1>3
<1> HIDE DEF from, cut
<1>6. from + 1 <= n
    <2>1. n < from + 1 => SubSeq(path, from + 1, n) = << >>
        BY <1>1, <1>5, SubSeqEmpty DEF Text
    <2> QED
        BY <1>1, <1>4, <1>5, <2>1
<1>7. Len(SubSeq(path, from + 1, n)) = n - from /\ SubSeq(path, from + 1, n)[1] = path[from + 1]
    <2>1. path \in Seq(Symbols) /\ from + 1 \in 1 .. n + 1 /\ n \in from .. n
        BY <1>1, <1>5, <1>6 DEF Text
    <2> QED
        BY <1>1, <1>5, <1>6, <2>1, SubSeqProperties
<1>8. n - from = 1 /\ path[from + 1] = Star
    <2>1. Len(<<Star>>) = 1 /\ <<Star>>[1] = Star
        OBVIOUS
    <2> QED
        BY <1>4, <1>7, <2>1, Zenon
<1>9. from = n - 1 /\ from + 1 = n /\ from # 0
    <2>1. n \in Nat /\ from \in 0 .. n
        BY <1>1, <1>5
    <2> QED
        BY <1>8, <2>1
<1> QED
    BY <1>5, <1>8, <1>9

\* Build puts the index in the place of the glob.
LEMMA BuildReplaces ==
    ASSUME NEW path \in Text, Publishable(path), Len(path) > 1, LastIndex(path) = <<Star>>,
           NEW index \in Seq(Letters)
    PROVE  /\ EndsInGlob(path) /\ path[Len(path) - 1] = Slash
           /\ Build(path, index) \in Text
           /\ Len(Build(path, index)) = Len(path) - 1 + Len(index)
           /\ \A x \in 1 .. Len(path) - 1 : Build(path, index)[x] = path[x]
           /\ \A y \in Len(path) .. Len(path) - 1 + Len(index) :
                Build(path, index)[y] \in Letters
           /\ \A y \in 1 .. Len(index) : Build(path, index)[Len(path) - 1 + y] = index[y]
<1> DEFINE n == Len(path)
           globs == {x \in 1 .. n - 1 : path[x] = Slash /\ path[x + 1] = Star}
           head == SubSeq(path, 1, n - 1)
<1>1. n \in Nat /\ DOMAIN path = 1 .. n /\ n - 1 \in 1 .. n /\ n \in 1 .. n
    BY DEF Text
<1>2. path[n] = Star /\ path[n - 1] = Slash
    BY LastIndexStar
<1>3. Has(path, Star)
    BY <1>1, <1>2 DEF Has
<1>4. EndsInGlob(path)
    BY <1>3, PublishableGlobAtEnd
<1>5. globs = {n - 1}
    <2>1. n - 1 \in globs
        BY <1>1, <1>2
    <2>2. ASSUME NEW x \in globs PROVE x = n - 1
        <3>1. x \in 1 .. n - 1 /\ path[x + 1] = Star
            OBVIOUS
        <3>2. x + 1 \in 1 .. n - 1 => path[x + 1] # Star
            BY <1>4 DEF EndsInGlob
        <3>3. ~(x + 1 \in 1 .. n - 1)
            BY <3>1, <3>2
        <3>4. n \in Nat
            BY <1>1
        <3> HIDE DEF n, globs
        <3> QED
            BY <3>1, <3>3, <3>4
    <2> QED
        BY <2>1, <2>2
<1> HIDE DEF globs
<1>6. (CHOOSE x \in globs : \A y \in globs : x <= y) = n - 1
    <2> DEFINE at == CHOOSE x \in globs : \A y \in globs : x <= y
    <2>1. \E x \in globs : \A y \in globs : x <= y
        BY <1>1, <1>5
    <2>2. at \in globs
        BY <2>1
    <2> QED
        BY <1>5, <2>2
<1>7. Build(path, index) = head \o index \o SubSeq(path, n - 1 + 2, n)
    <2>1. globs # {}
        BY <1>5
    <2> QED
        BY <1>3, <1>6, <2>1, Zenon DEF Build, globs
<1>8. SubSeq(path, n - 1 + 2, n) = << >>
    BY <1>1, SubSeqEmpty DEF Text
<1>9. index \in Text /\ Len(index) \in Nat
    BY DEF Text, Symbols
<1>10. head \in Text /\ Len(head) = n - 1 /\ \A x \in 1 .. n - 1 : head[x] = path[x]
    <2>1. 1 \in Int /\ n - 1 \in Int /\ \A x \in 1 .. n - 1 : path[x] \in Symbols
        BY <1>1 DEF Text
    <2>2. /\ head \in Seq(Symbols)
          /\ Len(head) = IF 1 <= n - 1 THEN n - 1 - 1 + 1 ELSE 0
          /\ \A x \in 1 .. n - 1 - 1 + 1 : head[x] = path[1 + x - 1]
        BY <2>1, SubSeqProperties
    <2>3. 1 <= n - 1 /\ n - 1 - 1 + 1 = n - 1 /\ \A x \in 1 .. n - 1 : 1 + x - 1 = x
        BY <1>1
    <2> HIDE DEF head
    <2> QED
        BY <2>2, <2>3 DEF Text
<1> HIDE DEF head
<1>11. /\ head \o index \in Text
       /\ Len(head \o index) = n - 1 + Len(index)
       /\ \A x \in 1 .. n - 1 + Len(index) :
            (head \o index)[x] = IF x <= n - 1 THEN head[x] ELSE index[x - (n - 1)]
    <2>1. /\ head \o index \in Text
          /\ Len(head \o index) = Len(head) + Len(index)
          /\ \A x \in 1 .. Len(head) + Len(index) :
               (head \o index)[x] = IF x <= Len(head) THEN head[x] ELSE index[x - Len(head)]
        BY <1>9, <1>10, ConcatProperties, Zenon DEF Text
    <2>2. Len(head) = n - 1
        BY <1>10
    <2> HIDE DEF n
    <2> QED
        BY <2>1, <2>2, Zenon
<1>12. Build(path, index) = head \o index
    BY <1>7, <1>8, <1>11, ConcatEmptySeq DEF Text
<1>13. \A x \in 1 .. n - 1 : Build(path, index)[x] = path[x]
    <2>1. \A x \in 1 .. n - 1 : x \in 1 .. n - 1 + Len(index) /\ x <= n - 1
        BY <1>1, <1>9
    <2> QED
        BY <1>10, <1>11, <1>12, <2>1
<1>14. \A y \in 1 .. Len(index) : Build(path, index)[n - 1 + y] = index[y]
    <2>1. \A y \in 1 .. Len(index) :
            /\ n - 1 + y \in 1 .. n - 1 + Len(index)
            /\ ~(n - 1 + y <= n - 1)
            /\ n - 1 + y - (n - 1) = y
        BY <1>1, <1>9
    <2> QED
        BY <1>11, <1>12, <2>1
<1>15. \A y \in n .. n - 1 + Len(index) : Build(path, index)[y] \in Letters
    <2> SUFFICES ASSUME NEW y \in n .. n - 1 + Len(index) PROVE Build(path, index)[y] \in Letters
        OBVIOUS
    <2>1. y - (n - 1) \in 1 .. Len(index) /\ n - 1 + (y - (n - 1)) = y
        BY <1>1, <1>9
    <2>2. Build(path, index)[y] = index[y - (n - 1)]
        BY <1>14, <2>1
    <2> QED
        BY <2>1, <2>2
<1> QED
    BY <1>2, <1>4, <1>11, <1>12, <1>13, <1>14, <1>15

\* A publish on a path that ends in a sub path "*" makes a key that is valid,
\* has no glob, is matched by the path and has the time as last index, whatever
\* the text of that time (key.go, Build and LastIndex).
THEOREM BuiltKey ==
    ASSUME NEW path \in Text, Publishable(path), Len(path) > 1, LastIndex(path) = <<Star>>,
           NEW index \in Seq(Letters), index # << >>
    PROVE  /\ IsKey(Build(path, index))
           /\ IsValid(Build(path, index))
           /\ Match(path, Build(path, index))
           /\ LastIndex(Build(path, index)) = index
<1> DEFINE n == Len(path)
           b == Build(path, index)
<1>1. /\ EndsInGlob(path) /\ path[n - 1] = Slash
      /\ b \in Text
      /\ Len(b) = n - 1 + Len(index)
      /\ \A x \in 1 .. n - 1 : b[x] = path[x]
      /\ \A y \in n .. n - 1 + Len(index) : b[y] \in Letters
      /\ \A y \in 1 .. Len(index) : b[n - 1 + y] = index[y]
    BY BuildReplaces
<1>2. n \in Nat /\ Len(index) \in Nat \ {0} /\ n > 1
    BY EmptySeq DEF Text
<1>3. n >= 3 /\ ~Doubled(path, Slash) /\ path[1] # Slash
    BY <1>2 DEF Publishable, IsValid, GlobRegex
<1> HIDE DEF b
<1>4. ASSUME NEW y \in n .. Len(b) PROVE b[y] # Slash /\ b[y] # Star
    BY <1>1, LettersAssumption
<1>5. DOMAIN b = 1 .. Len(b) /\ Len(b) \in Nat
    BY <1>1 DEF Text
<1>6. ASSUME NEW x \in 1 .. Len(b) PROVE b[x] # Star
    <2>1. CASE x \in 1 .. n - 1
        BY <1>1, <2>1 DEF EndsInGlob
    <2>2. CASE x \in n .. Len(b)
        BY <1>4, <2>2
    <2> QED
        BY <1>2, <1>5, <2>1, <2>2
<1>7. IsKey(b)
    BY <1>5, <1>6 DEF IsKey, Has
<1>8. ~Doubled(b, Slash)
    <2> SUFFICES ASSUME NEW x \in 1 .. Len(b) - 1, b[x] = Slash, b[x + 1] = Slash
                 PROVE  FALSE
        BY DEF Doubled
    <2>1. x \in 1 .. Len(b) /\ x + 1 \in 1 .. Len(b)
        BY <1>5
    <2>2. ~(x + 1 \in n .. Len(b))
        BY <1>4
    <2>3. x \in 1 .. n - 1 /\ x + 1 \in 1 .. n - 1
        BY <1>2, <1>5, <2>1, <2>2
    <2>4. path[x] = Slash /\ path[x + 1] = Slash
        BY <1>1, <2>3
    <2>5. x \in 1 .. Len(path) - 1
        BY <2>3
    <2> QED
        BY <1>3, <2>4, <2>5 DEF Doubled
<1>9. ~Doubled(b, Star)
    <2> SUFFICES ASSUME NEW x \in 1 .. Len(b) - 1, b[x] = Star PROVE FALSE
        BY DEF Doubled
    <2>1. x \in 1 .. Len(b)
        BY <1>5
    <2> QED
        BY <1>6, <2>1
<1>10. Len(b) >= 3 /\ Len(b) \in n .. Len(b) /\ 1 \in 1 .. n - 1
    BY <1>1, <1>2, <1>3
<1>11. IsValid(b)
    <2>1. \A x \in DOMAIN b : b[x] \in Symbols
        BY <1>1 DEF Text
    <2>2. b[1] # Slash
        BY <1>1, <1>3, <1>10
    <2>3. b[Len(b)] # Slash
        BY <1>4, <1>10
    <2> QED
        BY <1>8, <1>9, <1>10, <2>1, <2>2, <2>3 DEF IsValid, GlobRegex
<1>12. Match(path, b)
    <2>1. n - 1 <= Len(b)
        BY <1>1, <1>2
    <2> QED
        BY <1>1, <1>4, <2>1, GlobAtEnd
<1>13. LastIndex(b) = SubSeq(b, n - 1 + 1, Len(b))
    <2>1. n - 1 \in 0 .. Len(b) /\ n - 1 \in 1 .. n - 1 /\ n - 1 + 1 = n
        BY <1>1, <1>2
    <2>2. b[n - 1] = Slash
        BY <1>1, <2>1
    <2>3. \A y \in n - 1 + 1 .. Len(b) : b[y] # Slash
        BY <1>4, <2>1
    <2> HIDE DEF n
    <2> QED
        BY <1>1, <2>1, <2>2, <2>3, LastIndexIs
<1>14. SubSeq(b, n - 1 + 1, Len(b)) = index
    <2>1. n - 1 + 1 = n /\ n \in Int /\ Len(b) \in Int /\ \A x \in n .. Len(b) : b[x] \in Letters
        BY <1>1, <1>2, <1>5
    <2>2. /\ SubSeq(b, n, Len(b)) \in Seq(Letters)
          /\ Len(SubSeq(b, n, Len(b))) = IF n <= Len(b) THEN Len(b) - n + 1 ELSE 0
          /\ \A x \in 1 .. Len(b) - n + 1 : SubSeq(b, n, Len(b))[x] = b[n + x - 1]
        BY <2>1, SubSeqProperties
    <2>3. Len(b) - n + 1 = Len(index) /\ n <= Len(b)
        BY <1>1, <1>2
    <2>4. \A x \in 1 .. Len(index) : n + x - 1 = n - 1 + x
        BY <1>2
    <2>5. \A x \in 1 .. Len(index) : SubSeq(b, n, Len(b))[x] = index[x]
        BY <1>1, <2>2, <2>3, <2>4
    <2>6. Len(SubSeq(b, n, Len(b))) = Len(index)
        BY <2>2, <2>3
    <2>7. SubSeq(b, n, Len(b)) = index
        BY <2>2, <2>5, <2>6, SeqEqual
    <2> QED
        BY <2>1, <2>7
<1> QED
    BY <1>7, <1>11, <1>12, <1>13, <1>14 DEF b

\* Two pushes to a list replace each other only if they were given the same time:
\* the keys of different times differ (key.go, Build).
THEOREM BuiltKeysDiffer ==
    ASSUME NEW path \in Text, Publishable(path), Len(path) > 1, LastIndex(path) = <<Star>>,
           NEW index \in Seq(Letters), index # << >>,
           NEW other \in Seq(Letters), other # << >>
    PROVE  Build(path, index) = Build(path, other) => index = other
<1>1. LastIndex(Build(path, index)) = index /\ LastIndex(Build(path, other)) = other
    BY BuiltKey
<1> QED
    BY <1>1

-----------------------------------------------------------------------------
(***************************************************************************)
(* The runs of KeyCases.                                                   *)
(***************************************************************************)
LEMMA WordsAreText ==
    Valid \subseteq Text
BY BoundsAssumption DEF Valid, Words, Text

\* The arguments of every input are texts.
THEOREM ArgsType ==
    Spec => [](args \in Seq(Text))
<1>1. Init => args \in Seq(Text)
    BY DEF Init
<1>2. args \in Seq(Text) /\ [Next]_args => (args \in Seq(Text))'
    BY WordsAreText DEF Next, Draw
<1> QED
    BY <1>1, <1>2, PTL DEF Spec

\* Match decides the denotation of the path on every input of the run, for any
\* bound on the length of a path and any letters (key.go, Match).
THEOREM MatchIsDenotationTheorem ==
    Spec => []MatchIsDenotation
<1>1. args \in Seq(Text) => MatchIsDenotation
    BY MatchDenotes DEF MatchIsDenotation
<1> QED
    BY <1>1, ArgsType, PTL

\* Build makes a key of a path that ends in a sub path "*" on every input of
\* the run (key.go, Build; rest.go, publish).
THEOREM BuildMakesKeyTheorem ==
    Spec => []BuildMakesKey
<1>1. ASSUME args \in Seq(Text) PROVE BuildMakesKey
    <2> SUFFICES ASSUME NEW i \in DOMAIN args,
                        Publishable(args[i]), Len(args[i]) > 1, LastIndex(args[i]) = <<Star>>,
                        NEW index \in [1 .. 2 -> Letters]
                 PROVE  /\ IsKey(Build(args[i], index))
                        /\ IsValid(Build(args[i], index))
                        /\ Match(args[i], Build(args[i], index))
                        /\ LastIndex(Build(args[i], index)) = index
        BY Zenon DEF BuildMakesKey
    <2>1. args[i] \in Text
        BY <1>1
    <2>2. index \in Seq(Letters)
        <3>1. \A n \in Nat : [1 .. n -> Letters] \subseteq Seq(Letters)
            BY SeqDef
        <3>2. 2 \in Nat
            OBVIOUS
        <3> QED
            BY <3>1, <3>2, Zenon
    <2>3. index # << >>
        <3>1. 1 \in DOMAIN index /\ DOMAIN << >> = {}
            OBVIOUS
        <3> QED
            BY <3>1
    <2> QED
        BY <2>1, <2>2, <2>3, BuiltKey
<1> QED
    BY <1>1, ArgsType, PTL
=============================================================================
