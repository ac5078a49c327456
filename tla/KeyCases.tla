------------------------------ MODULE KeyCases ------------------------------
(***************************************************************************)
(* The operators of Key compared with reference definitions on every       *)
(* valid path of at most MaxLen characters.  The state is the list of      *)
(* paths a caller hands to the key package, drawn one after another, so    *)
(* that each reachable state is one input of the operators.                *)
(***************************************************************************)
EXTENDS Key

CONSTANTS
    MaxLen,             \* bound on the length of a path
    Arity               \* how many paths an input has

ASSUME BoundsAssumption == MaxLen \in Nat /\ Arity \in 1 .. 2

VARIABLE args           \* the paths drawn so far

Words == UNION {[1 .. n -> Symbols] : n \in 1 .. MaxLen}
Valid == {s \in Words : IsValid(s)}

Init == args = <<>>

Draw(s) == Len(args) < Arity /\ args' = Append(args, s)

Next == \E s \in Valid : Draw(s)

Spec == Init /\ [][Next]_args

-----------------------------------------------------------------------------
(***************************************************************************)
(* What a glob denotes, said without an algorithm: the key can be cut into *)
(* consecutive pieces, one for each character of the path (the piece of    *)
(* character i ends at end[i]), where a "*" takes a piece without "/" and  *)
(* any other character takes itself.                                       *)
(***************************************************************************)
Denotes(path, k) ==
    \E end \in [0 .. Len(path) -> 0 .. Len(k)] :
       /\ end[0] = 0
       /\ end[Len(path)] = Len(k)
       /\ \A i \in 1 .. Len(path) :
            /\ end[i - 1] <= end[i]
            /\ IF path[i] = Star
               THEN \A j \in end[i - 1] + 1 .. end[i] : k[j] # Slash
               ELSE end[i] = end[i - 1] + 1 /\ k[end[i]] = path[i]

\* The keys, in the sense of storage.go: "key cannot not include glob pattern".
IsKey(s) == ~Has(s, Star)

\* Match decides exactly the denotation of the path, so the separator count
\* that Match adds to filepath.Match never refuses a key, and the shortcut for
\* a path without "*" never misses one (key.go, Match).
MatchIsDenotation ==
    Len(args) = 2 => (Match(args[1], args[2]) <=> Denotes(args[1], args[2]))

\* A path that publish accepts and that ends in a sub path "*" is built into a
\* key without glob, which the path matches, whose last index is the time it
\* got (key.go, Build and LastIndex, as publish and Set use them).
BuildMakesKey ==
    \A s \in {args[i] : i \in DOMAIN args} :
       Publishable(s) /\ Len(s) > 1 /\ LastIndex(s) = <<Star>> =>
          \A index \in [1 .. 2 -> Letters] :
             /\ IsKey(Build(s, index))
             /\ IsValid(Build(s, index))
             /\ Match(s, Build(s, index))
             /\ LastIndex(Build(s, index)) = index

=============================================================================
