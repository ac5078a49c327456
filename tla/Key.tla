-------------------------------- MODULE Key --------------------------------
(***************************************************************************)
(* Keys and glob paths (key/key.go).                                       *)
(*                                                                         *)
(* A key is the sequence of its characters.  Which character counts only   *)
(* for "/", which separates the sub paths, and for "*", which stands for   *)
(* any run of characters of one sub path; all the others are Letters.      *)
(***************************************************************************)
EXTENDS Naturals, Sequences, FiniteSets

CONSTANT Letters        \* the characters of a key other than "/" and "*"

Slash == "/"
Star  == "*"

ASSUME LettersAssumption == Slash \notin Letters /\ Star \notin Letters

Symbols == Letters \cup {Slash, Star}

\* strings.Contains(s, x) and strings.Count(s, x) for one character x.
Has(s, x)   == \E i \in DOMAIN s : s[i] = x
Count(s, x) == Cardinality({i \in DOMAIN s : s[i] = x})

\* strings.Contains(s, "xx") for one character x.
Doubled(s, x) == \E i \in 1 .. Len(s) - 1 : s[i] = x /\ s[i + 1] = x

(***************************************************************************)
(* IsValid: no empty sub path, no "**", no "/" at either end.  The regular *)
(* expression has an alternative for one character and one for at least    *)
(* three.                                                                  *)
(***************************************************************************)
GlobRegex(s) ==
    /\ Len(s) = 1 \/ Len(s) >= 3
    /\ \A i \in DOMAIN s : s[i] \in Symbols
    /\ s[1] # Slash /\ s[Len(s)] # Slash

IsValid(s) == ~Doubled(s, Slash) /\ ~Doubled(s, Star) /\ GlobRegex(s)

(***************************************************************************)
(* filepath.Match of the Go library on patterns without "?", "[" and "\".  *)
(* Suffixes says of each two positions whether the pattern from the first  *)
(* on matches the name from the second on.                                 *)
(***************************************************************************)
Suffixes(pattern, name) ==
    LET match[at \in (1 .. Len(pattern) + 1) \X (1 .. Len(name) + 1)] ==
          LET i == at[1]
              j == at[2]
          IN  IF i > Len(pattern)
              THEN j > Len(name)
              ELSE IF pattern[i] = Star
                   THEN \/ match[<<i + 1, j>>]
                        \/ j <= Len(name) /\ name[j] # Slash /\ match[<<i, j + 1>>]
                   ELSE /\ j <= Len(name)
                        /\ pattern[i] = name[j]
                        /\ match[<<i + 1, j + 1>>]
    IN  match

FilepathMatch(pattern, name) == Suffixes(pattern, name)[<<1, 1>>]

\* Mutant of Match: the two sides in either order.
MatchEitherWayMutant(path, k) ==
    \/ path = k
    \/ FilepathMatch(path, k)
    \/ FilepathMatch(k, path)

\* A key is part of a path: the same text, or a glob that matches it and has
\* as many separators.
Match(path, k) ==
    \/ path = k
    \/ /\ Has(path, Star)
       /\ FilepathMatch(path, k)
       /\ Count(path, Slash) = Count(k, Slash)

Peer(a, b) == Match(a, b) \/ Match(b, a)

\* Contains: some path of s is a peer of e.
Contains(s, e) == \E a \in s : Peer(a, e)

\* The text after the last separator, the whole key when it has none.
LastIndex(k) ==
    LET cut == {0} \cup {i \in DOMAIN k : k[i] = Slash}
        from == CHOOSE i \in cut : \A j \in cut : j <= i
    IN  SubSeq(k, from + 1, Len(k))

\* Mutant of Build: the separator goes with the glob it stands before.
BuildWithoutSlashMutant(path, index) ==
    LET globs == {i \in 1 .. Len(path) - 1 : path[i] = Slash /\ path[i + 1] = Star}
    IN  IF globs = {}
        THEN path
        ELSE LET at == CHOOSE i \in globs : \A j \in globs : i <= j
             IN  SubSeq(path, 1, at - 1) \o index \o SubSeq(path, at + 2, Len(path))

(***************************************************************************)
(* Build: a path with a glob gets the time as index in the place of its    *)
(* first "*" that follows a separator; index is that time in hexadecimal.  *)
(***************************************************************************)
Build(path, index) ==
    LET globs == {i \in 1 .. Len(path) - 1 : path[i] = Slash /\ path[i + 1] = Star}
    IN  IF ~Has(path, Star) \/ globs = {}
        THEN path
        ELSE LET at == CHOOSE i \in globs : \A j \in globs : i <= j
             IN  SubSeq(path, 1, at) \o index \o SubSeq(path, at + 2, Len(path))

\* publish refuses a path that is not valid, one with several globs, and one
\* whose glob is not its last character (rest.go).
Publishable(path) ==
    /\ IsValid(path)
    /\ Count(path, Star) <= 1
    /\ Has(path, Star) => path[Len(path)] = Star

============================================================================
