----------------------------- MODULE MCCheckout -----------------------------
(***************************************************************************)
(* Checkout for TLC.  Three titles share the slug of x, so that siblings   *)
(* do: x itself, blank, which is x between blanks and reads back as x, and *)
(* void, which is empty and makes a file that does not parse.              *)
(***************************************************************************)
EXTENDS Checkout

CONSTANTS x, blank, void

Read ==
  [cols \in [Rendered -> Values] |->
     IF void \in Range(cols) THEN None
     ELSE [c \in Rendered |-> IF cols[c] = blank THEN x ELSE cols[c]]]

Slugged == [v \in Values |-> IF v \in {blank, void} THEN x ELSE v]

Plain == [c \in Columns |-> x]

Padded == [c \in Columns |-> blank]

Empty == [c \in Columns |-> void]

Forests(S, contents) ==
  {fs \in [S -> [parent : S \cup {None}, tenant : {None}, cols : contents]] : IsForest(fs)}

Trees(S, contents) == {fs \in Forests(S, contents) : Cardinality(Roots(fs)) = 1}

Stored(contents, n) ==
  UNION {Forests(S, contents) : S \in {S \in SUBSET Ids : Cardinality(S) \in 1 .. n}}

SomeForests ==
  Stored({Plain}, 2) \cup Trees(Ids, {Plain})
    \cup UNION {Trees(S, {Plain, Padded, Empty}) : S \in {S \in SUBSET Ids : Cardinality(S) \in 1 .. 2}}

Symmetry == Permutations(Ids)
=============================================================================
