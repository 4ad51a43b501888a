---------------------------- MODULE MCChapterRead ----------------------------
(* ChapterRead with a few revisions for TLC: x and y differ in their          *)
(* validators only, u and v have none and cannot be told apart.               *)
EXTENDS ChapterRead, TLC

CONSTANTS x, y, u, v, huge, c

MCArchiveSize == [rev \in Revision |-> CASE rev \in {x, y} -> 1 [] rev \in {u, v} -> 2 [] OTHER -> 3]
MCValidators ==
  [rev \in Revision |-> IF rev \in {u, v} THEN NoValidators ELSE rev]
MCPageSizes ==
  [rev \in Revision |-> IF rev \in {x, y} THEN <<4, 1>> ELSE IF rev = u THEN <<3>> ELSE <<3, 1>>]

Ask == [Idle EXCEPT !.at = "asked"]
AskPage(rev, index) == [Ask EXCEPT !.kind = "page", !.key = CacheKey(rev), !.index = index]

MCMade ==
  [r \in Reader |-> {[Ask EXCEPT !.formed = FALSE]} \cup {AskPage(rev, 2) : rev \in {x, y}}]

\* x and y have the same sizes and pages.
Symmetry == Permutations({x, y})
=============================================================================
