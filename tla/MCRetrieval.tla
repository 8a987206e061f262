---------------------------- MODULE MCRetrieval ----------------------------
(***************************************************************************)
(* A finite instance of Retrieval for TLC: the demo gateway with pages of  *)
(* two, the limited one with pages of one and no replies, a platform       *)
(* without a gateway and a post that does not exist.                       *)
(***************************************************************************)
EXTENDS Retrieval, TLC

CONSTANTS w1, w2, r1, a, b, c, d, e, f, g, demoPost, limitedPost, otherPost,
          noPost, repliesToA, repliesToG

ThePlatforms ==
    (demoPost :> "demo") @@ (repliesToA :> "demo") @@ (limitedPost :> "demo-limited")
        @@ (repliesToG :> "demo-limited") @@ (otherPost :> "other") @@ (noPost :> None)

TheParents ==
    (repliesToA :> a) @@ (repliesToG :> g) @@ [t \in Threads |-> None]

TheSeeds ==
    (demoPost :> <<a, b, c>>) @@ (repliesToA :> <<d, f>>) @@ (limitedPost :> <<g>>)
        @@ [t \in Threads |-> <<>>]

TheReplies == r1 :> e

TheCapabilities ==
    ("demo" :> [rootComments |-> TRUE, directReplies |-> TRUE, pageSize |-> 2]) @@
    ("demo-limited" :> [rootComments |-> TRUE, directReplies |-> FALSE, pageSize |-> 1])

Failures == {"PLATFORM_TIMEOUT"}
Earlier == {{}, {a, d, g}}

(* What later steps and the properties depend on: not what a walk that failed
   had got, nor from where a request that is over began. *)
Failed == {w \in Walks : result[w] \notin {None, "complete"}}
Walked(w) == IF w \in Failed THEN None ELSE <<query[w], got[w], began[w]>>
View ==
    <<provider, rows, at, page, result, [w \in Walks |-> Walked(w)],
      [c1 \in Requests |-> IF UnderWay(c1) THEN <<query[c1], floor[c1]>> ELSE None],
      intact \ Failed, quiet \ Failed>>

Symmetry == Permutations({w1, w2})
=============================================================================
