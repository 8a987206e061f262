------------------------ MODULE MCReplyPublication ------------------------
(***************************************************************************)
(* Finite instances of ReplyPublication for TLC.                           *)
(***************************************************************************)
EXTENDS ReplyPublication, TLC

CONSTANTS r1, r2, r3, k1, hello, bye, p1, p2, p3,
    post1, post2, post3, acme, beta, gamma

(* One account, one post, one parent. *)
OneParentPost == [p \in {p1} |-> post1]
OneAccount == [p \in {post1} |-> acme]

(* Two accounts with a post and a parent each. *)
TwoPosts == (p1 :> post1) @@ (p2 :> post2)

(* Two accounts that may use one key, one of them for two parents. *)
ThreeParentsPost == (p1 :> post1) @@ (p2 :> post1) @@ (p3 :> post2)
TwoAccounts == (post1 :> acme) @@ (post2 :> beta)

(* Three accounts with a post and a parent each. *)
ThreePosts == (p1 :> post1) @@ (p2 :> post2) @@ (p3 :> post3)
ThreeAccounts == (post1 :> acme) @@ (post2 :> beta) @@ (post3 :> gamma)

AcmeNative == [a \in {acme} |-> "native"]
AcmeNone == [a \in {acme} |-> "none"]
NativeAndNone == (acme :> "native") @@ (beta :> "none")
BothNative == [a \in {acme, beta} |-> "native"]
NativeAndUnpublishable ==
    (acme :> "native") @@ (beta :> "unsupported") @@ (gamma :> "unregistered")

Symmetry == Permutations(Requests)

(* The retry of one request attaches the reply; the requests of an instance are
   interchangeable, so that it stands for all of them. *)
LastRetryAttaches == RetryAttaches(r3)
=============================================================================
