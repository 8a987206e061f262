-------------------------- MODULE RetrievalProofs --------------------------
(***************************************************************************)
(* Retrieval for all walks, publications, threads, comments and page       *)
(* sizes.  What a page, a reply or a not-found writes into the projection  *)
(* is never older than the request that writes it; a walk lists what its   *)
(* thread had when it began, and the provider's own comments even across   *)
(* restarts; and one that has the projection to itself leaves it current.  *)
(***************************************************************************)
EXTENDS Retrieval, TLAPS

Editions == [Comments -> Nat]
Query == [thread : Threads, cursor : Cursors]
Page == [items : Seq(Item), next : Nat \cup {None}]

-----------------------------------------------------------------------------
(* Lists, slices and prefixes *)

LEMMA SeqFacts ==
    ASSUME NEW S, NEW s \in Seq(S)
    PROVE  /\ DOMAIN s = 1..Len(s) /\ Len(s) \in Nat
           /\ \A i \in 1..Len(s) : s[i] \in S
           /\ ToSet(s) \subseteq S
BY DEF ToSet

LEMMA Enumerated ==
    ASSUME NEW S, NEW k \in Nat, NEW s \in [1..k -> S]
    PROVE  s \in Seq(S) /\ Len(s) = k
OBVIOUS

LEMMA PrefixAt ==
    ASSUME NEW S, NEW s \in Seq(S), NEW t \in Seq(S)
    PROVE  IsPrefix(s, t) <=> Len(s) <= Len(t) /\ \A n \in 1..Len(s) : s[n] = t[n]
<1>1. SubSeq(s, 1, Len(s)) = s
    OBVIOUS
<1>2. Len(s) <= Len(t) => /\ SubSeq(t, 1, Len(s)) \in Seq(S)
                          /\ Len(SubSeq(t, 1, Len(s))) = Len(s)
                          /\ \A n \in 1..Len(s) : SubSeq(t, 1, Len(s))[n] = t[n]
    OBVIOUS
<1> QED BY <1>1, <1>2 DEF IsPrefix

LEMMA Concatenated ==
    ASSUME NEW S, NEW s \in Seq(S), NEW t \in Seq(S)
    PROVE  /\ s \o t \in Seq(S) /\ Len(s \o t) = Len(s) + Len(t)
           /\ \A n \in 1..Len(s) : (s \o t)[n] = s[n]
           /\ \A n \in 1..Len(t) : (s \o t)[Len(s) + n] = t[n]
           /\ \A n \in Nat : n > Len(s) /\ n <= Len(s) + Len(t) =>
                (s \o t)[n] = t[n - Len(s)]
OBVIOUS

LEMMA JoinedSet ==
    ASSUME NEW S, NEW s \in Seq(S), NEW t \in Seq(S)
    PROVE  ToSet(s \o t) = ToSet(s) \cup ToSet(t)
<1>1. /\ DOMAIN (s \o t) = 1..(Len(s) + Len(t))
      /\ DOMAIN s = 1..Len(s) /\ DOMAIN t = 1..Len(t) /\ Len(s) \in Nat /\ Len(t) \in Nat
    OBVIOUS
<1>2. \A n \in 1..Len(s) : (s \o t)[n] = s[n]
    OBVIOUS
<1>3. \A n \in 1..Len(t) : (s \o t)[Len(s) + n] = t[n]
    OBVIOUS
<1>4. \A n \in 1..(Len(s) + Len(t)) :
         n \in 1..Len(s) \/ \E m \in 1..Len(t) : n = Len(s) + m
    <2> SUFFICES ASSUME NEW n \in 1..(Len(s) + Len(t)), n \notin 1..Len(s)
                 PROVE  \E m \in 1..Len(t) : n = Len(s) + m
        OBVIOUS
    <2>1. n - Len(s) \in 1..Len(t) /\ n = Len(s) + (n - Len(s))
        BY <1>1
    <2> QED BY <2>1
<1>5. ASSUME NEW n \in DOMAIN (s \o t) PROVE (s \o t)[n] \in ToSet(s) \cup ToSet(t)
    BY <1>1, <1>2, <1>3, <1>4 DEF ToSet
<1>6. ASSUME NEW n \in DOMAIN s PROVE s[n] \in ToSet(s \o t)
    BY <1>1, <1>2 DEF ToSet
<1>7. ASSUME NEW n \in DOMAIN t PROVE t[n] \in ToSet(s \o t)
    <2>1. Len(s) + n \in DOMAIN (s \o t)
        BY <1>1
    <2> QED BY <1>1, <1>3, <2>1 DEF ToSet
<1> QED BY <1>5, <1>6, <1>7 DEF ToSet

(* A slice is short only at the end of the list, and empty behind it. *)
LEMMA SliceFacts ==
    ASSUME NEW S, NEW list \in Seq(S), NEW offset \in Nat, NEW next \in Nat, offset <= next
    PROVE  LET slice == Slice(list, offset, next) IN
           /\ slice \in Seq(S)
           /\ \A i \in 1..Len(slice) : offset + i <= Len(list) /\ slice[i] = list[offset + i]
           /\ next <= Len(list) => Len(slice) = next - offset
           /\ Len(list) <= next => Len(list) <= offset + Len(slice)
BY DEF Slice

LEMMA PrefixJoined ==
    ASSUME NEW S, NEW s \in Seq(S), NEW t \in Seq(S)
    PROVE  IsPrefix(s, s \o t)
<1>1. s \o t \in Seq(S) /\ Len(s) <= Len(s \o t)
    OBVIOUS
<1>2. \A n \in 1..Len(s) : s[n] = (s \o t)[n]
    OBVIOUS
<1> QED BY <1>1, <1>2, PrefixAt

LEMMA PrefixAppended ==
    ASSUME NEW S, NEW s \in Seq(S), NEW t \in Seq(S), NEW x \in S
    PROVE  IsPrefix(s \o t, s \o Append(t, x))
<1>1. /\ s \o t \in Seq(S) /\ s \o Append(t, x) \in Seq(S)
      /\ Len(s \o t) <= Len(s \o Append(t, x))
    OBVIOUS
<1>2. \A n \in 1..Len(s \o t) : (s \o t)[n] = (s \o Append(t, x))[n]
    OBVIOUS
<1> QED BY <1>1, <1>2, PrefixAt

LEMMA ListFacts ==
    ASSUME TypeOK, NEW t \in Threads
    PROVE  List(t) \in Seq(Comments) /\ IsPrefix(Seeds[t], List(t))
<1>1. Seeds[t] \in Seq(Comments) /\ published[t] \in Seq(Comments)
    BY ThreadAssumption DEF TypeOK
<1>2. Seeds[t] \o published[t] \in Seq(Comments)
    BY <1>1
<1> QED BY <1>1, <1>2, PrefixJoined DEF List

CommentsOf(items) == [i \in DOMAIN items |-> items[i].comment]

LEMMA CommentsOfPage ==
    ASSUME NEW items \in Seq(Item)
    PROVE  /\ CommentsOf(items) \in Seq(Comments) /\ Len(CommentsOf(items)) = Len(items)
           /\ \A i \in 1..Len(items) : CommentsOf(items)[i] = items[i].comment
<1>1. /\ DOMAIN items = 1..Len(items) /\ Len(items) \in Nat
      /\ \A i \in 1..Len(items) : items[i] \in Item
    BY SeqFacts
<1>2. CommentsOf(items) \in [1..Len(items) -> Comments]
    BY <1>1 DEF CommentsOf, Item
<1>3. CommentsOf(items) \in Seq(Comments) /\ Len(CommentsOf(items)) = Len(items)
    BY <1>1, <1>2, Enumerated
<1> QED BY <1>1, <1>3 DEF CommentsOf

(* A page shows its slice as it is at the moment; only a full page has a next
   cursor, and only one that comes to the end of the list has none. *)
LEMMA PageFacts ==
    ASSUME TypeOK, NEW t \in Threads, Registered(t), NEW cursor \in Nat \cup {None}
    PROVE  LET p == PageOf(t, cursor)
               offset == DecodeOffset(cursor)
           IN  /\ p \in Page /\ offset \in Nat
               /\ \A i \in 1..Len(p.items) :
                    /\ offset + i <= Len(List(t)) /\ p.items[i].comment = List(t)[offset + i]
                    /\ p.items[i].edition = edition[p.items[i].comment]
               /\ p.next # None => p.next = offset + Len(p.items)
               /\ p.next = None => Len(List(t)) <= offset + Len(p.items)
<1> DEFINE p == PageOf(t, cursor)
           offset == DecodeOffset(cursor)
           next == offset + Capabilities[PlatformOf[t]].pageSize
           items == Slice(List(t), offset, next)
<1>1. offset \in Nat /\ next \in Nat /\ offset <= next
    BY CapabilityAssumption DEF Registered, DecodeOffset
<1>2. /\ p = [items |-> [i \in DOMAIN items |-> Observed(items[i])],
              next |-> IF next < Len(List(t)) THEN next ELSE None]
    BY DEF PageOf, NextCursor
<1>3. List(t) \in Seq(Comments) /\ Len(List(t)) \in Nat
    BY ListFacts, SeqFacts
<1> HIDE DEF offset, next
<1>4. /\ items \in Seq(Comments)
      /\ \A i \in 1..Len(items) : offset + i <= Len(List(t)) /\ items[i] = List(t)[offset + i]
      /\ next <= Len(List(t)) => Len(items) = next - offset
      /\ Len(List(t)) <= next => Len(List(t)) <= offset + Len(items)
    BY <1>1, <1>3, SliceFacts
<1> HIDE DEF items
<1>5. /\ DOMAIN items = 1..Len(items) /\ Len(items) \in Nat
      /\ \A i \in 1..Len(items) : items[i] \in Comments
    BY <1>4, SeqFacts
<1>6. p.items \in [1..Len(items) -> Item]
    BY <1>2, <1>5 DEF Observed, Item, TypeOK
<1>7. p.items \in Seq(Item) /\ Len(p.items) = Len(items)
    BY <1>5, <1>6, Enumerated
<1> HIDE DEF p
<1>8. p \in Page
    BY <1>1, <1>2, <1>7 DEF Page
<1>9. \A i \in 1..Len(items) : p.items[i] = Observed(items[i])
    BY <1>2, <1>5
<1>10. p.next # None => p.next = offset + Len(p.items)
    BY <1>1, <1>2, <1>3, <1>4, <1>7
<1>11. p.next = None => Len(List(t)) <= offset + Len(p.items)
    BY <1>1, <1>2, <1>3, <1>4, <1>7, ValueAssumption
<1>12. \A i \in 1..Len(p.items) :
         /\ offset + i <= Len(List(t)) /\ p.items[i].comment = List(t)[offset + i]
         /\ p.items[i].edition = edition[p.items[i].comment]
    <2> SUFFICES ASSUME NEW i \in 1..Len(items)
                 PROVE  /\ offset + i <= Len(List(t)) /\ p.items[i].comment = List(t)[offset + i]
                        /\ p.items[i].edition = edition[p.items[i].comment]
        BY <1>7
    <2>1. p.items[i] = Observed(items[i])
        BY <1>9
    <2>2. p.items[i].comment = items[i] /\ p.items[i].edition = edition[items[i]]
        BY <2>1 DEF Observed
    <2> QED BY <1>4, <2>2
<1> USE DEF offset, p
<1> QED BY ONLY <1>1, <1>8, <1>10, <1>11, <1>12

-----------------------------------------------------------------------------
(* Where a request is and what it holds *)

(* A walk: a thread of a registered platform once its context is found, a cursor
   the gateway decoded and a page until it is stored, a cursor to go on from. *)
WalkControl(w) ==
    /\ at[w] \notin {"store", "mark"}
    /\ at[w] = "idle" => got[w] = <<>> /\ w \notin intact \cup quiet
    /\ at[w] # "idle" => /\ query[w] \in Query
                         /\ began[w] \in [list : Seq(Comments), edition : Editions]
    /\ at[w] \in {"gateway", "save"} => Registered(query[w].thread)
    /\ at[w] = "save" => query[w].cursor # ForeignCursor /\ page[w] \in Page
    /\ at[w] = "answered" => page[w] \in Page /\ page[w].next # None
    /\ at[w] # "done" => result[w] = None

(* A publication: a thread with a parent, and then the reply, or the parent once
   it is gone. *)
ReplyControl(r) ==
    /\ at[r] \in {"idle", "gateway", "store", "mark", "done"}
    /\ at[r] # "idle" => query[r] \in Query /\ ParentOf[query[r].thread] # None
    /\ at[r] \in {"store", "mark"} => page[r] \in Page /\ Len(page[r].items) = 1
    /\ at[r] = "store" => page[r].items[1].comment = ReplyOf[r]

ControlInv ==
    /\ TypeOK
    /\ \A w \in Walks : WalkControl(w)
    /\ \A r \in Publications : ReplyControl(r)

(* What a step of another request leaves alone. *)
Untouched(d) ==
    /\ at'[d] = at[d] /\ query'[d] = query[d] /\ page'[d] = page[d] /\ floor'[d] = floor[d]
    /\ d \in Walks => /\ got'[d] = got[d] /\ result'[d] = result[d] /\ began'[d] = began[d]
                      /\ (d \in intact' => d \in intact) /\ (d \in quiet' => d \in quiet)

(* A request the restart or a rejected call ended. *)
Ended(d) ==
    /\ at[d] # "idle" /\ at'[d] = "done" /\ query'[d] = query[d] /\ floor'[d] = floor[d]
    /\ d \in Walks => /\ got'[d] = got[d] /\ result'[d] = "lost" /\ began'[d] = began[d]
                      /\ (d \in intact' => d \in intact) /\ (d \in quiet' => d \in quiet)

LEMMA ControlStep ==
    ASSUME ControlInv, TypeOK', NEW c \in Requests,
           \A d \in Requests \ {c} : Untouched(d) \/ Ended(d),
           c \in Walks => WalkControl(c)', c \in Publications => ReplyControl(c)'
    PROVE  ControlInv'
<1>1. ASSUME NEW w \in Walks PROVE WalkControl(w)'
    <2>1. CASE w = c
        BY <2>1
    <2>2. CASE w # c
        <3>1. (Untouched(w) \/ Ended(w)) /\ WalkControl(w)
            BY <2>2 DEF Requests, ControlInv
        <3> QED BY <3>1 DEF Untouched, Ended, WalkControl
    <2> QED BY <2>1, <2>2
<1>2. ASSUME NEW r \in Publications PROVE ReplyControl(r)'
    <2>1. CASE r = c
        BY <2>1
    <2>2. CASE r # c
        <3>1. (Untouched(r) \/ Ended(r)) /\ ReplyControl(r)
            BY <2>2 DEF Requests, ControlInv
        <3> QED BY <3>1 DEF Untouched, Ended, ReplyControl
    <2> QED BY <2>1, <2>2
<1> QED BY <1>1, <1>2 DEF ControlInv

(* Requests that are ended, and the others that go on. *)
LEMMA EndedStep ==
    ASSUME ControlInv, TypeOK', \A d \in Requests : Untouched(d) \/ Ended(d)
    PROVE  ControlInv'
<1>1. ASSUME NEW w \in Walks PROVE WalkControl(w)'
    <2>1. (Untouched(w) \/ Ended(w)) /\ WalkControl(w)
        BY DEF Requests, ControlInv
    <2> QED BY <2>1 DEF Untouched, Ended, WalkControl
<1>2. ASSUME NEW r \in Publications PROVE ReplyControl(r)'
    <2>1. (Untouched(r) \/ Ended(r)) /\ ReplyControl(r)
        BY DEF Requests, ControlInv
    <2> QED BY <2>1 DEF Untouched, Ended, ReplyControl
<1> QED BY <1>1, <1>2 DEF ControlInv

LEMMA WalkIsRequest ==
    ASSUME NEW w \in Walks
    PROVE  w \in Requests /\ w \notin Publications
BY ValueAssumption DEF Requests

LEMMA BeginWalkControl ==
    ASSUME ControlInv, NEW w \in Walks, BeginWalk(w)
    PROVE  ControlInv' /\ \A d \in Requests \ {w} : Untouched(d)
<1>1. w \in Requests /\ w \notin Publications /\ TypeOK
    BY WalkIsRequest DEF ControlInv
<1>2. PICK t \in Threads, cursor \in {None, ForeignCursor} :
         /\ Send(w, t, cursor)
         /\ began' = [began EXCEPT ![w] = [list |-> List(t), edition |-> edition]]
    BY DEF BeginWalk
<1>3. List(t) \in Seq(Comments)
    BY <1>1, ListFacts
<1>4. TypeOK'
    BY <1>1, <1>2, <1>3 DEF TypeOK, BeginWalk, Send, Goto, provider, Cursors
<1>5. ASSUME NEW d \in Requests \ {w} PROVE Untouched(d)
    BY <1>1, <1>2 DEF TypeOK, BeginWalk, Send, Goto, Untouched
<1>6. WalkControl(w)'
    <2>1. at'[w] = "context" /\ query'[w] \in Query /\ result'[w] = None
        BY <1>1, <1>2 DEF TypeOK, BeginWalk, Send, Goto, Query, Cursors, ControlInv, WalkControl
    <2>2. began'[w] \in [list : Seq(Comments), edition : Editions]
        BY <1>1, <1>2, <1>3 DEF TypeOK, Editions
    <2> QED BY <2>1, <2>2 DEF WalkControl
<1> QED BY <1>1, <1>4, <1>5, <1>6, ControlStep

LEMMA NextPageControl ==
    ASSUME ControlInv, NEW w \in Walks, NextPage(w)
    PROVE  ControlInv' /\ \A d \in Requests \ {w} : Untouched(d)
<1>1. w \in Requests /\ w \notin Publications /\ TypeOK /\ WalkControl(w)
    BY WalkIsRequest DEF ControlInv
<1>2. query[w] \in Query /\ page[w].next \in Cursors
    BY <1>1 DEF NextPage, WalkControl, Page, Cursors
<1>3. TypeOK'
    BY <1>1, <1>2 DEF TypeOK, NextPage, Send, Goto, provider, Query
<1>4. ASSUME NEW d \in Requests \ {w} PROVE Untouched(d)
    BY <1>1 DEF TypeOK, NextPage, Send, Goto, Untouched
<1>5. WalkControl(w)'
    <2>1. at'[w] = "context" /\ query'[w] \in Query
        BY <1>1, <1>2 DEF TypeOK, NextPage, Send, Goto, Query
    <2>2. began'[w] = began[w] /\ result'[w] = result[w] /\ at[w] = "answered"
        BY DEF NextPage
    <2> QED BY <1>1, <2>1, <2>2 DEF WalkControl
<1> QED BY <1>1, <1>3, <1>4, <1>5, ControlStep

(* A walk that ends. *)
LEMMA AnswerControl ==
    ASSUME ControlInv, NEW w \in Walks, NEW code \in Codes, Answer(w, code), at[w] # "idle",
           TypeOK', UNCHANGED <<query, history>>,
           \A d \in Walks \ {w} : got'[d] = got[d]
    PROVE  ControlInv' /\ \A d \in Requests \ {w} : Untouched(d)
<1>1. w \in Requests /\ w \notin Publications /\ TypeOK /\ WalkControl(w)
    BY WalkIsRequest DEF ControlInv
<1>2. ASSUME NEW d \in Requests \ {w} PROVE Untouched(d)
    BY <1>1 DEF TypeOK, Answer, Goto, history, Untouched
<1>3. WalkControl(w)'
    BY <1>1 DEF TypeOK, Answer, Goto, history, WalkControl
<1> QED BY <1>1, <1>2, <1>3, ControlStep

LEMMA FindContextControl ==
    ASSUME ControlInv, NEW w \in Walks, FindContext(w)
    PROVE  ControlInv' /\ \A d \in Requests \ {w} : Untouched(d)
<1>1. w \in Requests /\ w \notin Publications /\ TypeOK /\ WalkControl(w) /\ at[w] = "context"
    BY WalkIsRequest DEF ControlInv, FindContext
<1>2. UNCHANGED <<provider, rows, query, got, history>>
    BY DEF FindContext
<1>3. CASE Registered(query[w].thread) /\ Goto(w, "gateway") /\ UNCHANGED <<page, result>>
    <2>1. TypeOK'
        BY <1>1, <1>2, <1>3 DEF TypeOK, Goto, provider, history
    <2>2. ASSUME NEW d \in Requests \ {w} PROVE Untouched(d)
        BY <1>1, <1>2, <1>3 DEF TypeOK, Goto, history, Untouched
    <2>3. WalkControl(w)'
        BY <1>1, <1>2, <1>3 DEF TypeOK, Goto, history, WalkControl, Registered
    <2> QED BY <1>1, <2>1, <2>2, <2>3, ControlStep
<1>4. ASSUME NEW code \in Codes, Answer(w, code)
      PROVE  ControlInv' /\ \A d \in Requests \ {w} : Untouched(d)
    <2>1. TypeOK'
        BY <1>1, <1>2, <1>4 DEF TypeOK, Answer, Goto, provider, history
    <2> QED BY <1>1, <1>2, <1>4, <2>1, AnswerControl
<1> QED BY <1>3, <1>4 DEF FindContext, Codes

LEMMA FetchControl ==
    ASSUME ControlInv, NEW w \in Walks, Fetch(w)
    PROVE  ControlInv' /\ \A d \in Requests \ {w} : Untouched(d)
<1> DEFINE t == query[w].thread
           cursor == query[w].cursor
           p == PageOf(t, cursor)
<1>1. w \in Requests /\ w \notin Publications /\ TypeOK /\ WalkControl(w) /\ at[w] = "gateway"
    BY WalkIsRequest DEF ControlInv, Fetch
<1>2. UNCHANGED <<provider, rows, query, got, history>>
    BY DEF Fetch
<1>3. CASE /\ page' = [page EXCEPT ![w] = p] /\ Goto(w, "save")
           /\ cursor # ForeignCursor /\ result' = result
    <2>1. t \in Threads /\ Registered(t) /\ cursor \in Nat \cup {None}
        BY <1>1, <1>3 DEF WalkControl, Query, Cursors
    <2>2. p \in Page
        BY <1>1, <2>1, PageFacts
    <2> HIDE DEF p
    <2>3. TypeOK'
        BY <1>1, <1>2, <1>3, <2>2 DEF TypeOK, Goto, provider, history, Page
    <2>4. ASSUME NEW d \in Requests \ {w} PROVE Untouched(d)
        BY <1>1, <1>2, <1>3 DEF TypeOK, Goto, history, Untouched
    <2>5. WalkControl(w)'
        <3>1. at'[w] = "save" /\ page'[w] = p
            BY <1>1, <1>3 DEF TypeOK, Goto
        <3> QED BY <1>1, <1>2, <1>3, <2>2, <3>1 DEF history, WalkControl, Registered
    <2> QED BY <1>1, <2>3, <2>4, <2>5, ControlStep
<1>4. ASSUME NEW code \in Codes, Answer(w, code)
      PROVE  ControlInv' /\ \A d \in Requests \ {w} : Untouched(d)
    <2>1. TypeOK'
        BY <1>1, <1>2, <1>4 DEF TypeOK, Answer, Goto, provider, history
    <2> QED BY <1>1, <1>2, <1>4, <2>1, AnswerControl
<1> QED BY <1>3, <1>4 DEF Fetch, Codes

LEMMA SaveControl ==
    ASSUME ControlInv, NEW w \in Walks, Save(w)
    PROVE  ControlInv' /\ \A d \in Requests \ {w} : Untouched(d)
<1> DEFINE items == page[w].items
           Seen(x) == {item \in ToSet(items) : item.comment = x}
<1>1. w \in Requests /\ w \notin Publications /\ TypeOK /\ WalkControl(w) /\ at[w] = "save"
    BY WalkIsRequest DEF ControlInv, Save
<1>2. /\ UNCHANGED <<provider, query, history>>
      /\ got' = got \/ got' = [got EXCEPT ![w] = @ \o CommentsOf(items)]
    BY DEF Save, CommentsOf
<1>3. page[w] \in Page /\ items \in Seq(Item)
    BY <1>1 DEF WalkControl, Page
<1>4. rows' \in [Comments -> Row \cup {None}]
    <2>1. ASSUME NEW x \in Comments, Seen(x) # {}
          PROVE  (CHOOSE item \in Seen(x) : TRUE).edition \in Nat
        <3>1. Seen(x) \subseteq Item
            BY <1>3, SeqFacts
        <3> QED BY <2>1, <3>1 DEF Item
    <2>2. ASSUME NEW x \in Comments PROVE rows'[x] \in Row \cup {None}
        BY <1>1, <2>1, <2>2 DEF Save, Upsert, Row, TypeOK
    <2> QED BY <2>2 DEF Save
<1>5. got' \in [Walks -> Seq(Comments)]
    <2>1. got[w] \o CommentsOf(items) \in Seq(Comments)
        <3>1. got[w] \in Seq(Comments) /\ CommentsOf(items) \in Seq(Comments)
            BY <1>1, <1>3, CommentsOfPage DEF TypeOK
        <3> QED BY <3>1, Concatenated
    <2> QED BY <1>1, <1>2, <2>1 DEF TypeOK
<1>6. CASE page[w].next # None /\ Goto(w, "answered") /\ UNCHANGED <<page, result>>
    <2>1. TypeOK'
        BY <1>1, <1>2, <1>4, <1>5, <1>6 DEF TypeOK, Goto, provider, history
    <2>2. ASSUME NEW d \in Requests \ {w} PROVE Untouched(d)
        BY <1>1, <1>2, <1>6 DEF TypeOK, Goto, history, Untouched
    <2>3. WalkControl(w)'
        BY <1>1, <1>2, <1>3, <1>6 DEF TypeOK, Goto, history, WalkControl
    <2> QED BY <1>1, <2>1, <2>2, <2>3, ControlStep
<1>7. ASSUME NEW code \in {"complete", "lost"}, Answer(w, code)
      PROVE  ControlInv' /\ \A d \in Requests \ {w} : Untouched(d)
    <2>1. TypeOK' /\ code \in Codes
        BY <1>1, <1>2, <1>4, <1>5, <1>7 DEF TypeOK, Answer, Goto, provider, history, Codes
    <2>2. \A d \in Walks \ {w} : got'[d] = got[d]
        BY <1>1, <1>2 DEF TypeOK
    <2> QED BY <1>1, <1>2, <1>7, <2>1, <2>2, AnswerControl
<1> QED BY <1>6, <1>7 DEF Save

LEMMA HeldReply ==
    ASSUME TypeOK, NEW x \in Comments
    PROVE  LET p == [items |-> <<Observed(x)>>, next |-> None] IN
           p \in Page /\ Len(p.items) = 1 /\ p.items[1].comment = x
<1>1. Observed(x) \in Item /\ Observed(x).comment = x
    BY DEF TypeOK, Observed, Item
<1> QED BY <1>1 DEF Page

LEMMA PublicationControl ==
    ASSUME ControlInv, NEW r \in Publications, Publication(r)
    PROVE  ControlInv' /\ \A d \in Requests \ {r} : Untouched(d)
<1>1. r \in Requests /\ r \notin Walks /\ TypeOK /\ ReplyControl(r)
    BY ValueAssumption DEF Requests, ControlInv
<1>2. UNCHANGED <<got, result, began, intact>> /\ quiet' \subseteq quiet
    BY DEF Publication, BeginReply, Publish, SavePublishedReply, MarkDeleted, history
<1>3. CASE BeginReply(r)
    <2>1. PICK t \in Threads : /\ ParentOf[t] # None
                               /\ query' = [query EXCEPT ![r] = [thread |-> t, cursor |-> None]]
        BY <1>3 DEF BeginReply
    <2>2. TypeOK'
        BY <1>1, <1>3, <2>1 DEF TypeOK, BeginReply, Goto, provider, Cursors
    <2>3. ASSUME NEW d \in Requests \ {r} PROVE Untouched(d)
        BY <1>1, <1>2, <1>3, <2>1 DEF TypeOK, BeginReply, Goto, Untouched
    <2>4. ReplyControl(r)'
        BY <1>1, <1>3, <2>1 DEF TypeOK, BeginReply, Goto, ReplyControl, Query, Cursors
    <2> QED BY <1>1, <2>2, <2>3, <2>4, ControlStep
<1>4. CASE Publish(r)
    <2> DEFINE t == query[r].thread
               Of(x) == [items |-> <<Observed(x)>>, next |-> None]
    <2>1. at[r] = "gateway" /\ t \in Threads /\ ParentOf[t] \in Comments /\ ReplyOf[r] \in Comments
        BY <1>1, <1>4, ThreadAssumption DEF Publish, ReplyControl, Query
    <2>2. UNCHANGED <<edition, reachable, changes, rows, query, history>>
        BY <1>4 DEF Publish
    <2>3. published' \in [Threads -> Seq(Comments)]
        <3>1. published[t] \in Seq(Comments) /\ Append(published[t], ReplyOf[r]) \in Seq(Comments)
            BY <1>1, <2>1 DEF TypeOK
        <3>2. published' \in {published, [published EXCEPT ![t] = Append(@, ReplyOf[r])]}
            BY <1>4 DEF Publish
        <3> QED BY <1>1, <3>1, <3>2 DEF TypeOK
    <2>4. PICK x \in Comments, place \in {"store", "mark"} :
             /\ page' = [page EXCEPT ![r] = Of(x)] /\ Goto(r, place)
             /\ place = "store" => x = ReplyOf[r]
        BY <1>4, <2>1 DEF Publish
    <2>5. Of(x) \in Page /\ Len(Of(x).items) = 1 /\ Of(x).items[1].comment = x
        BY <1>1, HeldReply
    <2> HIDE DEF Of
    <2>6. TypeOK'
        BY <1>1, <1>2, <2>2, <2>3, <2>4, <2>5 DEF TypeOK, Goto, history, Page
    <2>7. ASSUME NEW d \in Requests \ {r} PROVE Untouched(d)
        BY <1>1, <1>2, <2>2, <2>4 DEF TypeOK, Goto, history, Untouched
    <2>8. ReplyControl(r)'
        <3>1. at'[r] = place /\ page'[r] = Of(x) /\ query'[r] = query[r]
            BY <1>1, <2>2, <2>4 DEF TypeOK, Goto
        <3> QED BY <1>1, <2>1, <2>4, <2>5, <3>1 DEF ReplyControl
    <2> QED BY <1>1, <2>6, <2>7, <2>8, ControlStep
<1>5. CASE SavePublishedReply(r) \/ MarkDeleted(r)
    <2>1. page[r].items[1] \in Item
        <3>1. page[r].items \in Seq(Item) /\ Len(page[r].items) = 1
            BY <1>1, <1>5 DEF SavePublishedReply, MarkDeleted, ReplyControl, Page
        <3> QED BY <3>1
    <2>2. rows' \in [Comments -> Row \cup {None}]
        <3> DEFINE item == page[r].items[1]
        <3>1. item.comment \in Comments /\ item.edition \in Nat
            BY <2>1 DEF Item
        <3>2. rows[item.comment] # None => rows[item.comment].edition \in Nat
            BY <1>1, <3>1 DEF TypeOK, Row
        <3> HIDE DEF item
        <3>3. PICK n \in Nat, state \in {"active", "deleted"} :
                 rows' \in {rows, [rows EXCEPT ![item.comment] = [edition |-> n, state |-> state]]}
            <4>1. CASE SavePublishedReply(r)
                BY <3>1, <3>2, <4>1 DEF SavePublishedReply, item
            <4>2. CASE MarkDeleted(r)
                BY <3>1, <4>2 DEF MarkDeleted, item
            <4> QED BY <1>5, <4>1, <4>2
        <3>4. [edition |-> n, state |-> state] \in Row
            BY DEF Row
        <3> QED BY <1>1, <3>3, <3>4 DEF TypeOK
    <2>3. /\ at[r] # "idle" /\ UNCHANGED <<provider, query, history>>
          /\ page' = [page EXCEPT ![r] = None] /\ Goto(r, "done")
        BY <1>5 DEF SavePublishedReply, MarkDeleted
    <2>4. TypeOK'
        BY <1>1, <1>2, <2>2, <2>3 DEF TypeOK, Goto, provider, history
    <2>5. ASSUME NEW d \in Requests \ {r} PROVE Untouched(d)
        BY <1>1, <1>2, <2>3 DEF TypeOK, Goto, history, Untouched
    <2>6. ReplyControl(r)'
        BY <1>1, <2>3 DEF TypeOK, Goto, ReplyControl
    <2> QED BY <1>1, <2>4, <2>5, <2>6, ControlStep
<1> QED BY <1>3, <1>4, <1>5 DEF Publication

LEMMA RejectedControl ==
    ASSUME ControlInv, NEW c \in Requests, Rejected(c)
    PROVE  ControlInv' /\ \A d \in Requests : Untouched(d) \/ Ended(d)
<1>1. TypeOK
    BY DEF ControlInv
<1>2. TypeOK'
    <2>1. result' \in [Walks -> Codes \cup {None}]
        BY <1>1 DEF Rejected, TypeOK, Codes
    <2> QED BY <1>1, <2>1 DEF Rejected, Goto, TypeOK, provider, history
<1>3. ASSUME NEW d \in Requests, d # c PROVE Untouched(d)
    BY <1>1, <1>3 DEF Rejected, Goto, TypeOK, history, Untouched
<1>4. Ended(c)
    BY <1>1 DEF Rejected, UnderWay, Goto, TypeOK, history, Ended
<1> QED BY <1>2, <1>3, <1>4, EndedStep

LEMMA ProviderControl ==
    ASSUME ControlInv, NEW x \in Comments, Edit(x) \/ Withdraw(x) \/ Restore(x)
    PROVE  ControlInv' /\ \A d \in Requests : Untouched(d)
<1>1. UNCHANGED <<published, query, rows, got, began, floor, at, page, result, intact>>
      /\ quiet' = {}
    BY DEF Edit, Withdraw, Restore, Change
<1>2. changes < MaxChanges /\ changes' = changes + 1 /\ MaxChanges \in Nat
    BY ValueAssumption DEF Edit, Withdraw, Restore, Change
<1>3. /\ edition' = [edition EXCEPT ![x] = @ + 1]
      /\ reachable' \in {reachable, reachable \ {x}, reachable \cup {x}}
    BY DEF Edit, Withdraw, Restore
<1>4. TypeOK'
    BY <1>1, <1>2, <1>3 DEF ControlInv, TypeOK
<1>5. \A d \in Requests : Untouched(d)
    BY <1>1 DEF Untouched
<1> QED BY <1>4, <1>5, EndedStep

LEMMA RestartControl ==
    ASSUME ControlInv, Restart
    PROVE  ControlInv' /\ \A d \in Requests : Untouched(d) \/ Ended(d)
<1>1. UNCHANGED <<query, rows, got, began, floor, edition, reachable>>
      /\ quiet' = {} /\ intact' = {}
    BY DEF Restart, Change
<1>2. changes' \in 0..MaxChanges
    BY ValueAssumption DEF Restart, Change, ControlInv, TypeOK
<1>3. TypeOK'
    <2>1. published' \in [Threads -> Seq(Comments)]
        BY DEF Restart
    <2>2. at' \in [Requests -> {"idle", "context", "gateway", "save", "store", "mark",
                                "answered", "done"}]
        BY DEF Restart, ControlInv, TypeOK
    <2>3. page' \in [Requests -> [items : Seq(Item), next : Nat \cup {None}] \cup {None}]
        BY DEF Restart, ControlInv, TypeOK
    <2>4. result' \in [Walks -> Codes \cup {None}]
        BY DEF Restart, ControlInv, TypeOK, Codes
    <2> QED BY <1>1, <1>2, <2>1, <2>2, <2>3, <2>4 DEF ControlInv, TypeOK
<1>4. ASSUME NEW d \in Requests, UnderWay(d) PROVE Ended(d)
    BY <1>1, <1>4 DEF Restart, UnderWay, Ended
<1>5. ASSUME NEW d \in Requests, ~UnderWay(d) PROVE Untouched(d)
    BY <1>1, <1>5 DEF Restart, Untouched
<1> QED BY <1>3, <1>4, <1>5, EndedStep

LEMMA ControlInit == Init => ControlInv
<1> SUFFICES ASSUME Init PROVE ControlInv
    OBVIOUS
<1>1. TypeOK
    BY ValueAssumption DEF Init, TypeOK, Row
<1> QED BY <1>1, ValueAssumption DEF Init, ControlInv, WalkControl, ReplyControl, Requests

LEMMA WalkControlled ==
    ASSUME ControlInv, NEW w \in Walks, Walk(w)
    PROVE  ControlInv' /\ \A d \in Requests \ {w} : Untouched(d)
BY BeginWalkControl, NextPageControl, FindContextControl, FetchControl, SaveControl DEF Walk

(* Whatever happens, ControlInv goes on, and who does not act is left alone or
   ended. *)
LEMMA ControlMoves ==
    ASSUME ControlInv, [Next]_vars
    PROVE  /\ ControlInv'
           /\ \A d \in Requests : \/ d \in Walks /\ Walk(d)
                                  \/ d \in Publications /\ Publication(d)
                                  \/ Untouched(d) \/ Ended(d)
<1>1. ASSUME NEW x \in Changing, Edit(x) \/ Withdraw(x) \/ Restore(x)
      PROVE  ControlInv' /\ \A d \in Requests : Untouched(d)
    BY <1>1, ProviderControl, ValueAssumption
<1>2. CASE UNCHANGED vars
    <2>1. ControlInv'
        BY <1>2 DEF vars, provider, history, ControlInv, TypeOK, WalkControl, ReplyControl
    <2>2. \A d \in Requests : Untouched(d)
        BY <1>2 DEF vars, history, Untouched
    <2> QED BY <2>1, <2>2
<1> QED BY <1>1, <1>2, WalkControlled, PublicationControl, RejectedControl, RestartControl
        DEF Next

LEMMA ControlNext == ControlInv /\ [Next]_vars => ControlInv'
BY ControlMoves

LEMMA ControlHolds == Spec => []ControlInv
BY ControlInit, ControlNext, PTL DEF Spec

(* Pages, rows and lists are made of comments at editions they have had, a next
   cursor is a position, and a walk ends with a code the routes know, whatever
   the pages, the failures and the restarts. *)
THEOREM TypeCorrect == Spec => []TypeOK
<1>1. ControlInv => TypeOK
    BY DEF ControlInv
<1> QED BY <1>1, ControlHolds, PTL

-----------------------------------------------------------------------------
(* What requests observe, hold and write *)

(* What c is about to write into the projection. *)
HeldBy(c) == IF at[c] \in {"save", "store", "mark"} THEN ToSet(page[c].items) ELSE {}

LEMMA HeldItems ==
    ASSUME ControlInv, NEW c \in Requests
    PROVE  /\ HeldBy(c) \subseteq Item
           /\ c \in Publications /\ at[c] \in {"store", "mark"} =>
                HeldBy(c) = {page[c].items[1]}
<1>1. at[c] \in {"save", "store", "mark"} => page[c] \in Page
    BY DEF Requests, ControlInv, WalkControl, ReplyControl
<1>2. at[c] \in {"save", "store", "mark"} => ToSet(page[c].items) \subseteq Item
    BY <1>1, SeqFacts DEF Page
<1>3. ASSUME c \in Publications, at[c] \in {"store", "mark"}
      PROVE  ToSet(page[c].items) = {page[c].items[1]}
    <2>1. page[c].items \in Seq(Item) /\ Len(page[c].items) = 1
        BY <1>1, <1>3 DEF Page, ControlInv, ReplyControl
    <2>2. DOMAIN page[c].items = {1}
        BY <2>1
    <2> QED BY <2>2 DEF ToSet
<1> QED BY <1>2, <1>3 DEF HeldBy

(* Only what the provider shows at the moment comes to be held: what a thread
   lists, the reply that is published or the parent that is gone. *)
LEMMA Observing ==
    ASSUME ControlInv, [Next]_vars, NEW c \in Requests,
           NEW item \in HeldBy(c)', item \notin HeldBy(c)
    PROVE  /\ at[c] = "gateway" /\ item = Observed(item.comment) /\ item.comment \in Comments
           /\ \/ \E t \in Threads : item.comment \in ToSet(List(t))
              \/ /\ c \in Publications
                 /\ \/ item.comment = ReplyOf[c] /\ at'[c] = "store"
                    \/ item.comment = ParentOf[query[c].thread]
<1>1. TypeOK /\ ControlInv'
    BY ControlMoves DEF ControlInv
<1>2. at'[c] \in {"save", "store", "mark"} /\ item \in ToSet(page'[c].items)
    BY DEF HeldBy
<1>3. ~Untouched(c) /\ ~Ended(c)
    BY <1>2 DEF Untouched, Ended, HeldBy
<1>4. CASE c \in Walks /\ Walk(c)
    <2> DEFINE t == query[c].thread
               cursor == query[c].cursor
               p == PageOf(t, cursor)
    <2>1. Fetch(c)
        BY <1>1, <1>2, <1>4 DEF Walk, BeginWalk, NextPage, FindContext, Save, Send, Answer, Goto,
                               TypeOK
    <2>2. at[c] = "gateway" /\ cursor # ForeignCursor /\ page'[c] = p
        BY <1>1, <1>2, <2>1 DEF Fetch, Answer, Goto, TypeOK
    <2>3. t \in Threads /\ Registered(t) /\ cursor \in Nat \cup {None}
        BY <1>4, <2>2 DEF ControlInv, WalkControl, Query, Cursors
    <2>4. /\ p.items \in Seq(Item) /\ DecodeOffset(cursor) \in Nat
          /\ \A i \in 1..Len(p.items) :
               /\ DecodeOffset(cursor) + i <= Len(List(t))
               /\ p.items[i].comment = List(t)[DecodeOffset(cursor) + i]
               /\ p.items[i].edition = edition[p.items[i].comment]
        BY <1>1, <2>3, PageFacts DEF Page
    <2> HIDE DEF p
    <2>5. PICK i \in 1..Len(p.items) : item = p.items[i]
        BY <1>2, <2>2, <2>4, SeqFacts DEF ToSet
    <2>6. item \in Item /\ item.edition = edition[item.comment]
        BY <2>4, <2>5
    <2>7. item = Observed(item.comment)
        BY <2>6 DEF Item, Observed
    <2>8. item.comment \in ToSet(List(t))
        <3>1. DecodeOffset(cursor) + i \in 1..Len(List(t)) /\ List(t) \in Seq(Comments)
            BY <1>1, <2>3, <2>4, ListFacts, SeqFacts
        <3> QED BY <2>4, <2>5, <3>1 DEF ToSet
    <2> QED BY <2>2, <2>3, <2>6, <2>7, <2>8 DEF Item
<1>5. CASE c \in Publications /\ Publication(c)
    <2>1. Publish(c)
        BY <1>1, <1>2, <1>5 DEF Publication, BeginReply, SavePublishedReply, MarkDeleted, Goto,
                               TypeOK
    <2>2. PICK x : /\ page'[c] = [items |-> <<Observed(x)>>, next |-> None]
                   /\ \/ x = ReplyOf[c] /\ at'[c] = "store"
                      \/ x = ParentOf[query[c].thread]
        BY <1>1, <2>1 DEF Publish, Goto, TypeOK
    <2>3. ToSet(<<Observed(x)>>) = {Observed(x)}
        BY DEF ToSet
    <2>4. item = Observed(x) /\ item.comment = x
        BY <1>2, <2>2, <2>3 DEF Observed
    <2>5. at[c] = "gateway" /\ x \in Comments
        BY <1>5, <2>1, <2>2, ThreadAssumption DEF Publish, ControlInv, ReplyControl, Query
    <2> QED BY <1>5, <2>2, <2>4, <2>5
<1> QED BY <1>3, <1>4, <1>5, ControlMoves

(* A row changes when a request writes what it holds, or revives it. *)
LEMMA Storing ==
    ASSUME ControlInv, [Next]_vars, NEW x \in Comments, rows'[x] # rows[x]
    PROVE  \E c \in Requests : \E item \in HeldBy(c) :
             /\ at[c] \in {"save", "store", "mark"} /\ at'[c] # at[c] /\ item.comment = x
             /\ \/ rows'[x].edition = item.edition
                \/ /\ c \in Publications /\ at[c] = "store" /\ x = ReplyOf[c]
                   /\ rows[x] # None /\ rows'[x].edition = rows[x].edition
<1>1. TypeOK
    BY DEF ControlInv
<1>2. ASSUME NEW w \in Walks, Save(w)
      PROVE  \E item \in HeldBy(w) : /\ at[w] = "save" /\ at'[w] # at[w] /\ item.comment = x
                                     /\ rows'[x].edition = item.edition
    <2> DEFINE Seen == {item \in ToSet(page[w].items) : item.comment = x}
    <2>1. w \in Requests /\ at[w] = "save" /\ at'[w] # at[w]
        BY <1>1, <1>2, WalkIsRequest DEF Save, Answer, Goto, TypeOK
    <2>2. PICK item \in Seen : rows'[x] = Upsert(rows[x], item.edition)
        BY <1>2 DEF Save
    <2>3. item \in HeldBy(w) /\ item.comment = x /\ rows'[x].edition = item.edition
        BY <2>1, <2>2 DEF HeldBy, Upsert
    <2> QED BY <2>1, <2>3
<1>3. ASSUME NEW r \in Publications, SavePublishedReply(r) \/ MarkDeleted(r)
      PROVE  \E item \in HeldBy(r) :
             /\ at[r] \in {"store", "mark"} /\ at'[r] # at[r] /\ item.comment = x
             /\ \/ rows'[x].edition = item.edition
                \/ /\ at[r] = "store" /\ x = ReplyOf[r]
                   /\ rows[x] # None /\ rows'[x].edition = rows[x].edition
    <2> DEFINE item == page[r].items[1]
    <2>1. r \in Requests /\ at[r] \in {"store", "mark"} /\ at'[r] # at[r]
        BY <1>1, <1>3 DEF Requests, SavePublishedReply, MarkDeleted, Goto, TypeOK
    <2>2. item \in HeldBy(r)
        BY <2>1, HeldItems
    <2>3. at[r] = "store" => item.comment = ReplyOf[r]
        BY DEF ControlInv, ReplyControl
    <2> HIDE DEF item
    <2>4. CASE SavePublishedReply(r)
        <3>1. /\ at[r] = "store"
              /\ rows' = [rows EXCEPT ![item.comment] =
                   [edition |-> IF rows[item.comment] = None THEN item.edition
                                ELSE rows[item.comment].edition,
                    state |-> "active"]]
            BY <2>4 DEF SavePublishedReply, item
        <3>2. /\ item.comment = x
              /\ rows'[x].edition = IF rows[x] = None THEN item.edition ELSE rows[x].edition
            BY <1>1, <3>1 DEF TypeOK
        <3> QED BY <2>1, <2>2, <2>3, <3>1, <3>2
    <2>5. CASE MarkDeleted(r)
        <3>1. rows' = [rows EXCEPT ![item.comment] =
                         [edition |-> item.edition, state |-> "deleted"]]
            BY <2>5 DEF MarkDeleted, item
        <3>2. item.comment = x /\ rows'[x].edition = item.edition
            BY <1>1, <3>1 DEF TypeOK
        <3> QED BY <2>1, <2>2, <3>2
    <2> QED BY <1>3, <2>4, <2>5
<1>4. ASSUME NEW w \in Walks, Walk(w) PROVE Save(w)
    BY <1>4 DEF Walk, BeginWalk, NextPage, Send, FindContext, Fetch
<1>5. ASSUME NEW r \in Publications, Publication(r) PROVE SavePublishedReply(r) \/ MarkDeleted(r)
    BY <1>5 DEF Publication, BeginReply, Publish
<1>6. /\ ~Restart /\ \A c \in Requests : ~Rejected(c)
      /\ \A y \in Changing : ~(Edit(y) \/ Withdraw(y) \/ Restore(y))
    BY DEF Restart, Rejected, Edit, Withdraw, Restore, Change
<1> QED BY <1>2, <1>3, <1>4, <1>5, <1>6 DEF Next, Requests, vars

(* A request knows what the provider showed when it began, and what it holds is
   not older. *)
ObservedInv(c) ==
    at[c] # "idle" =>
        /\ floor[c] \in Editions /\ \A x \in Comments : floor[c][x] <= edition[x]
        /\ \A item \in HeldBy(c) : item.edition >= floor[c][item.comment]

(* Nobody has seen comment x, which is not published yet. *)
Absent(x) ==
    /\ rows[x] = None /\ \A t \in Threads : x \notin ToSet(List(t))
    /\ \A c \in Requests : \A item \in HeldBy(c) : item.comment # x
    /\ \A r \in Publications : at[r] = "gateway" => ParentOf[query[r].thread] # x

(* Who has seen the reply of r has seen it since r began. *)
Fresh(r) ==
    LET x == ReplyOf[r] IN
    /\ rows[x] # None => rows[x].edition >= floor[r][x]
    /\ \A c \in Requests : \A item \in HeldBy(c) :
         item.comment = x => item.edition >= floor[r][x]

ReplyInv(r) ==
    /\ at[r] \in {"idle", "gateway"} => Absent(ReplyOf[r])
    /\ at[r] \in {"gateway", "store"} => Fresh(r)

Observations ==
    /\ ControlInv
    /\ \A c \in Requests : ObservedInv(c)
    /\ \A r \in Publications : ReplyInv(r)

(* Editions only grow, and not while a request observes them or begins. *)
LEMMA EditionMoves ==
    ASSUME ControlInv, [Next]_vars
    PROVE  /\ \A x \in Comments : edition[x] \in Nat /\ edition'[x] >= edition[x]
           /\ \A c \in Requests : \/ Untouched(c) \/ Ended(c)
                                  \/ edition' = edition
<1>1. edition \in [Comments -> Nat]
    BY DEF ControlInv, TypeOK
<1>2. ASSUME NEW x \in Changing, Edit(x) \/ Withdraw(x) \/ Restore(x)
      PROVE  /\ \A y \in Comments : edition'[y] >= edition[y]
             /\ \A c \in Requests : Untouched(c)
    <2>1. edition' = [edition EXCEPT ![x] = edition[x] + 1]
        BY <1>2 DEF Edit, Withdraw, Restore
    <2>2. \A y \in Comments : edition'[y] >= edition[y]
        BY <1>1, <2>1
    <2>3. \A c \in Requests : Untouched(c)
        BY <1>2, ProviderControl, ValueAssumption
    <2> QED BY <2>2, <2>3
<1>3. ASSUME NEW w \in Walks, Walk(w) PROVE edition' = edition
    BY <1>3 DEF Walk, BeginWalk, NextPage, Send, FindContext, Fetch, Save, provider
<1>4. ASSUME NEW r \in Publications, Publication(r) PROVE edition' = edition
    BY <1>4 DEF Publication, BeginReply, Publish, SavePublishedReply, MarkDeleted, provider
<1>5. ASSUME Restart \/ UNCHANGED vars \/ \E c \in Requests : Rejected(c) PROVE edition' = edition
    BY <1>5 DEF Restart, Rejected, vars, provider
<1>6. ASSUME edition' = edition PROVE \A x \in Comments : edition'[x] >= edition[x]
    BY <1>1, <1>6
<1> QED BY <1>1, <1>2, <1>3, <1>4, <1>5, <1>6 DEF Next

(* A floor is taken when a request begins, and kept. *)
LEMMA FloorMoves ==
    ASSUME ControlInv, [Next]_vars, NEW c \in Requests
    PROVE  \/ at'[c] = "idle"
           \/ at[c] # "idle" /\ floor'[c] = floor[c]
           \/ /\ floor'[c] = edition /\ edition' = edition
              /\ at'[c] \in {"context", "gateway"}
              /\ c \in Publications => at[c] = "idle" /\ at'[c] = "gateway"
<1>1. TypeOK
    BY DEF ControlInv
<1>2. CASE Untouched(c) \/ Ended(c)
    BY <1>2 DEF Untouched, Ended
<1>3. CASE c \in Walks /\ Walk(c)
    <2>1. c \notin Publications
        BY <1>3, ValueAssumption
    <2>2. CASE BeginWalk(c) \/ NextPage(c)
        BY <1>1, <2>1, <2>2 DEF BeginWalk, NextPage, Send, Goto, provider, TypeOK
    <2>3. CASE FindContext(c) \/ Fetch(c) \/ Save(c)
        BY <2>3 DEF FindContext, Fetch, Save, history
    <2> QED BY <1>3, <2>2, <2>3 DEF Walk
<1>4. CASE c \in Publications /\ Publication(c)
    <2>1. CASE BeginReply(c)
        BY <1>1, <2>1 DEF BeginReply, Goto, provider, TypeOK
    <2>2. CASE Publish(c) \/ SavePublishedReply(c) \/ MarkDeleted(c)
        BY <2>2 DEF Publish, SavePublishedReply, MarkDeleted, history
    <2> QED BY <1>4, <2>1, <2>2 DEF Publication
<1> QED BY <1>2, <1>3, <1>4, ControlMoves

LEMMA ObservedNext ==
    ASSUME Observations, [Next]_vars, NEW c \in Requests
    PROVE  ObservedInv(c)'
<1> SUFFICES ASSUME at'[c] # "idle"
             PROVE  /\ floor'[c] \in Editions /\ \A x \in Comments : floor'[c][x] <= edition'[x]
                    /\ \A item \in HeldBy(c)' : item.edition >= floor'[c][item.comment]
    BY DEF ObservedInv
<1>1. ControlInv /\ \A x \in Comments : edition[x] \in Nat /\ edition'[x] >= edition[x]
    BY EditionMoves DEF Observations
<1>2. CASE /\ floor'[c] = edition /\ edition' = edition /\ at'[c] \in {"context", "gateway"}
    <2>1. edition \in Editions
        BY <1>1 DEF ControlInv, TypeOK, Editions
    <2> QED BY <1>1, <1>2, <2>1 DEF HeldBy
<1>3. CASE at[c] # "idle" /\ floor'[c] = floor[c]
    <2>1. /\ floor[c] \in Editions /\ \A x \in Comments : floor[c][x] <= edition[x]
          /\ \A item \in HeldBy(c) : item.edition >= floor[c][item.comment]
        BY <1>3 DEF Observations, ObservedInv
    <2>2. ASSUME NEW x \in Comments PROVE floor[c][x] <= edition'[x]
        <3>1. floor[c][x] \in Nat /\ edition[x] \in Nat /\ edition'[x] \in Nat
            BY <1>1, <2>1, ControlMoves DEF Editions, ControlInv, TypeOK
        <3> QED BY <1>1, <2>1, <3>1
    <2>3. ASSUME NEW item \in HeldBy(c)' PROVE item.edition >= floor[c][item.comment]
        <3>1. CASE item \in HeldBy(c)
            BY <2>1, <3>1
        <3>2. CASE item \notin HeldBy(c)
            <4>1. item = Observed(item.comment) /\ item.comment \in Comments
                BY <1>1, <3>2, Observing
            <4>2. item.edition = edition[item.comment]
                BY <4>1 DEF Observed
            <4>3. floor[c][item.comment] \in Nat
                BY <2>1, <4>1 DEF Editions
            <4> QED BY <1>1, <2>1, <4>1, <4>2, <4>3
        <3> QED BY <3>1, <3>2
    <2> QED BY <1>3, <2>1, <2>2, <2>3
<1> QED BY <1>1, <1>2, <1>3, FloorMoves

(* Lists grow by the reply that is published. *)
LEMMA ListMoves ==
    ASSUME ControlInv, [Next]_vars, NEW t \in Threads, NEW x \in ToSet(List(t)')
    PROVE  \/ x \in ToSet(List(t))
           \/ \E r \in Publications :
                x = ReplyOf[r] /\ at[r] = "gateway" /\ at'[r] \in {"store", "mark"}
<1>1. TypeOK /\ Seeds[t] \in Seq(Comments) /\ published[t] \in Seq(Comments)
    BY ThreadAssumption DEF ControlInv, TypeOK
<1>2. \A more \in Seq(Comments) : ToSet(Seeds[t] \o more) = ToSet(Seeds[t]) \cup ToSet(more)
    BY <1>1, JoinedSet
<1>3. CASE published'[t] = published[t]
    BY <1>3 DEF List
<1>4. CASE published'[t] = <<>>
    <2>1. ToSet(<<>>) = {} /\ <<>> \in Seq(Comments)
        BY DEF ToSet
    <2> QED BY <1>1, <1>2, <1>4, <2>1 DEF List
<1>5. ASSUME NEW r \in Publications, Publish(r), published'[t] = Append(published[t], ReplyOf[r])
      PROVE  \/ x \in ToSet(List(t))
             \/ x = ReplyOf[r] /\ at[r] = "gateway" /\ at'[r] \in {"store", "mark"}
    <2>1. ReplyOf[r] \in Comments /\ published'[t] \in Seq(Comments)
        BY <1>1, <1>5, ThreadAssumption
    <2>2. ToSet(published'[t]) = ToSet(published[t]) \cup {ReplyOf[r]}
        <3>1. /\ DOMAIN published'[t] = 1..(Len(published[t]) + 1)
              /\ DOMAIN published[t] = 1..Len(published[t]) /\ Len(published[t]) \in Nat
              /\ \A n \in 1..Len(published[t]) : published'[t][n] = published[t][n]
              /\ published'[t][Len(published[t]) + 1] = ReplyOf[r]
            BY <1>1, <1>5, <2>1
        <3> QED BY <3>1 DEF ToSet
    <2>3. at[r] = "gateway" /\ at'[r] \in {"store", "mark"}
        BY <1>1, <1>5 DEF Publish, Goto, TypeOK, Requests
    <2> QED BY <1>1, <1>2, <2>1, <2>2, <2>3 DEF List
<1>6. \/ published'[t] = published[t] \/ published'[t] = <<>>
      \/ \E r \in Publications : Publish(r) /\ published'[t] = Append(published[t], ReplyOf[r])
    <2>1. ASSUME NEW w \in Walks, Walk(w) PROVE published' = published
        BY <2>1 DEF Walk, BeginWalk, NextPage, Send, FindContext, Fetch, Save, provider
    <2>2. ASSUME NEW r \in Publications, Publication(r)
          PROVE  \/ published'[t] = published[t]
                 \/ Publish(r) /\ published'[t] = Append(published[t], ReplyOf[r])
        BY <1>1, <2>2
           DEF Publication, BeginReply, Publish, SavePublishedReply, MarkDeleted, provider, TypeOK
    <2>3. ASSUME NEW y \in Changing, Edit(y) \/ Withdraw(y) \/ Restore(y)
          PROVE  published' = published
        BY <2>3 DEF Edit, Withdraw, Restore
    <2>4. Restart => published'[t] = <<>>
        BY DEF Restart
    <2>5. (UNCHANGED vars \/ \E c \in Requests : Rejected(c)) => published' = published
        BY DEF vars, Rejected, provider
    <2> QED BY <2>1, <2>2, <2>3, <2>4, <2>5 DEF Next
<1> QED BY <1>3, <1>4, <1>5, <1>6

LEMMA ReplyMoves ==
    ASSUME ControlInv, [Next]_vars, NEW r \in Publications
    PROVE  /\ at'[r] = "idle" => at[r] = "idle"
           /\ at'[r] = "gateway" => \/ at[r] = "gateway" /\ query'[r] = query[r]
                                    \/ at[r] = "idle" /\ rows[ParentOf[query'[r].thread]] # None
           /\ at'[r] = "store" => at[r] \in {"gateway", "store"}
<1>1. r \in Requests /\ r \notin Walks /\ TypeOK
    BY ValueAssumption DEF Requests, ControlInv
<1>2. CASE Untouched(r) \/ Ended(r)
    BY <1>2 DEF Untouched, Ended
<1>3. CASE BeginReply(r)
    <2>1. PICK t \in Threads :
             /\ ParentOf[t] # None /\ Found(t)
             /\ query' = [query EXCEPT ![r] = [thread |-> t, cursor |-> None]]
        BY <1>3 DEF BeginReply
    <2>2. query'[r].thread = t /\ rows[ParentOf[t]] # None
        BY <1>1, <2>1 DEF TypeOK, Found, Active
    <2>3. at[r] = "idle" /\ at'[r] = "gateway"
        BY <1>1, <1>3 DEF BeginReply, Goto, TypeOK
    <2> QED BY <2>2, <2>3
<1>4. CASE Publish(r) \/ SavePublishedReply(r) \/ MarkDeleted(r)
    BY <1>1, <1>4 DEF Publish, SavePublishedReply, MarkDeleted, Goto, TypeOK
<1> QED BY <1>1, <1>2, <1>3, <1>4, ControlMoves DEF Publication

LEMMA AbsentNext ==
    ASSUME Observations, [Next]_vars, NEW r \in Publications, at'[r] \in {"idle", "gateway"}
    PROVE  Absent(ReplyOf[r])'
<1> DEFINE x == ReplyOf[r]
<1>1. ControlInv /\ r \in Requests /\ x \in Comments
    BY ThreadAssumption DEF Observations, Requests
<1>2. at[r] \in {"idle", "gateway"}
    BY <1>1, ReplyMoves
<1>3. /\ rows[x] = None /\ \A t \in Threads : x \notin ToSet(List(t))
      /\ \A c \in Requests : \A item \in HeldBy(c) : item.comment # x
      /\ \A s \in Publications : at[s] = "gateway" => ParentOf[query[s].thread] # x
    BY <1>2 DEF Observations, ReplyInv, Absent
<1>4. \A s \in Publications : ReplyOf[s] = x => s = r
    BY ThreadAssumption
<1> HIDE DEF x
<1>5. rows'[x] = None
    BY <1>1, <1>3, Storing
<1>6. ASSUME NEW t \in Threads PROVE x \notin ToSet(List(t)')
    BY <1>1, <1>3, <1>4, ListMoves
<1>7. ASSUME NEW c \in Requests, NEW item \in HeldBy(c)' PROVE item.comment # x
    <2>1. CASE item \in HeldBy(c)
        BY <1>3, <2>1
    <2>2. CASE item \notin HeldBy(c)
        BY <1>1, <1>3, <1>4, <2>2, Observing
    <2> QED BY <2>1, <2>2
<1>8. ASSUME NEW s \in Publications, at'[s] = "gateway" PROVE ParentOf[query'[s].thread] # x
    BY <1>1, <1>3, <1>8, ReplyMoves
<1>9. \A t \in Threads : ToSet(List(t))' = ToSet(List(t)')
    BY DEF ToSet
<1> QED BY <1>5, <1>6, <1>7, <1>8 DEF Absent, x

LEMMA FreshNext ==
    ASSUME Observations, [Next]_vars, NEW r \in Publications, at'[r] = "store"
    PROVE  Fresh(r)'
<1> DEFINE x == ReplyOf[r]
<1>1. ControlInv /\ r \in Requests /\ x \in Comments
    BY ThreadAssumption DEF Observations, Requests
<1>2. at[r] \in {"gateway", "store"}
    BY <1>1, ReplyMoves
<1>3. floor'[r] = floor[r]
    BY <1>1, <1>2, FloorMoves
<1>4. /\ rows[x] # None => rows[x].edition >= floor[r][x]
      /\ \A c \in Requests : \A item \in HeldBy(c) :
           item.comment = x => item.edition >= floor[r][x]
    BY <1>2 DEF Observations, ReplyInv, Fresh
<1>5. edition[x] >= floor[r][x]
    <2>1. floor[r][x] \in Nat /\ edition[x] \in Nat /\ floor[r][x] <= edition[x]
        BY <1>1, <1>2 DEF Observations, ObservedInv, Editions, ControlInv, TypeOK
    <2> QED BY <2>1
<1> HIDE DEF x
<1>6. ASSUME rows'[x] # None PROVE rows'[x].edition >= floor[r][x]
    <2>1. CASE rows'[x] = rows[x]
        BY <1>4, <1>6, <2>1
    <2>2. CASE rows'[x] # rows[x]
        BY <1>1, <1>4, <2>2, Storing
    <2> QED BY <2>1, <2>2
<1>7. ASSUME NEW c \in Requests, NEW item \in HeldBy(c)', item.comment = x
      PROVE  item.edition >= floor[r][x]
    <2>1. CASE item \in HeldBy(c)
        BY <1>4, <1>7, <2>1
    <2>2. CASE item \notin HeldBy(c)
        <3>1. item = Observed(item.comment)
            BY <1>1, <2>2, Observing
        <3>2. item.edition = edition[x]
            BY <1>7, <3>1 DEF Observed
        <3> QED BY <1>5, <3>2
    <2> QED BY <2>1, <2>2
<1> QED BY <1>3, <1>6, <1>7 DEF Fresh, x

LEMMA ObservationsNext == Observations /\ [Next]_vars => Observations'
<1> SUFFICES ASSUME Observations, [Next]_vars PROVE Observations'
    OBVIOUS
<1>1. ControlInv'
    BY ControlMoves DEF Observations
<1>2. \A c \in Requests : ObservedInv(c)'
    BY ObservedNext
<1>3. ASSUME NEW r \in Publications PROVE ReplyInv(r)'
    <2>1. at'[r] \in {"idle", "gateway"} => Absent(ReplyOf[r])'
        BY AbsentNext
    <2>2. at'[r] = "store" => Fresh(r)'
        BY FreshNext
    <2>3. Absent(ReplyOf[r])' => Fresh(r)'
        BY DEF Absent, Fresh
    <2> QED BY <2>1, <2>2, <2>3 DEF ReplyInv
<1> QED BY <1>1, <1>2, <1>3 DEF Observations

LEMMA ObservationsInit == Init => Observations
<1> SUFFICES ASSUME Init PROVE Observations
    OBVIOUS
<1>1. at = [c \in Requests |-> "idle"] /\ published = [t \in Threads |-> <<>>]
    BY DEF Init
<1>2. \A c \in Requests : HeldBy(c) = {}
    BY <1>1 DEF HeldBy
<1>3. ASSUME NEW r \in Publications PROVE Absent(ReplyOf[r])
    <2>1. ReplyOf[r] \in Comments
        BY ThreadAssumption
    <2>2. PICK stored \in EarlierRows :
             rows = [x \in Comments |->
                       IF x \in stored THEN [edition |-> 0, state |-> "active"] ELSE None]
        BY DEF Init
    <2>3. rows[ReplyOf[r]] = None
        BY <2>1, <2>2, ThreadAssumption
    <2>4. ASSUME NEW t \in Threads PROVE ReplyOf[r] \notin ToSet(List(t))
        <3>1. Seeds[t] \in Seq(Comments) /\ <<>> \in Seq(Comments) /\ ToSet(<<>>) = {}
            BY ThreadAssumption DEF ToSet
        <3>2. ToSet(List(t)) = ToSet(Seeds[t])
            BY <1>1, <3>1, JoinedSet DEF List
        <3> QED BY <3>2, ThreadAssumption
    <2> QED BY <1>1, <1>2, <2>3, <2>4 DEF Absent, Requests
<1>4. \A c \in Requests : at[c] = "idle"
    BY <1>1
<1> QED BY <1>3, <1>4, ControlInit DEF Observations, ObservedInv, ReplyInv, Absent, Fresh, Requests

(* A page that waited between its fetch and its save, a reply that revives a row
   or a not-found that is recorded late takes nothing back that the provider
   showed before its own request began, whatever else was stored meanwhile. *)
THEOREM NothingTakenBackHolds == Spec => NothingTakenBack
<1> DEFINE Kept == \A x \in Comments : rows'[x] # rows[x] =>
              \E c \in Requests : /\ at[c] \in {"save", "store", "mark"} /\ at'[c] # at[c]
                                  /\ rows'[x].edition >= floor[c][x]
<1>1. Observations /\ [Next]_vars => [Kept]_vars
    <2> SUFFICES ASSUME Observations, [Next]_vars, NEW x \in Comments, rows'[x] # rows[x]
                 PROVE  \E c \in Requests :
                          /\ at[c] \in {"save", "store", "mark"} /\ at'[c] # at[c]
                          /\ rows'[x].edition >= floor[c][x]
        OBVIOUS
    <2>1. PICK c \in Requests : \E item \in HeldBy(c) :
             /\ at[c] \in {"save", "store", "mark"} /\ at'[c] # at[c] /\ item.comment = x
             /\ \/ rows'[x].edition = item.edition
                \/ /\ c \in Publications /\ at[c] = "store" /\ x = ReplyOf[c]
                   /\ rows[x] # None /\ rows'[x].edition = rows[x].edition
        BY Storing DEF Observations
    <2>2. \A item \in HeldBy(c) : item.edition >= floor[c][item.comment]
        BY <2>1 DEF Observations, ObservedInv
    <2>3. c \in Publications /\ at[c] = "store" => Fresh(c)
        BY DEF Observations, ReplyInv
    <2> QED BY <2>1, <2>2, <2>3 DEF Fresh
<1> QED BY <1>1, ObservationsInit, ObservationsNext, PTL DEF Spec, NothingTakenBack

-----------------------------------------------------------------------------
(* How far a walk has come *)

(* From offset on, s shows what list has at the same positions. *)
Shows(s, offset, list) ==
    \A n \in 1..Len(s) : offset + n <= Len(list) => s[n] = list[offset + n]

LEMMA ShowsJoined ==
    ASSUME NEW S, NEW s \in Seq(S), NEW t \in Seq(S), NEW list \in Seq(S),
           Shows(s, 0, list), Shows(t, Len(s), list)
    PROVE  Shows(s \o t, 0, list)
<1>1. /\ s \o t \in Seq(S) /\ Len(s \o t) = Len(s) + Len(t) /\ Len(s) \in Nat /\ Len(t) \in Nat
      /\ \A n \in 1..Len(s) : (s \o t)[n] = s[n]
      /\ \A n \in Nat : n > Len(s) /\ n <= Len(s) + Len(t) => (s \o t)[n] = t[n - Len(s)]
    BY Concatenated, SeqFacts
<1> SUFFICES ASSUME NEW n \in 1..(Len(s) + Len(t)), n <= Len(list)
             PROVE  (s \o t)[n] = list[n]
    BY <1>1 DEF Shows
<1>2. CASE n <= Len(s)
    BY <1>1, <1>2 DEF Shows
<1>3. CASE n > Len(s)
    <2>1. n - Len(s) \in 1..Len(t) /\ Len(s) + (n - Len(s)) = n
        BY <1>1, <1>3
    <2>2. t[n - Len(s)] = list[n]
        BY <2>1 DEF Shows
    <2> QED BY <1>1, <1>3, <2>2
<1> QED BY <1>1, <1>2, <1>3

(* What a list shows, a longer one shows as far as the shorter one goes. *)
LEMMA ShowsMore ==
    ASSUME NEW S, NEW s \in Seq(S), NEW offset \in Nat,
           NEW list \in Seq(S), NEW longer \in Seq(S), IsPrefix(list, longer)
    PROVE  /\ Shows(s, offset, longer) => Shows(s, offset, list)
           /\ Shows(s, offset, list) /\ offset + Len(s) <= Len(list) => Shows(s, offset, longer)
<1>1. Len(list) <= Len(longer) /\ \A n \in 1..Len(list) : list[n] = longer[n]
    BY PrefixAt
<1>2. Len(s) \in Nat /\ Len(list) \in Nat /\ Len(longer) \in Nat
    BY SeqFacts
<1>3. ASSUME Shows(s, offset, longer), NEW n \in 1..Len(s), offset + n <= Len(list)
      PROVE  s[n] = list[offset + n]
    <2>1. s[n] = longer[offset + n] /\ offset + n \in 1..Len(list)
        BY <1>1, <1>2, <1>3 DEF Shows
    <2> QED BY <1>1, <2>1
<1>4. ASSUME Shows(s, offset, list), offset + Len(s) <= Len(list), NEW n \in 1..Len(s)
      PROVE  s[n] = longer[offset + n]
    <2>1. s[n] = list[offset + n] /\ offset + n \in 1..Len(list)
        BY <1>2, <1>4 DEF Shows
    <2> QED BY <1>1, <2>1
<1> QED BY <1>3, <1>4 DEF Shows

LEMMA PrefixChain ==
    ASSUME NEW S, NEW s \in Seq(S), NEW t \in Seq(S), NEW u \in Seq(S),
           IsPrefix(s, t), IsPrefix(t, u)
    PROVE  IsPrefix(s, u)
<1>1. /\ Len(s) <= Len(t) /\ \A n \in 1..Len(s) : s[n] = t[n]
      /\ Len(t) <= Len(u) /\ \A n \in 1..Len(t) : t[n] = u[n]
    BY PrefixAt
<1>2. Len(s) \in Nat /\ Len(t) \in Nat /\ Len(u) \in Nat
    BY SeqFacts
<1> QED BY <1>1, <1>2, PrefixAt

Offset(w) == DecodeOffset(query[w].cursor)
PageComments(w) == CommentsOf(page[w].items)

(* What a walk has got is what lies before its cursor, because only a full page
   has a next one. *)
Position(w) ==
    /\ at[w] \in {"context", "gateway", "save"} /\ query[w].cursor # ForeignCursor =>
         Len(got[w]) = Offset(w)
    /\ at[w] = "save" /\ page[w].next # None =>
         page[w].next = Offset(w) + Len(PageComments(w))
    /\ at[w] = "answered" => page[w].next = Len(got[w])

Agrees(w, list) ==
    /\ Shows(got[w], 0, list)
    /\ at[w] = "save" => Shows(PageComments(w), Offset(w), list)

Reaches(w, list) ==
    /\ at[w] = "save" /\ page[w].next = None => Len(list) <= Offset(w) + Len(PageComments(w))
    /\ result[w] = "complete" => Len(list) <= Len(got[w])

Within(w, list) ==
    /\ Len(got[w]) <= Len(list)
    /\ at[w] = "save" => Offset(w) + Len(PageComments(w)) <= Len(list)

(* The provider's own comments are never lost from its lists; what has been
   published is, with a restart. *)
WalkInv(w) ==
    LET t == query[w].thread IN
    at[w] # "idle" =>
        /\ Position(w)
        /\ Agrees(w, Seeds[t]) /\ Reaches(w, Seeds[t])
        /\ w \in intact => /\ IsPrefix(began[w].list, List(t)) /\ Reaches(w, began[w].list)
                           /\ Agrees(w, List(t)) /\ Within(w, List(t))

WalkInvs == ControlInv /\ \A w \in Walks : WalkInv(w)

(* The sequences WalkInv speaks of. *)
LEMMA WalkSeqs ==
    ASSUME ControlInv, NEW w \in Walks, at[w] # "idle"
    PROVE  /\ query[w].thread \in Threads
           /\ Seeds[query[w].thread] \in Seq(Comments)
           /\ List(query[w].thread) \in Seq(Comments)
           /\ IsPrefix(Seeds[query[w].thread], List(query[w].thread))
           /\ began[w].list \in Seq(Comments) /\ got[w] \in Seq(Comments)
           /\ query[w].cursor # ForeignCursor => Offset(w) \in Nat
           /\ at[w] = "save" => /\ PageComments(w) \in Seq(Comments)
                                /\ Offset(w) \in Nat /\ Len(PageComments(w)) \in Nat
                                /\ page[w].next \in Nat \cup {None}
<1>1. TypeOK /\ WalkControl(w)
    BY DEF ControlInv
<1>2. query[w] \in Query /\ began[w].list \in Seq(Comments)
    BY <1>1 DEF WalkControl
<1>3. query[w].thread \in Threads /\ Seeds[query[w].thread] \in Seq(Comments)
    BY <1>2, ThreadAssumption DEF Query
<1>4. query[w].cursor # ForeignCursor => Offset(w) \in Nat
    BY <1>2 DEF Query, Cursors, Offset, DecodeOffset
<1>5. ASSUME at[w] = "save" PROVE /\ PageComments(w) \in Seq(Comments)
                                  /\ page[w].next \in Nat \cup {None}
    <2>1. page[w].items \in Seq(Item) /\ page[w].next \in Nat \cup {None}
        BY <1>1, <1>5 DEF WalkControl, Page
    <2> QED BY <2>1, CommentsOfPage DEF PageComments
<1>6. got[w] \in Seq(Comments)
    BY <1>1 DEF TypeOK
<1>7. at[w] = "save" => query[w].cursor # ForeignCursor
    BY <1>1 DEF WalkControl
<1>8. at[w] = "save" => Len(PageComments(w)) \in Nat
    BY <1>5, SeqFacts
<1> QED BY <1>1, <1>2, <1>3, <1>4, <1>5, <1>6, <1>7, <1>8, ListFacts

(* While a walk stays intact, its lists only grow. *)
LEMMA ListsGrow ==
    ASSUME ControlInv, [Next]_vars, NEW t \in Threads
    PROVE  /\ intact' = {} \/ IsPrefix(List(t), List(t)')
           /\ List(t)' \in Seq(Comments)
<1>1. /\ TypeOK /\ TypeOK' /\ Seeds[t] \in Seq(Comments) /\ published[t] \in Seq(Comments)
      /\ published'[t] \in Seq(Comments)
    BY ControlMoves, ThreadAssumption DEF ControlInv, TypeOK
<1>2. List(t)' \in Seq(Comments) /\ List(t) \in Seq(Comments)
    <2>1. Seeds[t] \o published[t] \in Seq(Comments) /\ Seeds[t] \o published'[t] \in Seq(Comments)
        BY <1>1
    <2> QED BY <2>1 DEF List
<1>3. CASE published'[t] = published[t]
    <2>1. List(t)' = List(t)
        BY <1>3 DEF List
    <2> QED BY <1>2, <2>1, PrefixAt
<1>4. ASSUME NEW x \in Comments, published'[t] = Append(published[t], x)
      PROVE  IsPrefix(List(t), List(t)')
    <2>1. List(t)' = Seeds[t] \o Append(published[t], x)
        BY <1>4 DEF List
    <2> QED BY <1>1, <2>1, PrefixAppended DEF List
<1>5. ASSUME NEW w \in Walks, Walk(w) PROVE published' = published
    BY <1>5 DEF Walk, BeginWalk, NextPage, Send, FindContext, Fetch, Save, provider
<1>6. ASSUME NEW r \in Publications, Publication(r)
      PROVE  published'[t] \in {published[t], Append(published[t], ReplyOf[r])}
    BY <1>1, <1>6
       DEF Publication, BeginReply, Publish, SavePublishedReply, MarkDeleted, provider, TypeOK
<1>7. ASSUME NEW y \in Changing, Edit(y) \/ Withdraw(y) \/ Restore(y)
      PROVE  published' = published
    BY <1>7 DEF Edit, Withdraw, Restore
<1>8. Restart => intact' = {}
    BY DEF Restart
<1>9. (UNCHANGED vars \/ \E c \in Requests : Rejected(c)) => published' = published
    BY DEF vars, Rejected, provider
<1>10. \A r \in Publications : ReplyOf[r] \in Comments
    BY ThreadAssumption
<1> QED BY <1>2, <1>3, <1>4, <1>5, <1>6, <1>7, <1>8, <1>9, <1>10 DEF Next

(* Others publish, end a walk or restart the process. *)
LEMMA WalkLeftAlone ==
    ASSUME WalkInvs, [Next]_vars, NEW w \in Walks, Untouched(w) \/ Ended(w)
    PROVE  WalkInv(w)'
<1> SUFFICES ASSUME at'[w] # "idle"
             PROVE  WalkInv(w)'
    BY DEF WalkInv
<1> DEFINE t == query[w].thread
           L == List(t)
           M == Seeds[t] \o published'[t]
<1>1. /\ at[w] # "idle" /\ query'[w] = query[w] /\ got'[w] = got[w] /\ began'[w] = began[w]
      /\ w \in intact' => w \in intact
      /\ at'[w] = "done" \/ (at'[w] = at[w] /\ page'[w] = page[w])
      /\ result'[w] = result[w] \/ (result'[w] = "lost" /\ at'[w] = "done")
    BY DEF Untouched, Ended
<1>2. /\ t \in Threads /\ Seeds[t] \in Seq(Comments) /\ L \in Seq(Comments)
      /\ IsPrefix(Seeds[t], L) /\ began[w].list \in Seq(Comments) /\ got[w] \in Seq(Comments)
      /\ at[w] = "save" => /\ PageComments(w) \in Seq(Comments) /\ Offset(w) \in Nat
                           /\ Len(PageComments(w)) \in Nat
    BY <1>1, WalkSeqs DEF WalkInvs
<1>3. (w \in intact' => IsPrefix(L, M)) /\ M \in Seq(Comments)
    <2>1. \A u \in Threads : /\ intact' = {} \/ IsPrefix(List(u), List(u)')
                            /\ List(u)' \in Seq(Comments)
        BY ListsGrow DEF WalkInvs
    <2>2. \A u \in Threads : List(u)' = Seeds[u] \o published'[u]
        BY DEF List
    <2> QED BY <1>2, <2>1, <2>2
<1>4. /\ Position(w) /\ Agrees(w, Seeds[t]) /\ Reaches(w, Seeds[t])
      /\ w \in intact => /\ IsPrefix(began[w].list, L) /\ Reaches(w, began[w].list)
                         /\ Agrees(w, L) /\ Within(w, L)
    BY <1>1 DEF WalkInvs, WalkInv
<1>5. query'[w].thread = t /\ L' = M
    BY <1>1 DEF List
<1> HIDE DEF L, M, t
<1>6. Offset(w)' = Offset(w)
    BY <1>1 DEF Offset
<1>7. at'[w] = "save" => at[w] = "save" /\ page'[w] = page[w] /\ PageComments(w)' = PageComments(w)
    BY <1>1 DEF PageComments
<1>8. Position(w)'
    BY <1>1, <1>4, <1>6, <1>7 DEF Position
<1>9. Agrees(w, Seeds[t])' /\ Reaches(w, Seeds[t])'
    BY <1>1, <1>4, <1>6, <1>7 DEF Agrees, Reaches, t
<1>10. ASSUME w \in intact'
      PROVE  /\ IsPrefix(began[w].list, M) /\ Reaches(w, began[w].list)'
             /\ Shows(got[w], 0, M) /\ Len(got[w]) <= Len(M)
             /\ at'[w] = "save" => /\ Shows(PageComments(w), Offset(w), M)
                                   /\ Offset(w) + Len(PageComments(w)) <= Len(M)
    <2>1. /\ IsPrefix(L, M) /\ IsPrefix(began[w].list, L) /\ Reaches(w, began[w].list)
          /\ Agrees(w, L) /\ Within(w, L)
        BY <1>1, <1>3, <1>4, <1>10
    <2>2. IsPrefix(began[w].list, M)
        BY <1>2, <1>3, <2>1, PrefixChain
    <2>3. Reaches(w, began[w].list)'
        BY <1>1, <1>6, <1>7, <2>1 DEF Reaches
    <2>4. Len(got[w]) \in Nat /\ Len(L) \in Nat /\ Len(M) \in Nat /\ Len(L) <= Len(M)
        BY <1>2, <1>3, <2>1, PrefixAt, SeqFacts
    <2>5. Shows(got[w], 0, M) /\ Len(got[w]) <= Len(M)
        BY <1>2, <1>3, <2>1, <2>4, ShowsMore DEF Agrees, Within
    <2>6. ASSUME at'[w] = "save"
          PROVE  /\ Shows(PageComments(w), Offset(w), M)
                 /\ Offset(w) + Len(PageComments(w)) <= Len(M)
        BY <1>2, <1>3, <1>7, <2>1, <2>4, <2>6, ShowsMore DEF Agrees, Within
    <2> QED BY <2>2, <2>3, <2>5, <2>6
<1>11. ASSUME w \in intact'
       PROVE  /\ IsPrefix(began[w].list, L)' /\ Agrees(w, L)' /\ Within(w, L)'
    <2>1. IsPrefix(began[w].list, L)'
        BY <1>1, <1>5, <1>10, <1>11
    <2>2. Agrees(w, L)'
        BY <1>1, <1>5, <1>6, <1>7, <1>10, <1>11 DEF Agrees
    <2>3. Within(w, L)'
        BY <1>1, <1>5, <1>6, <1>7, <1>10, <1>11 DEF Within
    <2> QED BY <2>1, <2>2, <2>3
<1> QED BY <1>1, <1>8, <1>9, <1>10, <1>11, <1>5 DEF WalkInv, L, t

(* What a step of w leaves alone in the lists. *)
LEMMA WalkKeepsLists ==
    ASSUME NEW w \in Walks, Walk(w), NEW t
    PROVE  List(t)' = List(t) /\ edition' = edition
<1>1. published' = published /\ edition' = edition
    BY DEF Walk, BeginWalk, NextPage, Send, FindContext, Fetch, Save, provider
<1> QED BY <1>1 DEF List

LEMMA WalkBegins ==
    ASSUME WalkInvs, NEW w \in Walks, BeginWalk(w)
    PROVE  WalkInv(w)'
<1>1. w \in Requests /\ TypeOK /\ WalkControl(w) /\ at[w] = "idle"
    BY WalkIsRequest DEF WalkInvs, ControlInv, BeginWalk
<1>2. PICK t \in Threads, cursor \in {None, ForeignCursor} :
         /\ Send(w, t, cursor)
         /\ began' = [began EXCEPT ![w] = [list |-> List(t), edition |-> edition]]
    BY DEF BeginWalk
<1>3. /\ at'[w] = "context" /\ query'[w] = [thread |-> t, cursor |-> cursor]
      /\ got'[w] = <<>> /\ result'[w] = None /\ began'[w].list = List(t)
    BY <1>1, <1>2 DEF TypeOK, WalkControl, BeginWalk, Send, Goto
<1>4. List(t) \in Seq(Comments) /\ Len(List(t)) \in Nat /\ List(t)' = List(t)
    BY <1>1, ListFacts, SeqFacts, WalkKeepsLists DEF Walk
<1>5. IsPrefix(List(t), List(t))
    BY <1>4, PrefixAt
<1>6. Len(<<>>) = 0 /\ None # "complete"
    BY ValueAssumption
<1>7. \A list : Shows(<<>>, 0, list)
    BY <1>6 DEF Shows
<1>8. Position(w)'
    BY <1>2, <1>3, <1>6, ValueAssumption DEF Position, Offset, DecodeOffset
<1> QED BY <1>3, <1>4, <1>5, <1>6, <1>7, <1>8 DEF WalkInv, Agrees, Reaches, Within

(* The walk goes on with the cursor of the page it holds, or is refused; it has
   got what it had. *)
LEMMA WalkGoesOn ==
    ASSUME WalkInvs, NEW w \in Walks, Walk(w), at[w] # "idle", at'[w] # "save",
           got'[w] = got[w], began'[w] = began[w], intact' = intact,
           query'[w].thread = query[w].thread, Position(w)', result'[w] # "complete"
    PROVE  WalkInv(w)'
<1> DEFINE t == query[w].thread
<1>1. /\ Agrees(w, Seeds[t])
      /\ w \in intact => /\ IsPrefix(began[w].list, List(t))
                         /\ Agrees(w, List(t)) /\ Within(w, List(t))
    BY DEF WalkInvs, WalkInv
<1>2. List(t)' = List(t) /\ query'[w].thread = t
    BY WalkKeepsLists
<1> HIDE DEF t
<1>3. Reaches(w, Seeds[query[w].thread])' /\ Reaches(w, began[w].list)'
    BY DEF Reaches
<1>4. Agrees(w, Seeds[query[w].thread])'
    BY <1>1, <1>2 DEF Agrees
<1>5. ASSUME w \in intact'
      PROVE  /\ IsPrefix(began[w].list, List(query[w].thread))'
             /\ Agrees(w, List(query[w].thread))' /\ Within(w, List(query[w].thread))'
    BY <1>1, <1>2, <1>5 DEF Agrees, Within, t
<1> QED BY <1>3, <1>4, <1>5 DEF WalkInv

LEMMA WalkSends ==
    ASSUME WalkInvs, NEW w \in Walks, NextPage(w) \/ FindContext(w)
    PROVE  WalkInv(w)'
<1>1. w \in Requests /\ TypeOK /\ WalkControl(w) /\ at[w] \in {"answered", "context"}
    BY WalkIsRequest DEF WalkInvs, ControlInv, NextPage, FindContext
<1>2. Position(w)
    BY <1>1 DEF WalkInvs, WalkInv
<1>3. CASE NextPage(w)
    <2>1. /\ at[w] = "answered" /\ at'[w] = "context" /\ got' = got /\ result' = result
          /\ began' = began /\ intact' = intact
          /\ query'[w] = [thread |-> query[w].thread, cursor |-> page[w].next]
        BY <1>1, <1>3 DEF NextPage, Send, Goto, TypeOK
    <2>2. page[w].next \in Nat /\ page[w].next = Len(got[w]) /\ result[w] = None
        BY <1>1, <1>2, <2>1 DEF WalkControl, Page, Position
    <2>3. Position(w)'
        BY <2>1, <2>2, ValueAssumption DEF Position, Offset, DecodeOffset
    <2> QED BY <1>1, <1>3, <2>1, <2>2, <2>3, WalkGoesOn, ValueAssumption DEF Walk
<1>4. CASE FindContext(w)
    <2>1. /\ at[w] = "context" /\ got' = got /\ query' = query /\ began' = began
          /\ intact' = intact
        BY <1>4 DEF FindContext, history
    <2>2. \/ at'[w] = "gateway" /\ result' = result
          \/ at'[w] = "done" /\ result'[w] # "complete"
        BY <1>1, <1>4 DEF FindContext, Goto, Answer, TypeOK
    <2>3. result[w] = None
        BY <1>1, <2>1 DEF WalkControl
    <2>4. Position(w)'
        BY <1>2, <2>1, <2>2 DEF Position, Offset
    <2> QED BY <1>4, <2>1, <2>2, <2>3, <2>4, WalkGoesOn, ValueAssumption DEF Walk
<1> QED BY <1>3, <1>4

LEMMA WalkFetches ==
    ASSUME WalkInvs, NEW w \in Walks, Fetch(w)
    PROVE  WalkInv(w)'
<1> DEFINE t == query[w].thread
           cursor == query[w].cursor
           p == PageOf(t, cursor)
           L == List(t)
<1>1. w \in Requests /\ TypeOK /\ WalkControl(w) /\ at[w] = "gateway"
    BY WalkIsRequest DEF WalkInvs, ControlInv, Fetch
<1>2. UNCHANGED <<provider, rows, query, got, history>>
    BY DEF Fetch
<1>3. /\ Position(w) /\ Agrees(w, Seeds[t])
      /\ w \in intact => /\ IsPrefix(began[w].list, L) /\ Agrees(w, L) /\ Within(w, L)
    BY <1>1 DEF WalkInvs, WalkInv
<1>4. ASSUME NEW code \in Codes \ {"complete"}, Answer(w, code) PROVE WalkInv(w)'
    <2>1. at'[w] = "done" /\ result'[w] = code
        BY <1>1, <1>4 DEF TypeOK, Answer, Goto
    <2>2. Position(w)'
        BY <2>1 DEF Position
    <2> QED BY <1>1, <1>2, <2>1, <2>2, WalkGoesOn DEF Walk, history
<1>5. CASE /\ cursor # ForeignCursor /\ page' = [page EXCEPT ![w] = p]
           /\ Goto(w, "save") /\ UNCHANGED result
    <2>1. /\ at'[w] = "save" /\ page'[w] = p /\ result'[w] = None /\ query'[w] = query[w]
          /\ got'[w] = got[w] /\ began'[w] = began[w] /\ intact' = intact /\ L' = L
        BY <1>1, <1>2, <1>5, WalkKeepsLists
           DEF TypeOK, WalkControl, Goto, history, Walk, provider, List
    <2>2. /\ t \in Threads /\ Registered(t) /\ cursor \in Nat \cup {None}
          /\ Seeds[t] \in Seq(Comments) /\ L \in Seq(Comments) /\ IsPrefix(Seeds[t], L)
          /\ began[w].list \in Seq(Comments) /\ got[w] \in Seq(Comments)
        BY <1>1, <1>5, WalkSeqs DEF WalkControl, Query, Cursors, WalkInvs
    <2> DEFINE offset == Offset(w)
               s == CommentsOf(p.items)
    <2>3. /\ p \in Page /\ offset \in Nat
          /\ \A i \in 1..Len(p.items) :
               offset + i <= Len(L) /\ p.items[i].comment = L[offset + i]
          /\ p.next # None => p.next = offset + Len(p.items)
          /\ p.next = None => Len(L) <= offset + Len(p.items)
        BY <1>1, <2>2, PageFacts DEF Offset
    <2> HIDE DEF p, L
    <2>4. /\ s \in Seq(Comments) /\ Len(s) = Len(p.items) /\ Len(s) \in Nat
          /\ \A i \in 1..Len(s) : offset + i <= Len(L) /\ s[i] = L[offset + i]
        BY <2>3, CommentsOfPage, SeqFacts DEF Page
    <2>5. Offset(w)' = offset /\ PageComments(w)' = s
        BY <2>1 DEF Offset, PageComments
    <2> HIDE DEF s, offset
    <2>6. Len(got[w]) = offset
        BY <1>1, <1>3, <1>5 DEF Position, offset
    <2>7. Position(w)'
        BY <1>2, <2>1, <2>3, <2>4, <2>5, <2>6 DEF Position
    <2>8. Shows(s, offset, L)
        BY <2>4 DEF Shows
    <2>9. Shows(s, offset, Seeds[t]) /\ Len(Seeds[t]) <= Len(L)
        BY <2>2, <2>3, <2>4, <2>8, ShowsMore, PrefixAt
    <2>10. Agrees(w, Seeds[t])' /\ Reaches(w, Seeds[t])'
        <3>1. Len(Seeds[t]) \in Nat /\ Len(L) \in Nat
            BY <2>2, SeqFacts
        <3>2. p.next = None => Len(Seeds[t]) <= offset + Len(s)
            BY <2>3, <2>4, <2>9, <3>1
        <3> QED BY <1>3, <2>1, <2>5, <2>9, <3>2, ValueAssumption DEF Agrees, Reaches
    <2>11. ASSUME w \in intact
           PROVE  /\ IsPrefix(began[w].list, L) /\ Reaches(w, began[w].list)'
                  /\ Agrees(w, L)' /\ Within(w, L)'
        <3>1. IsPrefix(began[w].list, L) /\ Agrees(w, L) /\ Within(w, L)
            BY <1>3, <2>11
        <3>2. Len(began[w].list) <= Len(L) /\ Len(began[w].list) \in Nat /\ Len(L) \in Nat
            BY <2>2, <3>1, PrefixAt, SeqFacts
        <3>3. p.next = None => Len(began[w].list) <= offset + Len(s)
            BY <2>3, <2>4, <3>2
        <3>4. offset + Len(s) <= Len(L)
            <4>1. CASE Len(s) = 0
                BY <2>3, <2>6, <3>1, <4>1 DEF Within
            <4>2. CASE Len(s) # 0
                BY <2>4, <4>2
            <4> QED BY <4>1, <4>2
        <3> QED BY <2>1, <2>5, <2>8, <3>1, <3>3, <3>4, ValueAssumption
                DEF Agrees, Reaches, Within
    <2> QED BY <2>1, <2>7, <2>10, <2>11 DEF WalkInv, L
<1>6. {"PLATFORM_RESOURCE_NOT_FOUND", "PLATFORM_CURSOR_INVALID"} \cup ProviderFailures
         \subseteq Codes \ {"complete"}
    BY ValueAssumption DEF Codes
<1> QED BY <1>4, <1>5, <1>6 DEF Fetch

LEMMA WalkSaves ==
    ASSUME WalkInvs, NEW w \in Walks, Save(w)
    PROVE  WalkInv(w)'
<1> DEFINE t == query[w].thread
           s == PageComments(w)
           L == List(t)
<1>1. w \in Requests /\ TypeOK /\ WalkControl(w) /\ at[w] = "save"
    BY WalkIsRequest DEF WalkInvs, ControlInv, Save
<1>2. UNCHANGED <<provider, query, history>>
    BY DEF Save
<1>3. /\ Position(w) /\ Agrees(w, Seeds[t]) /\ Reaches(w, Seeds[t])
      /\ w \in intact => /\ IsPrefix(began[w].list, L) /\ Reaches(w, began[w].list)
                         /\ Agrees(w, L) /\ Within(w, L)
    BY <1>1 DEF WalkInvs, WalkInv
<1>4. CASE got' = got /\ Answer(w, "lost")
    <2>1. at'[w] = "done" /\ result'[w] = "lost"
        BY <1>1, <1>4 DEF TypeOK, Answer, Goto
    <2>2. Position(w)'
        BY <2>1 DEF Position
    <2> QED BY <1>1, <1>2, <1>4, <2>1, <2>2, WalkGoesOn DEF Walk, history
<1>5. CASE /\ got' = [got EXCEPT ![w] = @ \o s]
           /\ \/ page[w].next # None /\ Goto(w, "answered") /\ UNCHANGED <<page, result>>
              \/ page[w].next = None /\ Answer(w, "complete")
    <2> DEFINE g == got[w]
               h == got'[w]
    <2>1. /\ h = g \o s /\ query' = query /\ began' = began /\ intact' = intact /\ L' = L
          /\ \/ /\ page[w].next # None /\ at'[w] = "answered" /\ result'[w] = None
                /\ page'[w] = page[w]
             \/ page[w].next = None /\ at'[w] = "done" /\ result'[w] = "complete"
        BY <1>1, <1>2, <1>5 DEF TypeOK, WalkControl, Answer, Goto, history, provider, List
    <2>2. /\ Seeds[t] \in Seq(Comments) /\ L \in Seq(Comments)
          /\ began[w].list \in Seq(Comments) /\ g \in Seq(Comments) /\ s \in Seq(Comments)
          /\ Len(s) \in Nat /\ Offset(w) = Len(g)
        BY <1>1, <1>3, WalkSeqs DEF WalkControl, WalkInvs, Position
    <2> HIDE DEF s, L, g, h
    <2>3. h \in Seq(Comments) /\ Len(h) = Len(g) + Len(s)
        BY <2>1, <2>2, Concatenated
    <2>4. Position(w)'
        BY <1>1, <1>3, <2>1, <2>2, <2>3 DEF Position, s, h
    <2>5. ASSUME NEW list \in Seq(Comments), Agrees(w, list) PROVE Shows(h, 0, list)
        BY <1>1, <2>1, <2>2, <2>5, ShowsJoined DEF Agrees, g, s
    <2>6. ASSUME NEW list \in Seq(Comments), Reaches(w, list), result'[w] = "complete"
          PROVE  Len(list) <= Len(h)
        BY <1>1, <2>1, <2>2, <2>3, <2>6, ValueAssumption DEF Reaches, s
    <2>7. at'[w] # "save"
        BY <2>1
    <2>8. Agrees(w, Seeds[t])' /\ Reaches(w, Seeds[t])'
        BY <1>3, <2>1, <2>2, <2>5, <2>6, <2>7 DEF Agrees, Reaches, h
    <2>9. ASSUME w \in intact
          PROVE  /\ IsPrefix(began[w].list, L) /\ Reaches(w, began[w].list)'
                 /\ Agrees(w, L)' /\ Within(w, L)'
        <3>1. /\ IsPrefix(began[w].list, L) /\ Reaches(w, began[w].list)
              /\ Agrees(w, L) /\ Within(w, L)
            BY <1>3, <2>9
        <3>2. Len(h) <= Len(L)
            BY <1>1, <2>2, <2>3, <3>1 DEF Within, s
        <3>3. Reaches(w, began[w].list)'
            BY <2>1, <2>2, <2>6, <2>7, <3>1 DEF Reaches, h
        <3> QED BY <2>1, <2>2, <2>5, <2>7, <3>1, <3>2, <3>3 DEF Agrees, Within, h
    <2> QED BY <2>1, <2>4, <2>8, <2>9 DEF WalkInv, L
<1> QED BY <1>4, <1>5 DEF Save, PageComments, CommentsOf

LEMMA WalkInvsNext == WalkInvs /\ [Next]_vars => WalkInvs'
<1> SUFFICES ASSUME WalkInvs, [Next]_vars PROVE WalkInvs'
    OBVIOUS
<1>1. ASSUME NEW w \in Walks PROVE WalkInv(w)'
    <2>1. w \in Requests /\ w \notin Publications
        BY WalkIsRequest
    <2>2. CASE Walk(w)
        BY <2>2, WalkBegins, WalkSends, WalkFetches, WalkSaves DEF Walk
    <2>3. CASE Untouched(w) \/ Ended(w)
        BY <2>3, WalkLeftAlone
    <2> QED BY <2>1, <2>2, <2>3, ControlMoves DEF WalkInvs
<1> QED BY <1>1, ControlMoves DEF WalkInvs

LEMMA WalkInvsInit == Init => WalkInvs
BY ControlInit DEF Init, WalkInvs, WalkInv, Requests

LEMMA WalksHold == Spec => []WalkInvs
BY WalkInvsInit, WalkInvsNext, PTL DEF Spec

LEMMA CompleteWalk ==
    ASSUME WalkInvs, NEW w \in Walks, result[w] = "complete"
    PROVE  /\ IsPrefix(Seeds[query[w].thread], got[w])
           /\ w \in intact => /\ IsPrefix(began[w].list, got[w])
                              /\ IsPrefix(got[w], List(query[w].thread))
<1> DEFINE t == query[w].thread
           g == got[w]
<1>1. at[w] = "done"
    BY ValueAssumption DEF WalkInvs, ControlInv, WalkControl
<1>2. /\ Agrees(w, Seeds[t]) /\ Reaches(w, Seeds[t])
      /\ w \in intact => /\ IsPrefix(began[w].list, List(t)) /\ Reaches(w, began[w].list)
                         /\ Agrees(w, List(t)) /\ Within(w, List(t))
    BY <1>1 DEF WalkInvs, WalkInv
<1>3. /\ Seeds[t] \in Seq(Comments) /\ List(t) \in Seq(Comments)
      /\ began[w].list \in Seq(Comments) /\ g \in Seq(Comments) /\ 0 \in Nat
    BY <1>1, WalkSeqs DEF WalkInvs
<1> HIDE DEF g, t
<1>4. ASSUME NEW list \in Seq(Comments), Shows(g, 0, list), Len(list) <= Len(g)
      PROVE  IsPrefix(list, g)
    <2>1. Len(list) \in Nat /\ Len(g) \in Nat
        BY <1>3, SeqFacts
    <2>2. \A n \in 1..Len(list) : list[n] = g[n]
        BY <1>4, <2>1 DEF Shows
    <2> QED BY <1>3, <1>4, <2>2, PrefixAt
<1>5. IsPrefix(Seeds[t], g)
    BY <1>2, <1>3, <1>4 DEF Agrees, Reaches, g
<1>6. ASSUME w \in intact PROVE IsPrefix(began[w].list, g) /\ IsPrefix(g, List(t))
    <2>1. /\ IsPrefix(began[w].list, List(t)) /\ Len(began[w].list) <= Len(g)
          /\ Shows(g, 0, List(t)) /\ Len(g) <= Len(List(t))
        BY <1>2, <1>6 DEF Agrees, Reaches, Within, g
    <2>2. Shows(g, 0, began[w].list)
        BY <1>3, <2>1, ShowsMore
    <2>3. Len(g) \in Nat /\ Len(List(t)) \in Nat
        BY <1>3, SeqFacts
    <2>4. \A n \in 1..Len(g) : g[n] = List(t)[n]
        BY <2>1, <2>3 DEF Shows
    <2> QED BY <1>3, <1>4, <2>1, <2>2, <2>4, PrefixAt
<1> QED BY <1>5, <1>6 DEF g, t

(* A complete walk got the provider's own comments in their order, even if it
   went on across restarts; one without a restart got exactly what its thread had
   when it began, and then only what was published since: for every page size,
   whatever else is walked, published and changed between its pages. *)
THEOREM WalkIsCompleteHolds == Spec => []WalkIsComplete
<1>1. WalkInvs => WalkIsComplete
    BY CompleteWalk DEF WalkIsComplete
<1> QED BY <1>1, WalksHold, PTL

-----------------------------------------------------------------------------
(* A walk nothing else happens beside *)

Stored(x) == rows[x] = [edition |-> edition[x], state |-> "active"]

(* Nothing else is under way, the thread lists what it did at the beginning, and
   what the walk has got or is about to store is as the provider shows it. *)
QuietInv(w) ==
    /\ Alone(w) /\ w \in intact /\ began[w].list = List(query[w].thread)
    /\ \A x \in ToSet(got[w]) : Stored(x)
    /\ at[w] = "save" =>
         \A item \in ToSet(page[w].items) : item.edition = edition[item.comment]

(* Only its own steps leave a walk quiet. *)
LEMMA QuietSteps ==
    ASSUME ControlInv, [Next]_vars, NEW w \in quiet', w \in Walks, w \in quiet => Alone(w)
    PROVE  /\ Walk(w) \/ Rejected(w) \/ UNCHANGED vars
           /\ \A d \in Requests \ {w} : at'[d] = at[d]
           /\ BeginWalk(w) => Alone(w)
           /\ ~BeginWalk(w) => w \in quiet
<1>1. w \in Requests /\ TypeOK
    BY WalkIsRequest DEF ControlInv
<1>2. ~Restart /\ \A x \in Changing : ~(Edit(x) \/ Withdraw(x) \/ Restore(x))
    BY DEF Restart, Edit, Withdraw, Restore, Change
<1>3. ASSUME NEW v \in Walks, v # w PROVE ~Walk(v)
    <2>1. v \in Requests \ {w}
        BY <1>3 DEF Requests
    <2>2. ~BeginWalk(v) /\ ~NextPage(v)
        BY <1>3 DEF BeginWalk, NextPage
    <2>3. ~(FindContext(v) \/ Fetch(v) \/ Save(v))
        BY <2>1 DEF FindContext, Fetch, Save, history, Alone, UnderWay
    <2> QED BY <2>2, <2>3 DEF Walk
<1>4. ASSUME NEW r \in Publications PROVE ~Publication(r)
    <2>1. r \in Requests \ {w}
        BY ValueAssumption DEF Requests
    <2>2. ~BeginReply(r)
        BY DEF BeginReply
    <2>3. ~(Publish(r) \/ SavePublishedReply(r) \/ MarkDeleted(r))
        BY <2>1 DEF Publish, SavePublishedReply, MarkDeleted, history, Alone, UnderWay
    <2> QED BY <2>2, <2>3 DEF Publication
<1>5. ASSUME NEW c \in Requests, c # w PROVE ~Rejected(c)
    BY <1>5 DEF Rejected, history, Alone
<1>6. Walk(w) \/ Rejected(w) \/ UNCHANGED vars
    BY <1>2, <1>3, <1>4, <1>5 DEF Next
<1>7. ASSUME Walk(w) PROVE /\ \A d \in Requests \ {w} : at'[d] = at[d]
                           /\ BeginWalk(w) => Alone(w)
                           /\ ~BeginWalk(w) => w \in quiet
    <2>1. CASE BeginWalk(w)
        BY <1>1, <2>1 DEF BeginWalk, Send, Goto, TypeOK
    <2>2. CASE NextPage(w)
        BY <1>1, <2>2 DEF NextPage, Send, Goto, TypeOK
    <2>3. CASE FindContext(w) \/ Fetch(w) \/ Save(w)
        <3>1. quiet' = quiet
            BY <2>3 DEF FindContext, Fetch, Save, history
        <3>2. \A d \in Requests \ {w} : at'[d] = at[d]
            BY <1>1, <2>3 DEF FindContext, Fetch, Save, Answer, Goto, TypeOK
        <3>3. ~BeginWalk(w)
            BY <2>3 DEF BeginWalk, FindContext, Fetch, Save
        <3> QED BY <3>1, <3>2, <3>3
    <2> QED BY <1>7, <2>1, <2>2, <2>3 DEF Walk
<1>8. CASE Rejected(w)
    <2>1. quiet' = quiet /\ \A d \in Requests \ {w} : at'[d] = at[d]
        BY <1>1, <1>8 DEF Rejected, Goto, history, TypeOK
    <2>2. ~BeginWalk(w)
        BY <1>8 DEF BeginWalk, Rejected, UnderWay
    <2> QED BY <1>6, <2>1, <2>2
<1>9. CASE UNCHANGED vars
    <2>1. at' = at /\ quiet' = quiet
        BY <1>9 DEF vars, history
    <2>2. ~BeginWalk(w)
        BY <1>1, <2>1 DEF BeginWalk, Send, Goto, TypeOK
    <2> QED BY <1>6, <2>1, <2>2
<1> QED BY <1>6, <1>7, <1>8, <1>9

LEMMA QuietAfterFetch ==
    ASSUME ControlInv, NEW w \in Walks, Fetch(w), QuietInv(w), Alone(w)'
    PROVE  QuietInv(w)'
<1> DEFINE t == query[w].thread
           cursor == query[w].cursor
           p == PageOf(t, cursor)
<1>1. w \in Requests /\ TypeOK /\ WalkControl(w) /\ at[w] = "gateway"
    BY WalkIsRequest DEF ControlInv, Fetch
<1>2. /\ UNCHANGED <<rows, edition, query, got, intact, began>>
      /\ List(query[w].thread)' = List(query[w].thread)
    BY DEF Fetch, provider, history, List
<1>3. ASSUME at'[w] = "save"
      PROVE  \A item \in ToSet(page'[w].items) : item.edition = edition[item.comment]
    <2>1. cursor # ForeignCursor /\ page'[w] = p
        BY <1>1, <1>3 DEF Fetch, Answer, Goto, TypeOK
    <2>2. t \in Threads /\ Registered(t) /\ cursor \in Nat \cup {None}
        BY <1>1, <2>1 DEF WalkControl, Query, Cursors
    <2>3. /\ p.items \in Seq(Item)
          /\ \A i \in 1..Len(p.items) : p.items[i].edition = edition[p.items[i].comment]
        BY <1>1, <2>2, PageFacts DEF Page
    <2> HIDE DEF p
    <2> QED BY <2>1, <2>3, SeqFacts DEF ToSet
<1> QED BY <1>2, <1>3 DEF QuietInv, Stored

LEMMA QuietAfterSave ==
    ASSUME ControlInv, NEW w \in Walks, Save(w), QuietInv(w), Alone(w)'
    PROVE  QuietInv(w)'
<1> DEFINE items == page[w].items
           s == CommentsOf(items)
           Seen(x) == {item \in ToSet(items) : item.comment = x}
<1>1. w \in Requests /\ TypeOK /\ WalkControl(w) /\ at[w] = "save"
    BY WalkIsRequest DEF ControlInv, Save
<1>2. /\ UNCHANGED <<edition, query, intact, began>> /\ at'[w] # "save"
      /\ List(query[w].thread)' = List(query[w].thread)
    BY <1>1 DEF Save, provider, history, List, Answer, Goto, TypeOK
<1>3. items \in Seq(Item) /\ got[w] \in Seq(Comments)
    BY <1>1 DEF WalkControl, Page, TypeOK
<1>4. s \in Seq(Comments) /\ Len(s) = Len(items) /\ \A i \in 1..Len(items) : s[i] = items[i].comment
    BY <1>3, CommentsOfPage
<1>5. /\ \A x \in ToSet(got[w]) : Stored(x)
      /\ \A item \in ToSet(items) : item.edition = edition[item.comment]
    BY <1>1 DEF QuietInv
<1>6. ASSUME NEW x \in Comments, Seen(x) # {} PROVE Stored(x)'
    <2>1. PICK item \in Seen(x) : rows'[x] = Upsert(rows[x], item.edition)
        BY <1>6 DEF Save
    <2>2. item.edition = edition[x]
        BY <1>5, <2>1
    <2> QED BY <1>2, <2>1, <2>2 DEF Upsert, Stored
<1>7. ASSUME NEW x \in Comments, Stored(x) PROVE Stored(x)'
    <2>1. CASE Seen(x) = {}
        <3>1. rows'[x] = rows[x]
            BY <2>1 DEF Save
        <3> QED BY <1>2, <1>7, <3>1 DEF Stored
    <2> QED BY <1>6, <2>1
<1>8. ASSUME NEW x \in ToSet(s) PROVE x \in Comments /\ Seen(x) # {}
    <2>1. PICK i \in 1..Len(items) : x = items[i].comment /\ x \in Comments
        BY <1>4, SeqFacts DEF ToSet
    <2>2. items[i] \in ToSet(items)
        BY <1>3, SeqFacts DEF ToSet
    <2> QED BY <2>1, <2>2
<1> HIDE DEF s, items
<1>9. got'[w] \in {got[w], got[w] \o s}
    BY <1>1 DEF Save, TypeOK, s, items, CommentsOf
<1>10. ToSet(got[w] \o s) = ToSet(got[w]) \cup ToSet(s) /\ ToSet(got[w]) \subseteq Comments
    BY <1>3, <1>4, JoinedSet, SeqFacts
<1>11. \A x \in ToSet(got'[w]) : Stored(x)'
    BY <1>5, <1>6, <1>7, <1>8, <1>9, <1>10
<1> QED BY <1>2, <1>11 DEF QuietInv, Stored

QuietInvs == \A w \in quiet : QuietInv(w)

LEMMA QuietNext ==
    ASSUME ControlInv, [Next]_vars, QuietInvs
    PROVE  QuietInvs'
<1> SUFFICES ASSUME NEW w \in quiet' PROVE QuietInv(w)'
    BY DEF QuietInvs
<1>1. w \in Walks /\ w \in Requests /\ TypeOK /\ WalkControl(w)
    <2>1. w \in Walks
        BY ControlMoves DEF ControlInv, TypeOK
    <2> QED BY <2>1, WalkIsRequest DEF ControlInv
<1>2. /\ Walk(w) \/ Rejected(w) \/ UNCHANGED vars
      /\ \A d \in Requests \ {w} : at'[d] = at[d]
      /\ BeginWalk(w) => Alone(w)
      /\ ~BeginWalk(w) => QuietInv(w)
    BY <1>1, QuietSteps DEF QuietInvs, QuietInv
<1>3. Alone(w)'
    BY <1>2 DEF QuietInv, Alone, UnderWay
<1>4. CASE BeginWalk(w)
    <2>1. PICK t \in Threads, cursor \in {None, ForeignCursor} :
             /\ Send(w, t, cursor)
             /\ began' = [began EXCEPT ![w] = [list |-> List(t), edition |-> edition]]
        BY <1>4 DEF BeginWalk
    <2>2. /\ query'[w].thread = t /\ began'[w].list = List(t) /\ published' = published
          /\ w \in intact' /\ at'[w] = "context" /\ got'[w] = <<>>
        BY <1>1, <1>4, <2>1 DEF BeginWalk, Send, Goto, provider, TypeOK, WalkControl
    <2>3. ToSet(<<>>) = {}
        BY DEF ToSet
    <2> QED BY <1>3, <2>2, <2>3 DEF QuietInv, List
<1>5. ASSUME QuietInv(w), UNCHANGED <<published, edition, rows, intact>>,
             query'[w].thread = query[w].thread, began'[w] = began[w], got'[w] = got[w],
             at'[w] = "save" => at[w] = "save" /\ page'[w] = page[w]
      PROVE  QuietInv(w)'
    <2>1. List(query[w].thread)' = List(query[w].thread)
        BY <1>5 DEF List
    <2> QED BY <1>3, <1>5, <2>1 DEF QuietInv, Stored
<1>6. CASE NextPage(w) \/ FindContext(w)
    <2>1. QuietInv(w)
        BY <1>2, <1>6 DEF BeginWalk, NextPage, FindContext
    <2>2. /\ UNCHANGED <<published, edition, rows, intact, began, got>>
          /\ query'[w].thread = query[w].thread /\ at'[w] # "save"
        BY <1>1, <1>6
           DEF NextPage, Send, FindContext, Answer, Goto, provider, history, TypeOK
    <2> QED BY <1>5, <2>1, <2>2
<1>7. CASE Fetch(w)
    BY <1>1, <1>2, <1>3, <1>7, QuietAfterFetch DEF BeginWalk, Fetch
<1>8. CASE Save(w)
    BY <1>1, <1>2, <1>3, <1>8, QuietAfterSave DEF BeginWalk, Save
<1>9. CASE Rejected(w)
    <2>1. QuietInv(w)
        BY <1>2, <1>9 DEF BeginWalk, Rejected, UnderWay
    <2>2. /\ UNCHANGED <<published, edition, rows, intact, began, got, query>>
          /\ at'[w] # "save"
        BY <1>1, <1>9 DEF Rejected, Goto, provider, history, TypeOK
    <2> QED BY <1>5, <2>1, <2>2
<1>10. CASE UNCHANGED vars
    <2>1. UNCHANGED <<published, edition, rows, intact, began, got, query, at, page>>
        BY <1>10 DEF vars, provider, history
    <2>2. ~BeginWalk(w)
        BY <1>1, <2>1 DEF BeginWalk, Send, Goto, TypeOK
    <2> QED BY <1>2, <1>5, <2>1, <2>2
<1> QED BY <1>2, <1>4, <1>6, <1>7, <1>8, <1>9, <1>10 DEF Walk

(* A walk that had the projection to itself leaves it as the provider lists its
   thread: comments a not-found had marked deleted are active again, and no row
   is behind its comment. *)
THEOREM QuietWalkConvergesHolds == Spec => []QuietWalkConverges
<1>1. Init => QuietInvs
    BY DEF QuietInvs, Init
<1>2. WalkInvs /\ QuietInvs /\ [Next]_vars => QuietInvs'
    BY QuietNext DEF WalkInvs
<1>3. WalkInvs /\ QuietInvs => QuietWalkConverges
    <2> SUFFICES ASSUME WalkInvs, QuietInvs, NEW w \in quiet, result[w] = "complete",
                        NEW x \in ToSet(List(query[w].thread))
                 PROVE  Stored(x)
        BY DEF QuietWalkConverges, Stored
    <2> DEFINE list == List(query[w].thread)
    <2>1. w \in Walks /\ QuietInv(w) /\ at[w] # "idle"
        BY ValueAssumption DEF QuietInvs, WalkInvs, ControlInv, TypeOK, WalkControl
    <2>2. began[w].list = list /\ IsPrefix(list, got[w])
        BY <2>1, CompleteWalk DEF QuietInv
    <2>3. list \in Seq(Comments) /\ got[w] \in Seq(Comments)
        BY <2>1, WalkSeqs DEF WalkInvs
    <2> HIDE DEF list
    <2>4. /\ DOMAIN list = 1..Len(list) /\ Len(list) \in Nat
          /\ DOMAIN got[w] = 1..Len(got[w]) /\ Len(got[w]) \in Nat
          /\ Len(list) <= Len(got[w]) /\ \A n \in 1..Len(list) : list[n] = got[w][n]
        BY <2>2, <2>3, PrefixAt, SeqFacts
    <2>5. PICK n \in 1..Len(list) : x = list[n]
        BY <2>4 DEF ToSet, list
    <2>6. x \in ToSet(got[w])
        <3>1. n \in DOMAIN got[w] /\ x = got[w][n]
            BY <2>4, <2>5
        <3> QED BY <3>1 DEF ToSet
    <2> QED BY <2>1, <2>6 DEF QuietInv
<1> QED BY <1>1, <1>2, <1>3, WalkInvsInit, WalkInvsNext, PTL DEF Spec
=============================================================================
