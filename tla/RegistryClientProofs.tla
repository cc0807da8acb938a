------------------------- MODULE RegistryClientProofs -------------------------
(***************************************************************************)
(* Proofs about the tag listings, for any tags, any length of a page and   *)
(* any interleaving of pushes and withdrawals with the pages.              *)
(***************************************************************************)
EXTENDS RegistryClient, FiniteSetTheorems, NaturalsInduction, TLAPS

USE PagesAssumption

-----------------------------------------------------------------------------
(* Pages                                                                   *)

\* What the registry has still to send.
Rest == {t \in tags : t > call.last}

LEMMA Numbered == \A t \in Tags : t \in Nat /\ t > 0
  OBVIOUS

LEMMA LastIsNumber == TypeOK => call.last \in Nat
  <1>1. TypeOK => call.last \in Tags \/ call.last = 0
    BY DEF TypeOK, Listing
  <1>2. CASE call.last = 0
    BY <1>2
  <1>3. CASE call.last \in Tags
    BY <1>3, Numbered
  <1> QED BY <1>1, <1>2, <1>3

LEMMA Finite == ASSUME NEW S \in SUBSET Tags
                PROVE  IsFiniteSet(S) /\ Cardinality(S) \in Nat
  BY FS_Subset, FS_CardinalityType

LEMMA PageIsPart ==
    ASSUME TypeOK
    PROVE  Page \subseteq Rest /\ Rest \subseteq tags /\ tags \subseteq Tags
  BY DEF TypeOK, Page, Rest

\* Every nonempty set of tags has a first one.
LEMMA FirstTag ==
    ASSUME NEW S \in SUBSET Tags, S # {}
    PROVE  \E t \in S : \A u \in S : t <= u
  <1> DEFINE before == {pair \in Nat \X Nat : pair[1] < pair[2]}
  <1>1. IsWellFoundedOn(before, Nat)
    BY NatLessThanWellFounded DEF OpToRel
  <1>2. S \subseteq Nat
    OBVIOUS
  <1> HIDE DEF before
  <1>3. PICK t \in S : \A u \in S : ~(<<u, t>> \in before)
    BY <1>1, <1>2, WFMin
  <1>4. \A u \in S : u \in Nat /\ t \in Nat /\ ~(u < t)
    BY <1>2, <1>3 DEF before
  <1> QED BY <1>4

\* A page that is not the last one is full: all tags before the first one
\* that is left out are on it.
LEMMA PageIsFull ==
    ASSUME TypeOK, ~LastPage
    PROVE  Cardinality(Page) >= PageSize
  <1>1. Rest \ Page # {} /\ Rest \ Page \in SUBSET Tags
    BY PageIsPart DEF LastPage, Rest
  <1>2. PICK t \in Rest \ Page : \A u \in Rest \ Page : t <= u
    BY <1>1, FirstTag
  <1> DEFINE before == {u \in Rest : u < t}
  <1>3. before \in SUBSET Page
    <2> SUFFICES ASSUME NEW u \in Rest, u < t, u \notin Page
                 PROVE  FALSE
      OBVIOUS
    <2>1. u \in Nat /\ t \in Nat
      BY PageIsPart, Numbered
    <2> QED BY <1>2, <2>1
  <1>4. ~(Cardinality(before) < PageSize)
    BY <1>2 DEF Page, Rest
  <1>5. Page \in SUBSET Tags /\ before \in SUBSET Tags
    BY PageIsPart
  <1>6. Cardinality(before) <= Cardinality(Page)
    BY <1>3, <1>5, Finite, FS_Subset
  <1> HIDE DEF before
  <1> QED BY <1>4, <1>5, <1>6, Finite

\* A list that fits on one page is on the first one.
LEMMA OnePage ==
    ASSUME TypeOK, call.last = 0, Cardinality(tags) <= PageSize
    PROVE  Page = tags
  <1>1. Rest = tags
    BY Numbered DEF TypeOK, Rest
  <1>2. ASSUME NEW t \in tags
        PROVE  Cardinality({u \in tags : u < t}) < PageSize
    <2> DEFINE before == {u \in tags : u < t}
    <2>1. before \in SUBSET tags /\ before # tags /\ tags \in SUBSET Tags
      BY Numbered DEF TypeOK
    <2>2. before \in SUBSET Tags
      BY <2>1
    <2>3. Cardinality(before) <= Cardinality(tags) /\ Cardinality(before) # Cardinality(tags)
      BY <2>1, Finite, FS_Subset
    <2> HIDE DEF before
    <2>4. Cardinality(before) < PageSize
      BY <2>1, <2>2, <2>3, Finite
    <2> QED BY <2>4 DEF before
  <1> QED BY <1>1, <1>2 DEF Page, Rest

-----------------------------------------------------------------------------
(* The inductive invariant                                                 *)

\* Between two pages: what was there throughout and comes no later than the
\* last page's end was read.
ListedSoFar ==
    call.pc = "list" =>
        /\ tags \subseteq call.ever
        /\ call.throughout \subseteq tags
        /\ \A t \in call.throughout : t <= call.last => t \in call.got

\* A listing with more than one page has filled a page.
PagesFilled ==
    call.pc = "list" =>
        \/ call.last = 0 /\ call.got = {}
        \/ /\ Cardinality(call.got) >= PageSize
           /\ Cardinality(call.ever) > PageSize

\* An ETag belongs to a whole list, unless the list fills a page.
Describes(etag, list) ==
    etag = {} \/ etag = {list} \/ Cardinality(list) >= PageSize

ListingInv ==
    /\ TypeOK
    /\ ListIsComplete
    /\ call.pc # "idle" => call.got \subseteq call.ever
    /\ ListedSoFar
    /\ PagesFilled
    /\ call.pc = "return" => Describes(call.capturedETag, call.got)
    /\ Describes(held.etag, held.tags)

LEMMA ListingInit == Init => ListingInv
  BY DEF Init, ListingInv, TypeOK, Idle, Listing, Methods, ETags, ListIsComplete,
         ListedSoFar, PagesFilled, Describes

LEMMA IdleIsListing == Idle \in Listing
  BY DEF Idle, Listing, Methods, ETags

LEMMA StartKeeps ==
    ASSUME ListingInv, NEW method \in Methods, StartListing(method)
    PROVE  ListingInv'
  <1>1. call' = [pc |-> "list", method |-> method, last |-> 0, got |-> {},
                 capturedETag |-> {}, throughout |-> tags, ever |-> tags]
    BY DEF StartListing, Idle
  <1>2. tags' = tags /\ held' = held
    BY DEF StartListing
  <1>3. TypeOK'
    BY <1>1, <1>2 DEF ListingInv, TypeOK, Listing, ETags
  <1> QED BY <1>1, <1>2, <1>3 DEF ListingInv, TypeOK, ListIsComplete, ListedSoFar,
                                  PagesFilled, Describes

LEMMA PageKeeps ==
    ASSUME ListingInv, RoundTripOK
    PROVE  ListingInv'
  <1> USE DEF ListingInv
  <1>1. PICK end \in Tags \union {0} :
          /\ EndOfPage(end)
          /\ call' = [call EXCEPT !.got = @ \union Page, !.last = end,
                                  !.capturedETag = CapturedETag,
                                  !.pc = IF LastPage THEN "return" ELSE "list"]
    BY DEF RoundTripOK
  <1>2. call.pc = "list" /\ tags' = tags /\ held' = held
    BY DEF RoundTripOK
  <1>3. Page \subseteq Rest /\ Rest \subseteq tags /\ tags \subseteq Tags
    BY PageIsPart
  <1>0. \A t \in call.throughout : t \in Rest \/ t \in call.got
    <2>1. call.throughout \subseteq tags /\ call.throughout \subseteq Tags
      BY <1>2, <1>3 DEF ListedSoFar
    <2>2. call.last \in Nat
      BY LastIsNumber
    <2>3. \A t \in call.throughout : t <= call.last => t \in call.got
      BY <1>2 DEF ListedSoFar
    <2>4. ASSUME NEW t \in tags
          PROVE  t <= call.last \/ t > call.last
      <3>1. t \in Nat
        BY <1>3, Numbered
      <3> QED BY <2>2, <3>1
    <2> QED BY <2>1, <2>3, <2>4 DEF Rest
  <1>4. /\ call'.got = call.got \union Page
        /\ call'.last = end
        /\ call'.capturedETag = CapturedETag
        /\ call'.pc = IF LastPage THEN "return" ELSE "list"
        /\ call'.throughout = call.throughout
        /\ call'.ever = call.ever
    BY <1>1 DEF TypeOK, Listing
  <1>5. CapturedETag \in ETags /\ (CapturedETag = {} \/ CapturedETag = {Page})
    BY <1>3 DEF CapturedETag, ETags
  <1>6. TypeOK'
    BY <1>1, <1>2, <1>3, <1>5 DEF TypeOK, Listing
  <1>7. \A t \in call.throughout : t <= end => t \in call.got \union Page
    <2> SUFFICES ASSUME NEW t \in Rest, t <= end
                 PROVE  t \in Page
      BY <1>0
    <2>1. t \in Nat /\ t > call.last
      BY <1>3, Numbered DEF Rest
    <2>2. end \in Page
      <3>1. end \in Page \/ end = call.last
        BY <1>1 DEF EndOfPage
      <3>2. ~(t <= call.last)
        BY <2>1, LastIsNumber
      <3> QED BY <3>1, <3>2
    <2>3. end \in Rest /\ Cardinality({u \in Rest : u < end}) < PageSize
      BY <2>2 DEF Page, Rest
    <2> DEFINE upto(x) == {u \in Rest : u < x}
    <2>4. upto(t) \in SUBSET upto(end) /\ upto(end) \in SUBSET Tags
      <3>1. Rest \subseteq Tags /\ end \in Nat /\ \A u \in Rest : u \in Nat
        BY <1>3, Numbered
      <3>2. \A u \in Rest : u < t => u < end
        BY <2>1, <3>1
      <3> QED BY <3>1, <3>2
    <2>5. Cardinality(upto(t)) <= Cardinality(upto(end))
      BY <2>4, Finite, FS_Subset
    <2>6. upto(t) \in SUBSET Tags
      BY <2>4
    <2>7. Cardinality(upto(t)) \in Nat /\ Cardinality(upto(end)) \in Nat
      BY <2>4, <2>6, Finite
    <2>8. Cardinality(upto(end)) < PageSize
      BY <2>3
    <2> HIDE DEF upto
    <2>9. Cardinality(upto(t)) < PageSize
      BY <2>5, <2>7, <2>8
    <2> QED BY <2>1, <2>9 DEF upto, Page, Rest
  <1>8. LastPage => call.throughout \subseteq call.got \union Page
    BY <1>0 DEF LastPage, Rest
  <1>9. call.got \union Page \subseteq call.ever
    BY <1>2, <1>3 DEF ListedSoFar
  <1>10. ListIsComplete' /\ ListedSoFar' /\ (call'.pc # "idle" => call'.got \subseteq call'.ever)
    BY <1>2, <1>4, <1>7, <1>8, <1>9 DEF ListIsComplete, ListedSoFar
  <1>11. /\ call.got \union Page \in SUBSET Tags /\ call.got \in SUBSET (call.got \union Page)
         /\ Page \in SUBSET (call.got \union Page) /\ Page \in SUBSET Tags
         /\ call.got \in SUBSET Tags /\ call.ever \in SUBSET Tags
    BY <1>3 DEF TypeOK, Listing
  <1>12. /\ Cardinality(call.got) <= Cardinality(call.got \union Page)
         /\ Cardinality(Page) <= Cardinality(call.got \union Page)
    BY <1>11, Finite, FS_Subset
  <1>13. /\ Cardinality(call.got) \in Nat /\ Cardinality(Page) \in Nat
         /\ Cardinality(call.got \union Page) \in Nat /\ Cardinality(call.ever) \in Nat
    BY <1>11, Finite
  <1>14. ~LastPage => /\ Cardinality(call.got \union Page) >= PageSize
                      /\ Cardinality(call.ever) > PageSize
    <2> SUFFICES ASSUME ~LastPage
                 PROVE  /\ Cardinality(call.got \union Page) >= PageSize
                        /\ Cardinality(call.ever) > PageSize
      OBVIOUS
    <2>1. Cardinality(Page) >= PageSize
      BY PageIsFull
    <2>2. Page \in SUBSET call.ever /\ Page # call.ever
      BY <1>2, <1>3 DEF LastPage, ListedSoFar
    <2>3. Cardinality(Page) <= Cardinality(call.ever) /\ Cardinality(Page) # Cardinality(call.ever)
      BY <2>2, <1>11, Finite, FS_Subset
    <2> QED BY <2>1, <2>3, <1>12, <1>13
  <1>15. LastPage => Describes(CapturedETag, call.got \union Page)
    BY <1>2, <1>5, <1>12, <1>13 DEF PagesFilled, Describes
  <1> QED
    BY <1>2, <1>4, <1>6, <1>10, <1>14, <1>15 DEF PagesFilled

\* A listing that ends leaves the caller's tags and ETag, or hands it its own.
LEMMA EndKeeps ==
    ASSUME ListingInv, call' = Idle, tags' = tags,
           \/ held' = held
           \/ /\ call.pc = "return"
              /\ held' = [tags |-> call.got, etag |-> call.capturedETag]
    PROVE  ListingInv'
  <1>1. TypeOK'
    BY IdleIsListing DEF ListingInv, TypeOK, Listing
  <1>2. call'.pc = "idle"
    BY DEF Idle
  <1>3. Describes(held'.etag, held'.tags)
    BY DEF ListingInv
  <1> QED BY <1>1, <1>2, <1>3 DEF ListingInv, ListIsComplete, ListedSoFar, PagesFilled, Describes

LEMMA PushKeeps ==
    ASSUME ListingInv, NEW t \in Tags, Push(t)
    PROVE  ListingInv'
  <1> USE DEF ListingInv
  <1>1. tags' = tags \union {t} /\ held' = held
    BY DEF Push
  <1>2. CASE call.pc = "list"
    <2>1. call' = [call EXCEPT !.ever = @ \union {t}]
      BY <1>2 DEF Push
    <2>2. /\ call'.pc = "list" /\ call'.last = call.last /\ call'.got = call.got
          /\ call'.throughout = call.throughout
          /\ call'.ever = call.ever \union {t}
      BY <1>2, <2>1 DEF TypeOK, Listing
    <2>3. TypeOK'
      BY <1>1, <2>1 DEF TypeOK, Listing
    <2>4. call.ever \in SUBSET (call.ever \union {t}) /\ call.ever \union {t} \in SUBSET Tags
          /\ call.ever \in SUBSET Tags
      BY DEF TypeOK, Listing
    <2>5. Cardinality(call.ever) <= Cardinality(call.ever \union {t})
      BY <2>4, Finite, FS_Subset
    <2>6. Cardinality(call.ever) \in Nat /\ Cardinality(call.ever \union {t}) \in Nat
      BY <2>4, Finite
    <2>7. PagesFilled'
      BY <1>2, <2>2, <2>5, <2>6 DEF PagesFilled
    <2> QED BY <1>1, <1>2, <2>2, <2>3, <2>7 DEF ListIsComplete, ListedSoFar, Describes
  <1>3. CASE call.pc # "list"
    <2>1. call' = call
      BY <1>3 DEF Push
    <2> QED BY <1>1, <1>3, <2>1 DEF TypeOK, ListIsComplete, ListedSoFar, PagesFilled, Describes
  <1> QED BY <1>2, <1>3

LEMMA WithdrawKeeps ==
    ASSUME ListingInv, NEW t \in Tags, Withdraw(t)
    PROVE  ListingInv'
  <1> USE DEF ListingInv
  <1>1. tags' = tags \ {t} /\ held' = held
    BY DEF Withdraw
  <1>2. CASE call.pc = "list"
    <2>1. call' = [call EXCEPT !.throughout = @ \ {t}]
      BY <1>2 DEF Withdraw
    <2>2. /\ call'.pc = "list" /\ call'.last = call.last /\ call'.got = call.got
          /\ call'.throughout = call.throughout \ {t}
          /\ call'.ever = call.ever
      BY <1>2, <2>1 DEF TypeOK, Listing
    <2>3. TypeOK'
      BY <1>1, <2>1 DEF TypeOK, Listing
    <2> QED BY <1>1, <1>2, <2>2, <2>3 DEF ListIsComplete, ListedSoFar, PagesFilled, Describes
  <1>3. CASE call.pc # "list"
    <2>1. call' = call
      BY <1>3 DEF Withdraw
    <2> QED BY <1>1, <1>3, <2>1 DEF TypeOK, ListIsComplete, ListedSoFar, PagesFilled, Describes
  <1> QED BY <1>2, <1>3

LEMMA ListingStep == ListingInv /\ [Next]_vars => ListingInv'
  <1> SUFFICES ASSUME ListingInv, [Next]_vars
               PROVE  ListingInv'
    OBVIOUS
  <1>1. CASE ListTagsWithETag \/ ListTags \/ GetLatestTag
    BY <1>1, StartKeeps DEF ListTagsWithETag, ListTags, GetLatestTag, Methods
  <1>2. CASE RoundTripOK
    BY <1>2, PageKeeps
  <1>3. CASE RoundTripNotModified \/ RoundTripFails \/ ReturnTags \/ ReturnList
    BY <1>3, EndKeeps DEF RoundTripNotModified, RoundTripFails, ReturnTags, ReturnList
  <1>4. CASE \E latest \in Tags \union {0} : ReturnLatest(latest)
    BY <1>4, EndKeeps DEF ReturnLatest
  <1>5. CASE \E t \in Tags : Push(t) \/ Withdraw(t)
    BY <1>5, PushKeeps, WithdrawKeeps
  <1>6. CASE UNCHANGED vars
    BY <1>6 DEF vars, ListingInv, TypeOK, ListIsComplete, ListedSoFar, PagesFilled, Describes
  <1> QED BY <1>1, <1>2, <1>3, <1>4, <1>5, <1>6 DEF Next

LEMMA ListingInvariant == Spec => []ListingInv
  BY ListingInit, ListingStep, PTL DEF Spec

-----------------------------------------------------------------------------
(* The theorems                                                            *)

(***************************************************************************)
(* What a listing collects are tags, its ETag is one of a page, and it     *)
(* asks for the next page after a tag (etagRoundTripper, remote.List).     *)
(***************************************************************************)
THEOREM ListingTypeCorrect == Spec => []TypeOK
  <1>1. ListingInv => TypeOK
    BY DEF ListingInv
  <1> QED BY <1>1, ListingInvariant, PTL

(***************************************************************************)
(* A listing that succeeds has every tag that was there all the time and   *)
(* none that never was (ListTagsWithETag, ListTags), for any number of     *)
(* pages.                                                                  *)
(***************************************************************************)
THEOREM ListingsAreComplete == Spec => []ListIsComplete
  <1>1. ListingInv => ListIsComplete
    BY DEF ListingInv
  <1> QED BY <1>1, ListingInvariant, PTL

(***************************************************************************)
(* When neither list reaches beyond a page, 304 Not Modified means that    *)
(* the caller has the registry's tags (etagRoundTripper.RoundTrip).        *)
(***************************************************************************)
THEOREM NotModifiedIsSound == Spec => NotModifiedMeansUnchanged
  <1>1. ASSUME ListingInv, RoundTripNotModified, FitsOnePage
        PROVE  tags = held.tags
    <2> USE DEF ListingInv
    <2>1. call.pc = "list" /\ held.etag = {Page}
      BY <1>1 DEF RoundTripNotModified, NotModified
    <2>2. held.tags \in SUBSET Tags /\ call.ever \in SUBSET Tags /\ tags \in SUBSET Tags
      BY <1>1 DEF TypeOK, Listing
    <2>3. /\ Cardinality(held.tags) \in Nat /\ Cardinality(call.ever) \in Nat
          /\ Cardinality(tags) \in Nat
      BY <2>2, Finite
    <2>4. held.etag = {held.tags}
      BY <1>1, <2>1, <2>3 DEF FitsOnePage, Describes
    <2>5. call.last = 0
      BY <1>1, <2>1, <2>3 DEF FitsOnePage, PagesFilled
    <2>6. tags \in SUBSET call.ever
      BY <1>1, <2>1 DEF ListedSoFar
    <2>7. Cardinality(tags) <= Cardinality(call.ever)
      BY <2>2, <2>6, Finite, FS_Subset
    <2>8. Cardinality(tags) <= PageSize
      BY <1>1, <2>3, <2>7 DEF FitsOnePage
    <2>9. Page = tags
      BY <1>1, <2>5, <2>8, OnePage
    <2> QED BY <2>1, <2>4, <2>9
  <1>2. ListingInv /\ [Next]_vars =>
          [RoundTripNotModified /\ FitsOnePage => tags = held.tags]_vars
    BY <1>1
  <1> QED BY <1>2, ListingInvariant, PTL DEF Spec, NotModifiedMeansUnchanged

(***************************************************************************)
(* The answer of GetLatestTag was in the registry at some time of the      *)
(* call, and no tag that was there all the time comes after it.            *)
(***************************************************************************)
THEOREM LatestTagsAreRecent == Spec => LatestTagIsRecent
  <1> DEFINE Recent ==
        \A latest \in Tags \union {0} :
            ReturnLatest(latest) =>
                /\ latest \in call.ever \union {0}
                /\ \A t \in call.throughout : t <= latest
  <1>1. ListingInv => Recent
    BY DEF ListingInv, ListIsComplete, ReturnLatest, LatestTag
  <1>2. ListingInv /\ [Next]_vars => [Recent]_vars
    BY <1>1
  <1> HIDE DEF Recent
  <1>3. Spec => [][Recent]_vars
    BY <1>2, ListingInvariant, PTL DEF Spec
  <1> QED BY <1>3 DEF LatestTagIsRecent, Recent
=============================================================================
