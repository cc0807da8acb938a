---------------------------- MODULE RegistryClient ----------------------------
(***************************************************************************)
(* OCIClient (internal/registry): a tag listing is a request for every     *)
(* page of the registry's tag list, while others push and withdraw tags.   *)
(* ListTagsWithETag goes over etagRoundTripper: each request is sent with  *)
(* If-None-Match and each response leaves its ETag behind.  Its caller,    *)
(* Reconcile, keeps the tags and the ETag of a successful listing or drops *)
(* both, as its next status write succeeds or not.  ListTags and           *)
(* GetLatestTag use the default transport.                                 *)
(***************************************************************************)
EXTENDS Integers, FiniteSets

CONSTANTS
    Tags,          \* the tags, numbered in the order the registry lists them
    PageSize       \* the most tags the registry puts on one page

ASSUME PagesAssumption ==
    /\ Tags \subseteq Nat \ {0} /\ IsFiniteSet(Tags)
    /\ PageSize \in Nat \ {0}

VARIABLES
    tags,          \* the tags in the registry
    held,          \* what the caller kept of the last listing: tags and ETag
    call           \* the listing that runs

vars == <<tags, held, call>>

\* The ETag of a page stands for the page's content; {} is the empty string.
ETags == {{}} \union {{page} : page \in SUBSET Tags}

(***************************************************************************)
(* A listing: the method that was called, the end of the last page read,   *)
(* the tags so far and the transport's capturedETag; throughout (history)  *)
(* is what the registry had all the time, ever what it had at some time.   *)
(***************************************************************************)
Methods == {"ListTagsWithETag", "ListTags", "GetLatestTag"}

Listing ==
    [pc : {"idle", "list", "return"}, method : Methods, last : Tags \union {0},
     got : SUBSET Tags, capturedETag : ETags,
     throughout : SUBSET Tags, ever : SUBSET Tags]

Idle ==
    [pc |-> "idle", method |-> "ListTagsWithETag", last |-> 0, got |-> {},
     capturedETag |-> {}, throughout |-> {}, ever |-> {}]

TypeOK ==
    /\ tags \subseteq Tags
    /\ held \in [tags : SUBSET Tags, etag : ETags]
    /\ call \in Listing

Init ==
    /\ tags \in SUBSET Tags
    /\ held = [tags |-> {}, etag |-> {}]
    /\ call = Idle

-----------------------------------------------------------------------------
\* The registry's answer to GET tags/list?last=...: the next tags in order.
Page ==
    LET rest == {t \in tags : t > call.last}
    IN  {t \in rest : Cardinality({u \in rest : u < t}) < PageSize}

\* A page ends with the tag that the link to the next page names; an empty
\* page has no such link.
EndOfPage(t) == t \in Page \union {call.last} /\ \A u \in Page : u <= t

LastPage == {t \in tags : t > call.last} \ Page = {}

StartListing(method) ==
    /\ call.pc = "idle"
    /\ call' = [Idle EXCEPT !.pc = "list", !.method = method,
                            !.throughout = tags, !.ever = tags]
    /\ UNCHANGED <<tags, held>>

\* A new transport, nothing captured, lastETag from the caller.
ListTagsWithETag == StartListing("ListTagsWithETag")

ListTags == StartListing("ListTags")

\* GetLatestTag calls ListTags.
GetLatestTag == StartListing("GetLatestTag")

Conditional == call.method = "ListTagsWithETag"

NotModified == Conditional /\ held.etag = {Page}

\* Mutant of CapturedETag: the ETag that was sent stays the one to send.
CapturedETagSent ==
    IF held.etag # {} THEN held.etag ELSE {Page}

\* RoundTrip captures the ETag of every response, so the last page's stays.
CapturedETag == IF Conditional THEN {Page} ELSE {}

\* Mutant of RoundTripOK: a 304 page ends the list like an empty one.
RoundTripEndsList ==
    /\ call.pc = "list"
    /\ \E end \in Tags \union {0} :
          /\ EndOfPage(end)
          /\ call' = [call EXCEPT
                  !.got = IF NotModified THEN @ ELSE @ \union Page,
                  !.last = end,
                  !.capturedETag = CapturedETag,
                  !.pc = IF LastPage \/ NotModified THEN "return" ELSE "list"]
    /\ UNCHANGED <<tags, held>>

\* Mutant of RoundTripOK: the next page starts one tag too far.
RoundTripSkips ==
    /\ call.pc = "list" /\ ~NotModified
    /\ \E end \in Tags \union {0} :
          /\ EndOfPage(end)
          /\ call' = [call EXCEPT !.got = @ \union Page, !.last = end + 1,
                                  !.capturedETag = CapturedETag,
                                  !.pc = IF LastPage THEN "return" ELSE "list"]
    /\ UNCHANGED <<tags, held>>

\* RoundTrip of one page, status 200: remote.List follows the next link, and
\* returns after the last page.
RoundTripOK ==
    /\ call.pc = "list" /\ ~NotModified
    /\ \E end \in Tags \union {0} :
          /\ EndOfPage(end)
          /\ call' = [call EXCEPT !.got = @ \union Page, !.last = end,
                                  !.capturedETag = CapturedETag,
                                  !.pc = IF LastPage THEN "return" ELSE "list"]
    /\ UNCHANGED <<tags, held>>

\* RoundTrip of one page, status 304: the listing ends with NotModifiedError
\* and the caller changes nothing.
RoundTripNotModified ==
    /\ call.pc = "list" /\ NotModified
    /\ call' = Idle
    /\ UNCHANGED <<tags, held>>

\* RoundTrip of one page fails, or has status 401, 403, 404 or 5xx: the
\* listing ends with an error, no tags and no ETag.
RoundTripFails ==
    /\ call.pc = "list"
    /\ call' = Idle
    /\ UNCHANGED <<tags, held>>

\* The listing succeeds.  Reconcile sets LastETag in memory and keeps it
\* with its next status write, if there is one and it succeeds.
ReturnTags ==
    /\ call.pc = "return" /\ Conditional
    /\ held' \in {held, [tags |-> call.got, etag |-> call.capturedETag]}
    /\ call' = Idle
    /\ UNCHANGED tags

\* ListTags returns the sorted tags and remembers nothing.
ReturnList ==
    /\ call.pc = "return" /\ call.method = "ListTags"
    /\ call' = Idle
    /\ UNCHANGED <<tags, held>>

\* Mutant of LatestTag: the first tag of the sorted list.
LatestTagFirst(latest, list) ==
    IF list = {} THEN latest = 0
    ELSE latest \in list /\ \A t \in list : latest <= t

\* The last tag of the sorted list; 0 is the empty string, for no tags.
LatestTag(latest, list) ==
    IF list = {} THEN latest = 0
    ELSE latest \in list /\ \A t \in list : t <= latest

ReturnLatest(latest) ==
    /\ call.pc = "return" /\ call.method = "GetLatestTag"
    /\ LatestTag(latest, call.got)
    /\ call' = Idle
    /\ UNCHANGED <<tags, held>>

-----------------------------------------------------------------------------
Push(t) ==
    /\ t \notin tags
    /\ tags' = tags \union {t}
    /\ call' = IF call.pc = "list" THEN [call EXCEPT !.ever = @ \union {t}]
                                   ELSE call
    /\ UNCHANGED held

Withdraw(t) ==
    /\ t \in tags
    /\ tags' = tags \ {t}
    /\ call' = IF call.pc = "list" THEN [call EXCEPT !.throughout = @ \ {t}]
                                   ELSE call
    /\ UNCHANGED held

Next ==
    \/ ListTagsWithETag \/ ListTags \/ GetLatestTag
    \/ RoundTripOK \/ RoundTripNotModified \/ RoundTripFails
    \/ ReturnTags \/ ReturnList
    \/ \E latest \in Tags \union {0} : ReturnLatest(latest)
    \/ \E t \in Tags : Push(t) \/ Withdraw(t)

Spec == Init /\ [][Next]_vars

-----------------------------------------------------------------------------
(***************************************************************************)
(* A listing that succeeds has every tag that was there all the time and   *)
(* none that never was, although its pages are read one by one while tags  *)
(* come and go (ListTagsWithETag, ListTags).                               *)
(***************************************************************************)
ListIsComplete ==
    call.pc = "return" =>
        call.throughout \subseteq call.got /\ call.got \subseteq call.ever

(***************************************************************************)
(* "If lastETag matches the current tag list content, returns              *)
(* NotModifiedError" (ListTagsWithETag): when the answer is                *)
(* NotModifiedError, the registry has the tags the caller already knows.   *)
(* True as long as these did not fill a page and the tags listed now fit   *)
(* on one: with more pages, the ETag of the last page is compared with     *)
(* every page, and one unchanged page hides what is new on the others.     *)
(***************************************************************************)
FitsOnePage ==
    Cardinality(held.tags) < PageSize /\ Cardinality(call.ever) <= PageSize

NotModifiedMeansUnchanged ==
    [][RoundTripNotModified /\ FitsOnePage => tags = held.tags]_vars

(***************************************************************************)
(* The answer of GetLatestTag was in the registry at some time of the      *)
(* call, and no tag that was there all the time comes after it, whatever   *)
(* is pushed and withdrawn between the pages.                              *)
(***************************************************************************)
LatestTagIsRecent ==
    [][\A latest \in Tags \union {0} :
         ReturnLatest(latest) =>
            /\ latest \in call.ever \union {0}
            /\ \A t \in call.throughout : t <= latest]_vars
=============================================================================
