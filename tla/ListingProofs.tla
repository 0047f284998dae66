--------------------------- MODULE ListingProofs ---------------------------
(***************************************************************************)
(* Proofs about Listing for any finite number of rows, any order of them,  *)
(* any limits and any list functions.                                      *)
(***************************************************************************)
EXTENDS Listing, FiniteSetTheorems, WellFoundedInduction, TLAPS

(* The order of a listing is a strict total order of the rows. *)
LEMMA BeforeIsOrder ==
  ASSUME NEW r \in Rows, NEW q \in Rows
  PROVE  /\ ~Before(r, r)
         /\ r # q => Before(r, q) \/ Before(q, r)
         /\ Before(r, q) => ~Before(q, r)
         /\ \A o \in Rows : Before(r, q) /\ Before(q, o) => Before(r, o)
<1>1. /\ \A o \in Rows : Place[o] \in Nat
      /\ r # q => Place[r] # Place[q]
  BY PlaceAssumption
<1>2. QED
  BY <1>1 DEF Before

(* The last row of a page exists, so that LastEvaluated is that row: the   *)
(* rows of the page after some row are a strict subset of those after any  *)
(* row before it, and for finite sets that order is well-founded.          *)
LEMMA LastOfPage ==
  ASSUME NEW p \in SUBSET Rows, p # {}
  PROVE  /\ LastEvaluated(p) \in p
         /\ \A q \in p \ {LastEvaluated(p)} : Before(q, LastEvaluated(p))
<1> DEFINE After(r) == {q \in p : Before(r, q)}
           afters == {After(r) : r \in p}
<1>1. afters \subseteq FiniteSubsetsOf(p) /\ afters # {}
  <2>1. IsFiniteSet(p)
    BY PlaceAssumption, FS_Subset
  <2>2. ASSUME NEW y \in afters PROVE y \in FiniteSubsetsOf(p)
    <3>1. y \in SUBSET p
      OBVIOUS
    <3>2. QED
      BY <2>1, <3>1, FS_Subset DEF FiniteSubsetsOf
  <2>3. afters # {}
    OBVIOUS
  <2>4. QED
    BY <2>2, <2>3
<1>2. PICK r \in p : \A q \in p : ~ (After(q) \subseteq After(r) /\ After(q) # After(r))
  <2>1. PICK x \in afters : \A y \in afters : ~ (<<y, x>> \in StrictSubsetOrdering(p))
    BY <1>1, WFMin, FS_StrictSubsetOrderingWellFounded
  <2>2. \A y \in afters : ~ (y \subseteq x /\ y # x)
    <3>1. SUFFICES ASSUME NEW y \in afters, y \subseteq x, y # x PROVE FALSE
      OBVIOUS
    <3>2. <<y, x>> \in (SUBSET p) \X (SUBSET p)
      BY <1>1 DEF FiniteSubsetsOf
    <3>3. <<y, x>> \in StrictSubsetOrdering(p)
      BY <3>1, <3>2 DEF StrictSubsetOrdering
    <3>4. QED
      BY <2>1, <3>3
  <2>3. PICK r \in p : x = After(r)
    OBVIOUS
  <2>4. \A q \in p : After(q) \in afters
    OBVIOUS
  <2>5. \A q \in p : ~ (After(q) \subseteq After(r) /\ After(q) # After(r))
    BY <2>2, <2>3, <2>4
  <2>6. QED
    BY <2>5
<1>3. After(r) = {}
  <2>1. SUFFICES ASSUME NEW q \in After(r) PROVE FALSE
    OBVIOUS
  <2>2. After(q) \subseteq After(r) /\ q \notin After(q)
    BY BeforeIsOrder
  <2>3. QED
    BY <1>2, <2>2
<1>4. \A q \in p \ {r} : Before(q, r)
  BY <1>3, BeforeIsOrder
<1>5. QED
  BY <1>4 DEF LastEvaluated
-----------------------------------------------------------------------------
(* The parameters of a listing form a record whose parts the type names.   *)
ListingType ==
  /\ listing = [list |-> listing.list, target |-> listing.target,
                order |-> listing.order, limit |-> listing.limit,
                filter |-> listing.filter]
  /\ TypeOKListing

(* Nothing is listed, nor has a key been named, before the first page.     *)
(* Between two pages the rows after the start key have not been listed,    *)
(* and those up to it that stayed have.                                    *)
NotYet(r) == startKey # NoRow => Before(startKey, r)

PageInv ==
  /\ \A r \in Rows : listed[r] <= 1
  /\ status = "idle" => startKey = NoRow /\ \A r \in Rows : listed[r] = 0
  /\ status = "paging" =>
       /\ \A r \in Rows : NotYet(r) => listed[r] = 0
       /\ \A r \in stable \cap listing.filter : ~NotYet(r) => listed[r] = 1
  /\ status = "done" => \A r \in stable \cap listing.filter : listed[r] = 1

LEMMA InitIsTyped == InitListing => ListingType
BY LimitAssumption DEF InitListing, ListingType, TypeOKListing

(* What NextPage, LastPage and TokenPanics have for p is a set of rows.    *)
LEMMA PageIsRows ==
  ASSUME ListingType, NEW p \in SUBSET rows, IsPage(p), Reached(p)
  PROVE  p \in SUBSET Rows /\ p # {}
<1>1. p \in SUBSET Rows /\ listing.limit \in Nat \ {0}
  BY LimitAssumption DEF ListingType, TypeOKListing
<1>2. QED
  BY <1>1, FS_EmptySet DEF Reached

LEMMA StepIsTyped == ListingType /\ [NextListing]_varsListing => ListingType'
<1> SUFFICES ASSUME ListingType, [NextListing]_varsListing PROVE ListingType'
  OBVIOUS
<1> USE DEF ListingType, TypeOKListing
<1>1. CASE BeginListing
  BY <1>1 DEF BeginListing
<1>2. ASSUME NEW p \in SUBSET rows, NextPage(p) PROVE ListingType'
  <2>1. LastEvaluated(p) \in Rows
    BY <1>2, PageIsRows, LastOfPage DEF NextPage
  <2>2. listed' \in [Rows -> Nat]
    BY <1>2 DEF NextPage, Give
  <2>3. QED
    BY <1>2, <2>1, <2>2 DEF NextPage
<1>3. ASSUME NEW p \in SUBSET rows, LastPage(p) PROVE ListingType'
  BY <1>3 DEF LastPage, Give
<1>4. ASSUME NEW p \in SUBSET rows, TokenPanics(p) PROVE ListingType'
  BY <1>4 DEF TokenPanics
<1>5. CASE StartKeyRefused
  BY <1>5 DEF StartKeyRefused
<1>6. ASSUME NEW r \in Rows, PutRow(r) \/ DeleteRow(r) PROVE ListingType'
  BY <1>6 DEF PutRow, DeleteRow
<1>7. CASE UNCHANGED varsListing
  BY <1>7 DEF varsListing
<1>8. QED
  BY <1>1, <1>2, <1>3, <1>4, <1>5, <1>6, <1>7 DEF NextListing

(* Every state of a listing has its type, for any rows, limits and lists.  *)
THEOREM ListingTypeCorrect == SpecListing => []TypeOKListing
<1>1. ListingType => TypeOKListing
  BY DEF ListingType
<1>2. QED
  BY InitIsTyped, StepIsTyped, <1>1, PTL DEF SpecListing
-----------------------------------------------------------------------------
(* A page with a token: what is in it was not listed yet, what is not in   *)
(* it and not listed yet is after its last row.                            *)
LEMMA NextPageKeeps ==
  ASSUME ListingType, PageInv, NEW p \in SUBSET rows, NextPage(p)
  PROVE  PageInv'
<1> DEFINE m == LastEvaluated(p)
<1> USE DEF ListingType, TypeOKListing
<1>1. /\ status = "paging" /\ status' = "paging"
      /\ startKey' = m /\ stable' = stable /\ listing' = listing
      /\ p \in SUBSET Rows /\ p \in SUBSET Ahead
      /\ \A r \in p, q \in Ahead \ p : Before(r, q)
  BY PageIsRows DEF NextPage, IsPage
<1>2. m \in p /\ m \in Rows /\ m # NoRow /\ \A q \in p \ {m} : Before(q, m)
  BY <1>1, PageIsRows, LastOfPage, PlaceAssumption DEF NextPage
<1>3. \A r \in Rows : listed'[r] = IF r \in p \cap listing.filter THEN listed[r] + 1
                                   ELSE listed[r]
  BY DEF NextPage, Give
<1>4. \A r \in Rows, q \in Rows : Before(r, q)' <=> Before(r, q)
  BY <1>1 DEF Before
<1>5. \A r \in p : NotYet(r) /\ listed[r] = 0
  BY <1>1 DEF Ahead, NotYet, PageInv
<1>6. \A r \in Rows : NotYet(r)' <=> Before(m, r)
  BY <1>1, <1>2, <1>4 DEF NotYet
<1>7. \A r \in Rows : listed'[r] <= 1
  BY <1>3, <1>5 DEF PageInv
<1>8. ASSUME NEW r \in Rows, Before(m, r) PROVE listed'[r] = 0
  <2>1. NotYet(r)
    <3>1. CASE startKey = NoRow
      BY <3>1 DEF NotYet
    <3>2. CASE startKey # NoRow
      <4>1. startKey \in Rows /\ Before(startKey, m)
        BY <3>2, <1>2, <1>5 DEF NotYet
      <4>2. QED
        BY <4>1, <1>2, <1>8, BeforeIsOrder DEF NotYet
    <3>3. QED
      BY <3>1, <3>2
  <2>2. r \notin p
    BY <1>2, <1>8, BeforeIsOrder
  <2>3. QED
    BY <1>1, <1>3, <2>1, <2>2 DEF PageInv
<1>9. ASSUME NEW r \in stable \cap listing.filter, ~Before(m, r) PROVE listed'[r] = 1
  <2>1. r \in rows /\ r \in Rows
    OBVIOUS
  <2>2. CASE NotYet(r)
    <3>1. r \in p
      BY <2>1, <2>2, <1>1, <1>2, <1>9 DEF Ahead, NotYet
    <3>2. QED
      BY <3>1, <2>1, <1>3, <1>5
  <2>3. CASE ~NotYet(r)
    <3>1. listed[r] = 1 /\ r \notin p
      BY <2>3, <1>1, <1>5 DEF PageInv
    <3>2. QED
      BY <3>1, <2>1, <1>3
  <2>4. QED
    BY <2>2, <2>3
<1>10. QED
  BY <1>1, <1>6, <1>7, <1>8, <1>9 DEF PageInv

(* The last page is all that was ahead. *)
LEMMA LastPageKeeps ==
  ASSUME ListingType, PageInv, NEW p \in SUBSET rows, LastPage(p)
  PROVE  PageInv'
<1> USE DEF ListingType, TypeOKListing
<1>1. /\ status = "paging" /\ status' = "done"
      /\ stable' = stable /\ listing' = listing /\ p = Ahead
  BY DEF LastPage, IsPage
<1>2. \A r \in Rows : listed'[r] = IF r \in p \cap listing.filter THEN listed[r] + 1
                                   ELSE listed[r]
  BY DEF LastPage, Give
<1>3. \A r \in rows : r \in p <=> NotYet(r)
  BY <1>1 DEF Ahead, NotYet
<1>4. \A r \in Rows : listed'[r] <= 1
  BY <1>1, <1>2, <1>3 DEF PageInv
<1>5. \A r \in stable \cap listing.filter : listed'[r] = 1
  BY <1>1, <1>2, <1>3 DEF PageInv
<1>6. QED
  BY <1>1, <1>4, <1>5 DEF PageInv

LEMMA StepKeepsPages == ListingType /\ PageInv /\ [NextListing]_varsListing => PageInv'
<1> SUFFICES ASSUME ListingType, PageInv, [NextListing]_varsListing PROVE PageInv'
  OBVIOUS
<1> USE DEF ListingType, TypeOKListing
<1>1. CASE BeginListing
  BY <1>1, PlaceAssumption DEF BeginListing, PageInv, NotYet
<1>2. ASSUME NEW p \in SUBSET rows, NextPage(p) \/ LastPage(p) PROVE PageInv'
  BY <1>2, NextPageKeeps, LastPageKeeps
<1>3. ASSUME NEW p \in SUBSET rows, TokenPanics(p) PROVE PageInv'
  BY <1>3 DEF TokenPanics, PageInv
<1>4. CASE StartKeyRefused
  BY <1>4 DEF StartKeyRefused, PageInv
<1>5. ASSUME NEW r \in Rows, PutRow(r) \/ DeleteRow(r) PROVE PageInv'
  BY <1>5 DEF PutRow, DeleteRow, PageInv, NotYet, Before
<1>6. CASE UNCHANGED varsListing
  BY <1>6 DEF varsListing, PageInv, NotYet, Before
<1>7. QED
  BY <1>1, <1>2, <1>3, <1>4, <1>5, <1>6 DEF NextListing

(* ListedOnce for every number of rows and whatever is put and deleted     *)
(* between the pages.                                                      *)
THEOREM PagesAreComplete == SpecListing => []ListedOnce
<1>1. InitListing => PageInv
  BY LimitAssumption DEF InitListing, PageInv, NotYet
<1>2. PageInv => ListedOnce
  BY DEF PageInv, ListedOnce
<1>3. QED
  BY InitIsTyped, StepIsTyped, StepKeepsPages, <1>1, <1>2, PTL DEF SpecListing
-----------------------------------------------------------------------------
(* The token fits the table: it is read by the types of the key, has all   *)
(* attributes of the key, and names the partition that is listed.          *)
TokenFits(l) ==
  /\ Readable(l)
  /\ l.sends = l.fetch.key
  /\ l.targets \subseteq l.keyOf

(* The four functions whose tokens fit. *)
LEMMA FourFit ==
  ASSUME NEW l \in {FriendshipList, FriendRequestReceivedList, FriendRequestSentList,
                    MatchStateList}
  PROVE  TokenFits(l)
<1> USE DEF TokenFits, Readable
<1>1. TokenFits(FriendshipList)
  BY DEF FriendshipList, FetchFriendships
<1>2. TokenFits(FriendRequestReceivedList)
  BY DEF FriendRequestReceivedList, FetchReceivedFriendRequests
<1>3. TokenFits(FriendRequestSentList)
  BY DEF FriendRequestSentList, FetchSentFriendRequests
<1>4. TokenFits(MatchStateList)
  BY DEF MatchStateList, FetchMatchStates
<1>5. QED
  BY <1>1, <1>2, <1>3, <1>4

(* Functions whose tokens fit never fail a client for a token, of which    *)
(* TokensAreGood speaks: the run that finds it violated has the other four *)
(* functions.                                                              *)
THEOREM FittingTokensAreGood ==
  ASSUME Lists \subseteq {FriendshipList, FriendRequestReceivedList, FriendRequestSentList,
                          MatchStateList}
  PROVE  SpecListing => []TokensAreGood
<1> DEFINE TokenInv == /\ status # "failed"
                       /\ startKey # NoRow => listing.target \in listing.list.targets
                       /\ status = "idle" => startKey = NoRow
                       /\ status = "paging" => listing.target \in listing.list.targets
<1>1. InitListing => TokenInv
  BY DEF InitListing
<1>2. ListingType /\ TokenInv /\ [NextListing]_varsListing => TokenInv'
  <2> SUFFICES ASSUME ListingType, TokenInv, [NextListing]_varsListing PROVE TokenInv'
    OBVIOUS
  <2> USE DEF ListingType, TypeOKListing
  <2>1. TokenFits(listing.list)
    BY FourFit
  <2>2. CASE BeginListing
    BY <2>2 DEF BeginListing
  <2>3. ASSUME NEW p \in SUBSET rows, NextPage(p) \/ LastPage(p) PROVE TokenInv'
    BY <2>3 DEF NextPage, LastPage
  <2>4. ASSUME NEW p \in SUBSET rows, TokenPanics(p) PROVE FALSE
    BY <2>1, <2>4 DEF TokenPanics, TokenFits
  <2>5. ASSUME StartKeyRefused PROVE FALSE
    BY <2>1, <2>5 DEF StartKeyRefused, Accepted, TokenFits
  <2>6. ASSUME NEW r \in Rows, PutRow(r) \/ DeleteRow(r) PROVE TokenInv'
    BY <2>6 DEF PutRow, DeleteRow
  <2>7. CASE UNCHANGED varsListing
    BY <2>7 DEF varsListing
  <2>8. QED
    BY <2>2, <2>3, <2>4, <2>5, <2>6, <2>7 DEF NextListing
<1>3. TokenInv => TokensAreGood
  BY DEF TokensAreGood
<1>4. QED
  BY InitIsTyped, StepIsTyped, <1>1, <1>2, <1>3, PTL DEF SpecListing
=============================================================================
