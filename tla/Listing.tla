------------------------------ MODULE Listing ------------------------------
(***************************************************************************)
(* The list functions (cmd/lambda/*List): one client pages through the     *)
(* rows of one partition of one table while rows come and go.  A page is   *)
(* one DynamoDB query; the function turns the key where the query stopped  *)
(* into a token, and the token it is given back into the start key of the  *)
(* next query.  A key is modelled by the names and types of its            *)
(* attributes: "S" for a string, "N" for a number.  A failed call leaves   *)
(* everything as it was, and the client asks again.                        *)
(***************************************************************************)
EXTENDS Naturals, FiniteSets

CONSTANTS
  Rows,      \* the rows that may be in the partition that is listed
  Place,     \* Place[r]: where the row is in the order of the index
  Limits,    \* the values of the parameter limit
  NoRow,     \* no start key, or no row
  Lists      \* the functions that may be called

ASSUME PlaceAssumption ==
  /\ IsFiniteSet(Rows)
  /\ Place \in [Rows -> Nat]
  /\ \A r, q \in Rows : Place[r] = Place[q] => r = q
  /\ NoRow \notin Rows
ASSUME LimitAssumption == Limits \subseteq Nat \ {0}

VARIABLES
  rows,      \* the rows a query of the index finds at present
  listing,   \* the listing of the client: the function and its parameters
  startKey,  \* the row the start key of the next query names
  status,    \* "idle", "paging", "done" or "failed"
  listed,    \* how often the client was given each row
  stable     \* the rows that were there since the first query

varsListing == <<rows, listing, startKey, status, listed, stable>>
-----------------------------------------------------------------------------
(* What the storage client queries: the attributes of the keys of the      *)
(* table and of the index, and the directions it may go.  "desc" is the    *)
(* order of ScanIndexForward = false.                                      *)

FetchFriendships ==
  [key |-> [UserId |-> "S", FriendId |-> "S"], orders |-> {"asc"}]

FetchReceivedFriendRequests ==
  [key |-> [ReceiverId |-> "S", SenderId |-> "S"], orders |-> {"asc"}]

FetchSentFriendRequests ==
  [key |-> [SenderId |-> "S", ReceiverId |-> "S"], orders |-> {"asc"}]

FetchMatchResults ==
  [key |-> [UserId |-> "S", Timestamp |-> "S"], orders |-> {"desc"}]

FetchMatchStates ==
  [key |-> [MatchId |-> "S", Ply |-> "N", Id |-> "S"], orders |-> {"asc", "desc"}]

FetchMessages ==
  [key |-> [ConversationId |-> "S", CreatedAt |-> "S", Id |-> "S"], orders |-> {"desc"}]

FetchUserRatings ==
  [key |-> [PartitionKey |-> "S", Rating |-> "N", UserId |-> "S"], orders |-> {"desc"}]

FetchActiveMatches ==
  [key |-> [PartitionKey |-> "S", AverageRating |-> "N", MatchId |-> "S"],
   orders |-> {"desc"}]
-----------------------------------------------------------------------------
(* The functions: the query; the attributes of the key where it stopped    *)
(* that the function reads for the token, with the type it asserts; the    *)
(* attributes it puts into a start key; whose partition may be asked for   *)
(* and whose partition the start key is in; and whether a filter may drop  *)
(* rows after they have been counted.                                      *)

FriendshipList ==
  [fetch |-> FetchFriendships, reads |-> [FriendId |-> "S"],
   sends |-> [UserId |-> "S", FriendId |-> "S"],
   targets |-> {"caller"}, keyOf |-> {"caller"}, filtered |-> FALSE]

FriendRequestReceivedList ==
  [fetch |-> FetchReceivedFriendRequests, reads |-> [SenderId |-> "S"],
   sends |-> [SenderId |-> "S", ReceiverId |-> "S"],
   targets |-> {"caller"}, keyOf |-> {"caller"}, filtered |-> FALSE]

FriendRequestSentList ==
  [fetch |-> FetchSentFriendRequests, reads |-> [ReceiverId |-> "S"],
   sends |-> [SenderId |-> "S", ReceiverId |-> "S"],
   targets |-> {"caller"}, keyOf |-> {"caller"}, filtered |-> FALSE]

(* The results of another user are asked for with the parameter userId;    *)
(* the start key has the id of the caller all the same.                    *)
MatchResultList ==
  [fetch |-> FetchMatchResults, reads |-> [Timestamp |-> "S"],
   sends |-> [UserId |-> "S", Timestamp |-> "S"],
   targets |-> {"caller", "other"}, keyOf |-> {"caller"}, filtered |-> FALSE]

MatchStateList ==
  [fetch |-> FetchMatchStates, reads |-> [Id |-> "S", Ply |-> "N"],
   sends |-> [Id |-> "S", MatchId |-> "S", Ply |-> "N"],
   targets |-> {"other"}, keyOf |-> {"other"}, filtered |-> FALSE]

MessageList ==
  [fetch |-> FetchMessages, reads |-> [CreatedAt |-> "S"],
   sends |-> [ConversationId |-> "S", CreatedAt |-> "S"],
   targets |-> {"other"}, keyOf |-> {"other"}, filtered |-> FALSE]

UserRatingList ==
  [fetch |-> FetchUserRatings, reads |-> [Rating |-> "S"], sends |-> [Rating |-> "S"],
   targets |-> {"other"}, keyOf |-> {}, filtered |-> FALSE]

ActiveMatchList ==
  [fetch |-> FetchActiveMatches, reads |-> [CreatedAt |-> "S"],
   sends |-> [CreatedAt |-> "S"],
   targets |-> {"other"}, keyOf |-> {}, filtered |-> TRUE]

AllLists == {FriendshipList, FriendRequestReceivedList, FriendRequestSentList,
             MatchResultList, MatchStateList, MessageList, UserRatingList,
             ActiveMatchList}
-----------------------------------------------------------------------------
(* r is given before q. *)
Before(r, q) == IF listing.order = "asc" THEN Place[r] < Place[q] ELSE Place[q] < Place[r]

(* The rows a query goes on to. *)
Ahead == {r \in rows : startKey # NoRow => Before(startKey, r)}

(* p is what one query evaluates: the first rows ahead, as many as the     *)
(* limit allows.  Only a query that reaches the limit says where it        *)
(* stopped.                                                                *)
Reached(p) == Cardinality(p) = listing.limit
IsPage(p) ==
  /\ p \subseteq Ahead
  /\ \A r \in p, q \in Ahead \ p : Before(r, q)
  /\ Reached(p) \/ (p = Ahead /\ Cardinality(p) < listing.limit)

(* Mutant: the token is that of the first row of the page. *)
FirstEvaluated(p) == CHOOSE r \in p : \A q \in p \ {r} : Before(r, q)

(* The row of the token: the last one evaluated. *)
LastEvaluated(p) == CHOOSE r \in p : \A q \in p \ {r} : Before(q, r)

(* The assertion lastEvalKey[name].(Type) holds for all that is read. *)
Readable(l) ==
  \A a \in DOMAIN l.reads : a \in DOMAIN l.fetch.key /\ l.reads[a] = l.fetch.key[a]

(* DynamoDB accepts a start key with the attributes of the key, no more    *)
(* and no less, in the partition that is queried.                          *)
Accepted == startKey # NoRow =>
  /\ listing.list.sends = listing.list.fetch.key
  /\ listing.target \in listing.list.keyOf
-----------------------------------------------------------------------------
InitListing ==
  /\ rows \in SUBSET Rows
  /\ listing \in [list : Lists, target : {"caller"}, order : {"asc"}, limit : Limits,
                  filter : {Rows}]
  /\ startKey = NoRow
  /\ status = "idle"
  /\ listed = [r \in Rows |-> 0]
  /\ stable = {}

(* The client settles on the parameters of its queries. *)
BeginListing ==
  /\ status = "idle"
  /\ \E target \in listing.list.targets, order \in listing.list.fetch.orders,
        filter \in IF listing.list.filtered THEN SUBSET Rows ELSE {Rows} :
       listing' = [listing EXCEPT !.target = target, !.order = order, !.filter = filter]
  /\ status' = "paging"
  /\ stable' = rows
  /\ UNCHANGED <<rows, startKey, listed>>

Give(p) == listed' = [r \in Rows |-> IF r \in p \cap listing.filter
                                     THEN listed[r] + 1 ELSE listed[r]]

(* A page with a token: the client asks for the next one. *)
NextPage(p) ==
  /\ status = "paging" /\ Accepted
  /\ IsPage(p) /\ Reached(p) /\ Readable(listing.list)
  /\ Give(p)
  /\ startKey' = LastEvaluated(p)
  /\ UNCHANGED <<rows, listing, status, stable>>

(* A page without a token is the last one. *)
LastPage(p) ==
  /\ status = "paging" /\ Accepted
  /\ IsPage(p) /\ ~Reached(p)
  /\ Give(p)
  /\ status' = "done"
  /\ UNCHANGED <<rows, listing, startKey, stable>>

(* The type assertion on the key panics: there is no answer. *)
TokenPanics(p) ==
  /\ status = "paging" /\ Accepted
  /\ IsPage(p) /\ Reached(p) /\ ~Readable(listing.list)
  /\ status' = "failed"
  /\ UNCHANGED <<rows, listing, startKey, listed, stable>>

(* The query is refused: the answer is an internal server error. *)
StartKeyRefused ==
  /\ status = "paging" /\ ~Accepted
  /\ status' = "failed"
  /\ UNCHANGED <<rows, listing, startKey, listed, stable>>

(* Other functions put and delete rows. *)
PutRow(r) ==
  /\ r \notin rows
  /\ rows' = rows \cup {r}
  /\ UNCHANGED <<listing, startKey, status, listed, stable>>

DeleteRow(r) ==
  /\ r \in rows
  /\ rows' = rows \ {r}
  /\ stable' = stable \ {r}
  /\ UNCHANGED <<listing, startKey, status, listed>>

NextListing ==
  \/ BeginListing
  \/ \E p \in SUBSET rows : NextPage(p) \/ LastPage(p) \/ TokenPanics(p)
  \/ StartKeyRefused
  \/ \E r \in Rows : PutRow(r) \/ DeleteRow(r)

SpecListing == InitListing /\ [][NextListing]_varsListing
-----------------------------------------------------------------------------
TypeOKListing ==
  /\ rows \subseteq Rows
  /\ listing.list \in Lists
  /\ listing.limit \in Limits
  /\ listing.filter \subseteq Rows
  /\ startKey \in Rows \cup {NoRow}
  /\ status \in {"idle", "paging", "done", "failed"}
  /\ listed \in [Rows -> Nat]
  /\ stable \subseteq rows

(* A client that pages to the end was given every row that was there all   *)
(* along and passes its filter, and no row twice, whatever rows were put   *)
(* and deleted between its pages.                                          *)
ListedOnce ==
  /\ \A r \in Rows : listed[r] <= 1
  /\ status = "done" => \A r \in stable \cap listing.filter : listed[r] = 1

(* A token is for getting the next page (docs/api/http/openapi.yaml: the   *)
(* "start key to use for querying next page"): no page fails because of    *)
(* the token of the page before, or of its own.                            *)
TokensAreGood == status # "failed"
=============================================================================
