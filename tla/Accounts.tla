------------------------------ MODULE Accounts ------------------------------
(***************************************************************************)
(* The account of one user: the rows that are made when the user has been  *)
(* confirmed (cmd/lambda/postUserConfirmation), and what is written to     *)
(* them later, by payments (paymentConfirmation), avatars (avatarUpload,   *)
(* postAvatarUpload) and puzzles (puzzleSolve).  Every action is one call  *)
(* of a function to DynamoDB or S3; a failed call ends its function.       *)
(***************************************************************************)
EXTENDS Naturals, FiniteSets

CONSTANTS
  Confirmations,  \* invocations of postUserConfirmation
  Uploads,        \* images the user uploads
  Sizes,          \* the sizes an avatar is kept in
  Solves,         \* calls of puzzleSolve
  NoImage,
  MaxFailures     \* bound: how many calls to a service fail

ASSUME NoImageAssumption == NoImage \notin Uploads
ASSUME FailuresAssumption == MaxFailures \in Nat
ASSUME SolvesAssumption == IsFiniteSet(Solves)

VARIABLES
  profile,     \* row of UserProfiles; membership "none" for an attribute that is missing
  puzzles,     \* row of PuzzleProfiles: the rating, or 0 for no row
  rated,       \* whether there is a row of UserRatings
  confirming,  \* what each confirmation has done
  paid,        \* "no", "due" (a callback comes) or "yes" (answered with success)
  original,    \* the object of the upload bucket
  avatar,      \* the object of each size in the avatar bucket
  resizing,    \* the function that each upload has set off
  solving,     \* what each call of puzzleSolve has read and done
  failures,
  late,        \* a confirmation has put a profile after a payment
  crossed      \* a call of puzzleSolve has overlapped another, or a confirmation

varsAccounts == <<profile, puzzles, rated, confirming, paid, original, avatar,
                  resizing, solving, failures, late, crossed>>
images == <<original, avatar, resizing>>
puzzleVars == <<puzzles, solving, crossed>>
profileVars == <<profile, rated, confirming, paid, late>>

InitAccounts ==
  /\ profile = [membership |-> "none", avatar |-> FALSE]
  /\ puzzles = 0
  /\ rated = FALSE
  /\ confirming = [k \in Confirmations |-> "none"]
  /\ paid = "no"
  /\ original = NoImage
  /\ avatar = [z \in Sizes |-> NoImage]
  /\ resizing = [u \in Uploads |-> [at |-> "none", image |-> NoImage, left |-> {}]]
  /\ solving = [s \in Solves |-> [at |-> "none", rating |-> 0]]
  /\ failures = 0
  /\ late = FALSE /\ crossed = FALSE

Confirmed == \E k \in Confirmations : confirming[k] = "ok"
-----------------------------------------------------------------------------
(* Confirmation: three rows are put, whatever is there.  Cognito invokes   *)
(* the function again when it was not answered in time or with an error,   *)
(* and when the user confirms a new password.                              *)

ConfirmGoes(k, next) == confirming' = [confirming EXCEPT ![k] = next]

PutUserProfile(k) ==
  /\ confirming[k] = "none"
  /\ profile' = [membership |-> "guest", avatar |-> FALSE]
  /\ late' = (late \/ paid = "yes")
  /\ ConfirmGoes(k, "puzzles")
  /\ UNCHANGED <<rated, paid, images, puzzleVars, failures>>

PutPuzzleProfile(k) ==
  /\ confirming[k] = "puzzles"
  /\ puzzles' = 300
  /\ crossed' = (crossed \/ \E s \in Solves : solving[s].at # "none")
  /\ ConfirmGoes(k, "rating")
  /\ UNCHANGED <<profile, rated, paid, late, images, solving, failures>>

PutUserRating(k) ==
  /\ confirming[k] = "rating"
  /\ rated' = TRUE
  /\ ConfirmGoes(k, "ok")
  /\ UNCHANGED <<profile, paid, late, images, puzzleVars, failures>>

ConfirmFails(k) ==
  /\ failures < MaxFailures /\ failures' = failures + 1
  /\ confirming[k] \in {"none", "puzzles", "rating"}
  /\ ConfirmGoes(k, "error")
  /\ UNCHANGED <<profile, rated, paid, late, images, puzzleVars>>
-----------------------------------------------------------------------------
(* UpdateUserProfile writes one attribute and makes a row if there is none. *)

(* The user pays; ZaloPay calls back until it is answered with success. *)
Pay ==
  /\ Confirmed /\ paid = "no"
  /\ paid' = "due"
  /\ UNCHANGED <<profile, rated, confirming, late, images, puzzleVars, failures>>

UpdateMembership ==
  /\ paid = "due"
  /\ paid' = "yes"
  /\ profile' = [profile EXCEPT !.membership = "pro"]
  /\ UNCHANGED <<rated, confirming, late, images, puzzleVars, failures>>
-----------------------------------------------------------------------------
(* Avatars *)

Resizing(u, place) == resizing[u].at = place
ResizeGoes(u, next) == resizing' = [resizing EXCEPT ![u].at = next]

(* The client puts the object with the address of avatarUpload. *)
PutOriginal(u) ==
  /\ Confirmed /\ Resizing(u, "none")
  /\ original' = u
  /\ ResizeGoes(u, "get")
  /\ UNCHANGED <<profileVars, avatar, puzzleVars, failures>>

(* What is there may be a later upload, or nothing any more. *)
GetOriginal(u) ==
  /\ Resizing(u, "get")
  /\ resizing' = [resizing EXCEPT ![u] =
       [at |-> IF original = NoImage THEN "error" ELSE "put", image |-> original,
        left |-> Sizes]]
  /\ UNCHANGED <<profileVars, original, avatar, puzzleVars, failures>>

(* Mutant: one size is enough. *)
PutOneImage(u, z) ==
  /\ Resizing(u, "put") /\ z \in resizing[u].left
  /\ avatar' = [avatar EXCEPT ![z] = resizing[u].image]
  /\ ResizeGoes(u, "update")
  /\ UNCHANGED <<profileVars, original, puzzleVars, failures>>

PutImage(u, z) ==
  /\ Resizing(u, "put") /\ z \in resizing[u].left
  /\ avatar' = [avatar EXCEPT ![z] = resizing[u].image]
  /\ resizing' = [resizing EXCEPT ![u] =
       [at |-> IF @.left = {z} THEN "update" ELSE "put", image |-> @.image,
        left |-> @.left \ {z}]]
  /\ UNCHANGED <<profileVars, original, puzzleVars, failures>>

(* Mutant: the whole row is put, as it was when the user was confirmed. *)
PutAvatar(u) ==
  /\ Resizing(u, "update")
  /\ profile' = [membership |-> "guest", avatar |-> TRUE]
  /\ ResizeGoes(u, "delete")
  /\ UNCHANGED <<rated, confirming, paid, late, original, avatar, puzzleVars, failures>>

UpdateAvatar(u) ==
  /\ Resizing(u, "update")
  /\ profile' = [profile EXCEPT !.avatar = TRUE]
  /\ ResizeGoes(u, "delete")
  /\ UNCHANGED <<rated, confirming, paid, late, original, avatar, puzzleVars, failures>>

DeleteOriginal(u) ==
  /\ Resizing(u, "delete")
  /\ original' = NoImage
  /\ ResizeGoes(u, "ok")
  /\ UNCHANGED <<profileVars, avatar, puzzleVars, failures>>

(* S3 hands the event over again after an error, or not any more. *)
ResizeFails(u) ==
  /\ failures < MaxFailures /\ failures' = failures + 1
  /\ resizing[u].at \in {"get", "put", "update", "delete"}
  /\ \E next \in {"get", "error"} :
       resizing' = [resizing EXCEPT ![u] = [at |-> next, image |-> NoImage, left |-> {}]]
  /\ UNCHANGED <<profileVars, original, avatar, puzzleVars>>
-----------------------------------------------------------------------------
(* Puzzles: the rating is read and written in two calls. *)

SolveGoes(s, next, r) == solving' = [solving EXCEPT ![s] = [at |-> next, rating |-> r]]

GetPuzzleProfile(s) ==
  /\ solving[s].at = "none" /\ Confirmed
  /\ SolveGoes(s, IF puzzles = 0 THEN "error" ELSE "write", puzzles)
  /\ crossed' = (\/ crossed
                 \/ \E o \in Solves : solving[o].at = "write"
                 \/ \E k \in Confirmations : confirming[k] = "puzzles")
  /\ UNCHANGED <<profileVars, images, puzzles, failures>>

(* Mutant: the points are added to the first rating. *)
UpdateFirstRating(s) ==
  /\ solving[s].at = "write"
  /\ puzzles' = 300 + 10
  /\ SolveGoes(s, "ok", solving[s].rating + 10)
  /\ UNCHANGED <<profileVars, images, crossed, failures>>

UpdatePuzzleProfile(s) ==
  /\ solving[s].at = "write"
  /\ puzzles' = solving[s].rating + 10
  /\ SolveGoes(s, "ok", solving[s].rating + 10)
  /\ UNCHANGED <<profileVars, images, crossed, failures>>

SolveFails(s) ==
  /\ failures < MaxFailures /\ failures' = failures + 1
  /\ solving[s].at \in {"none", "write"} /\ Confirmed
  /\ SolveGoes(s, "error", 0)
  /\ UNCHANGED <<profileVars, images, puzzles, crossed>>

ConfirmStep(k) ==
  PutUserProfile(k) \/ PutPuzzleProfile(k) \/ PutUserRating(k) \/ ConfirmFails(k)

ResizeStep(u) ==
  \/ GetOriginal(u) \/ UpdateAvatar(u) \/ DeleteOriginal(u) \/ ResizeFails(u)
  \/ \E z \in Sizes : PutImage(u, z)

SolveStep(s) == GetPuzzleProfile(s) \/ UpdatePuzzleProfile(s) \/ SolveFails(s)

AccountStep == (\E k \in Confirmations : ConfirmStep(k)) \/ Pay \/ UpdateMembership
AvatarStep == \E u \in Uploads : PutOriginal(u) \/ ResizeStep(u)
PuzzleStep == \E s \in Solves : SolveStep(s)

NextAccounts == AccountStep \/ AvatarStep \/ PuzzleStep

SpecAccounts == InitAccounts /\ [][NextAccounts]_varsAccounts
-----------------------------------------------------------------------------
TypeOKAccounts ==
  /\ profile \in [membership : {"none", "guest", "pro"}, avatar : BOOLEAN]
  /\ puzzles \in Nat
  /\ rated \in BOOLEAN
  /\ confirming \in [Confirmations -> {"none", "puzzles", "rating", "ok", "error"}]
  /\ paid \in {"no", "due", "yes"}
  /\ original \in Uploads \cup {NoImage}
  /\ avatar \in [Sizes -> Uploads \cup {NoImage}]
  /\ resizing \in [Uploads -> [at : {"none", "get", "put", "update", "delete", "ok", "error"},
                               image : Uploads \cup {NoImage}, left : SUBSET Sizes]]
  /\ solving \in [Solves -> [at : {"none", "write", "ok", "error"}, rating : Nat]]
  /\ failures \in 0..MaxFailures
  /\ late \in BOOLEAN /\ crossed \in BOOLEAN

(* Who has paid is a "pro", whatever avatars are uploaded at the time:     *)
(* unless a confirmation comes in late and puts the profile anew.          *)
PaidIsPro == paid = "yes" /\ ~late => profile.membership = "pro"

(* The address in a profile leads to a picture in every size, whichever    *)
(* upload failed half-way and however uploads overtook each other.         *)
AvatarIsThere == profile.avatar => \A z \in Sizes : avatar[z] # NoImage

(* Calls that did not overlap count one by one: none is lost, and one that *)
(* failed does not count.                                                  *)
SolvesCount == Confirmed /\ ~crossed =>
  puzzles = 300 + 10 * Cardinality({s \in Solves : solving[s].at = "ok"})
=============================================================================
