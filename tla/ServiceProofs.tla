--------------------------- MODULE ServiceProofs ---------------------------
(***************************************************************************)
(* Proofs about Notification, for any number of connections and failures,  *)
(* about Accounts, for any uploads, sizes, confirmations and calls, about  *)
(* Fleet, for any tasks, clients, matches and troubles, and about the four *)
(* services side by side, as MCServices composes them.                     *)
(***************************************************************************)
EXTENDS MCServices, ListingProofs, FriendsProofs, Fleet, FiniteSetTheorems, TLAPS

-----------------------------------------------------------------------------
(* An open connection has its row, only an open one is answered, and the   *)
(* call that makes the match has posted it before it closes a connection.  *)
WaitInv ==
  /\ \A c \in Conns :
       /\ conn[c] = "open" => c \in connections
       /\ conn[c] \in {"none", "opening"} => queuing[c] = "idle"
  /\ match = "none" <=> matcher.at = "idle"
  /\ matcher.at = "row" => match = "marked"
  /\ matcher.at \in {"post", "close"} => matcher.conn \in Conns
  /\ matcher.at = "close" => told # {}
  /\ WaiterIsTold

LEMMA NotificationInit == InitNotification => TypeOKNotification /\ WaitInv
BY ErrorsAssumption DEF InitNotification, TypeOKNotification, WaitInv, WaiterIsTold

(* The steps of the connections themselves. *)
LEMMA ConnectionStep ==
  ASSUME TypeOKNotification, WaitInv, NEW c \in Conns,
         Dial(c) \/ PutConnection(c) \/ Index(c) \/ Hang(c) \/ DisconnectDeletes(c)
  PROVE  TypeOKNotification' /\ WaitInv'
<1> USE DEF TypeOKNotification, WaitInv, WaiterIsTold
<1>1. CASE Dial(c)
  BY <1>1 DEF Dial
<1>2. CASE PutConnection(c)
  BY <1>2 DEF PutConnection
<1>3. CASE Index(c)
  BY <1>3 DEF Index
<1>4. CASE Hang(c)
  BY <1>4 DEF Hang
<1>5. CASE DisconnectDeletes(c)
  BY <1>5 DEF DisconnectDeletes
<1>6. QED
  BY <1>1, <1>2, <1>3, <1>4, <1>5

(* The queuing function: it answers without a match only if none is there, *)
(* and then the matcher has not looked for the user yet or makes none.     *)
LEMMA QueuingKeeps ==
  ASSUME TypeOKNotification, WaitInv, NEW c \in Conns, QueuingStep(c)
  PROVE  TypeOKNotification' /\ WaitInv'
<1> USE DEF TypeOKNotification, WaitInv, WaiterIsTold, Reach
<1>1. CASE Wait(c)
  BY <1>1 DEF Wait
<1>2. CASE GetConnection(c)
  BY <1>2 DEF GetConnection
<1>3. CASE GetUserMatch(c)
  BY <1>3 DEF GetUserMatch
<1>4. CASE GetActiveMatch(c)
  BY <1>4 DEF GetActiveMatch
<1>5. CASE PostToQueuing(c)
  BY <1>5 DEF PostToQueuing
<1>6. CASE QueuingFails(c)
  BY <1>6, ErrorsAssumption DEF QueuingFails
<1>7. QED
  BY <1>1, <1>2, <1>3, <1>4, <1>5, <1>6 DEF QueuingStep

(* The call that makes the match: who is open and answered when it finds   *)
(* nobody is missing in the index.                                         *)
LEMMA MatcherKeeps ==
  ASSUME TypeOKNotification, WaitInv, CreateStep \/ NotifyStep \/ MatchEnds
  PROVE  TypeOKNotification' /\ WaitInv'
<1> USE DEF TypeOKNotification, WaitInv, WaiterIsTold, MatcherAt, MatcherGoes
<1>1. CASE PutOpponentMatch
  BY <1>1 DEF PutOpponentMatch
<1>2. CASE PutActiveMatch
  BY <1>2 DEF PutActiveMatch
<1>3. CASE PutActiveMatchFails
  BY <1>3, ErrorsAssumption DEF PutActiveMatchFails
<1>4. CASE GetConnectionByUserId
  <2>1. CASE indexed = {} /\ matcher' = [matcher EXCEPT !.at = "ok"]
    BY <1>4, <2>1 DEF GetConnectionByUserId
  <2>2. CASE \E c \in indexed : matcher' = [at |-> "post", conn |-> c]
    <3>1. PICK c \in indexed : matcher' = [at |-> "post", conn |-> c]
      BY <2>2
    <3>2. QED
      BY <1>4, <3>1 DEF GetConnectionByUserId
  <2>3. QED
    BY <1>4, <2>1, <2>2 DEF GetConnectionByUserId
<1>5. CASE PostToConnection
  <2>1. CASE conn[matcher.conn] = "open"
    BY <1>5, <2>1 DEF PostToConnection
  <2>2. CASE conn[matcher.conn] # "open"
    BY <1>5, <2>2 DEF PostToConnection
  <2>3. QED
    BY <2>1, <2>2
<1>6. CASE DeleteConnection
  BY <1>6 DEF DeleteConnection
<1>7. CASE NotifyFails
  BY <1>7, ErrorsAssumption DEF NotifyFails
<1>8. CASE MatchEnds
  BY <1>8 DEF MatchEnds
<1>9. QED
  BY <1>1, <1>2, <1>3, <1>4, <1>5, <1>6, <1>7, <1>8 DEF CreateStep, NotifyStep

LEMMA NotificationKeeps ==
  TypeOKNotification /\ WaitInv /\ [NextNotification]_varsNotification
    => TypeOKNotification' /\ WaitInv'
<1>1. ASSUME TypeOKNotification, WaitInv, UNCHANGED varsNotification
      PROVE  TypeOKNotification' /\ WaitInv'
  BY <1>1 DEF varsNotification, TypeOKNotification, WaitInv, WaiterIsTold
<1>2. QED
  BY <1>1, ConnectionStep, QueuingKeeps, MatcherKeeps DEF NextNotification

(* Every state of the connections has its type.                            *)
THEOREM NotificationTypeCorrect == SpecNotification => []TypeOKNotification
BY NotificationInit, NotificationKeeps, PTL DEF SpecNotification

(* A waiting user is told of the match (WaiterIsTold), for any number of   *)
(* connections that come and go, however far the index is behind: only one *)
(* that was answered before and that the index did not know must ask again.*)
THEOREM WaitersAreTold == SpecNotification => []WaiterIsTold
<1>1. WaitInv => WaiterIsTold
  BY DEF WaitInv
<1>2. QED
  BY NotificationInit, NotificationKeeps, <1>1, PTL DEF SpecNotification

-----------------------------------------------------------------------------
(* The size an upload works on has a picture to put, the sizes it is done  *)
(* with have one already, and nothing takes a picture away.                *)
AvatarInv ==
  /\ \A u \in Uploads :
       /\ resizing[u].at = "put" =>
            /\ resizing[u].image \in Uploads
            /\ \A z \in Sizes \ resizing[u].left : avatar[z] # NoImage
       /\ resizing[u].at \in {"update", "delete", "ok"} =>
            \A z \in Sizes : avatar[z] # NoImage
  /\ AvatarIsThere

Done == {s \in Solves : solving[s].at = "ok"}

(* Until two calls overlap, whoever is about to write the puzzle rating is *)
(* alone and has read the rating that is still there.                      *)
PuzzleInv ==
  /\ ~Confirmed => \A s \in Solves : solving[s].at = "none"
  /\ ~crossed => \A s \in Solves : solving[s].at = "write" =>
       /\ solving[s].rating = puzzles
       /\ \A o \in Solves : solving[o].at = "write" => o = s
  /\ ~crossed /\ (\E k \in Confirmations : confirming[k] \in {"rating", "ok"})
       => puzzles = 300 + 10 * Cardinality(Done)

AccountInv == TypeOKAccounts /\ PaidIsPro /\ AvatarInv /\ PuzzleInv

LEMMA DoneIsFinite == IsFiniteSet(Done) /\ Cardinality(Done) \in Nat
<1>1. Done \in SUBSET Solves
  BY DEF Done
<1>2. QED
  BY <1>1, SolvesAssumption, FS_Subset, FS_CardinalityType

LEMMA AccountsInit == InitAccounts => AccountInv
<1> SUFFICES ASSUME InitAccounts PROVE AccountInv
  OBVIOUS
<1>1. TypeOKAccounts
  <2>1. profile \in [membership : {"none", "guest", "pro"}, avatar : BOOLEAN]
    BY DEF InitAccounts
  <2>2. /\ puzzles \in Nat /\ failures \in 0..MaxFailures
        /\ confirming \in [Confirmations -> {"none", "puzzles", "rating", "ok", "error"}]
        /\ paid \in {"no", "due", "yes"}
    BY FailuresAssumption DEF InitAccounts
  <2>3. /\ original \in Uploads \cup {NoImage}
        /\ avatar \in [Sizes -> Uploads \cup {NoImage}]
    BY DEF InitAccounts
  <2>4. resizing \in [Uploads -> [at : {"none", "get", "put", "update", "delete", "ok", "error"},
                                  image : Uploads \cup {NoImage}, left : SUBSET Sizes]]
    BY DEF InitAccounts
  <2>5. solving \in [Solves -> [at : {"none", "write", "ok", "error"}, rating : Nat]]
    BY DEF InitAccounts
  <2>6. rated \in BOOLEAN /\ late \in BOOLEAN /\ crossed \in BOOLEAN
    BY Zenon DEF InitAccounts
  <2>7. QED
    BY <2>1, <2>2, <2>3, <2>4, <2>5, <2>6 DEF TypeOKAccounts
<1>2. PaidIsPro /\ AvatarInv
  BY DEF InitAccounts, PaidIsPro, AvatarInv, AvatarIsThere
<1>3. PuzzleInv
  BY DEF InitAccounts, PuzzleInv
<1>4. QED
  BY <1>1, <1>2, <1>3 DEF AccountInv

(* Confirmations and payments. *)
LEMMA AccountStepKeeps ==
  ASSUME AccountInv, AccountStep
  PROVE  AccountInv'
<1> USE DEF AccountInv, TypeOKAccounts, PaidIsPro, ConfirmGoes, images, puzzleVars
<1>1. ASSUME UNCHANGED <<original, avatar, resizing>>, profile'.avatar => profile.avatar
      PROVE  AvatarInv'
  BY <1>1 DEF AvatarInv, AvatarIsThere
<1>2. ASSUME UNCHANGED <<puzzles, solving, crossed>>, Confirmed => Confirmed',
             \A k \in Confirmations :
               confirming'[k] \in {"rating", "ok"} => confirming[k] \in {"rating", "ok"}
      PROVE  PuzzleInv'
  BY <1>2 DEF PuzzleInv, Done
<1>3. ASSUME NEW k \in Confirmations, PutUserProfile(k) PROVE AccountInv'
  <2>1. TypeOKAccounts' /\ PaidIsPro' /\ profile'.avatar = FALSE
    BY <1>3 DEF PutUserProfile
  <2>2. PuzzleInv'
    BY <1>2, <1>3 DEF PutUserProfile, Confirmed
  <2>3. AvatarInv'
    BY <1>1, <1>3, <2>1 DEF PutUserProfile
  <2>4. QED
    BY <2>1, <2>2, <2>3
<1>4. ASSUME NEW k \in Confirmations, PutPuzzleProfile(k) PROVE AccountInv'
  <2>1. TypeOKAccounts' /\ PaidIsPro'
    BY <1>4 DEF PutPuzzleProfile
  <2>2. AvatarInv'
    BY <1>1, <1>4 DEF PutPuzzleProfile
  <2>3. Confirmed' => Confirmed
    BY <1>4 DEF PutPuzzleProfile, Confirmed
  <2>4. Confirmed => Confirmed'
    BY <1>4 DEF PutPuzzleProfile, Confirmed
  <2>5. ~crossed' => Done' = {} /\ \A s \in Solves : solving'[s].at = "none"
    BY <1>4 DEF PutPuzzleProfile, Done
  <2>6. puzzles' = 300 /\ solving' = solving
    BY <1>4 DEF PutPuzzleProfile
  <2>7. ~crossed' => Cardinality(Done)' = 0
    BY <2>5, FS_EmptySet
  <2>8. ~crossed' => puzzles' = 300 + 10 * Cardinality(Done)'
    BY <2>6, <2>7
  <2>9. ~Confirmed' => \A s \in Solves : solving'[s].at = "none"
    BY <2>4, <2>6 DEF PuzzleInv
  <2>10. PuzzleInv'
    BY <2>5, <2>8, <2>9 DEF PuzzleInv
  <2>11. QED
    BY <2>1, <2>2, <2>10
<1>5. ASSUME NEW k \in Confirmations, PutUserRating(k) PROVE AccountInv'
  <2>1. TypeOKAccounts' /\ PaidIsPro'
    BY <1>5 DEF PutUserRating
  <2>2. AvatarInv'
    BY <1>1, <1>5 DEF PutUserRating
  <2>3. /\ Confirmed' /\ UNCHANGED <<puzzles, solving, crossed>>
        /\ confirming[k] = "rating"
    BY <1>5 DEF PutUserRating, Confirmed
  <2>4. PuzzleInv'
    BY <2>3 DEF PuzzleInv, Done
  <2>5. QED
    BY <2>1, <2>2, <2>4
<1>6. ASSUME NEW k \in Confirmations, ConfirmFails(k) PROVE AccountInv'
  <2>1. TypeOKAccounts' /\ PaidIsPro'
    BY <1>6, FailuresAssumption DEF ConfirmFails
  <2>2. AvatarInv'
    BY <1>1, <1>6 DEF ConfirmFails
  <2>3. PuzzleInv'
    BY <1>2, <1>6 DEF ConfirmFails, Confirmed
  <2>4. QED
    BY <2>1, <2>2, <2>3
<1>7. CASE Pay
  <2>1. TypeOKAccounts' /\ PaidIsPro'
    BY <1>7 DEF Pay
  <2>2. AvatarInv' /\ PuzzleInv'
    BY <1>1, <1>2, <1>7 DEF Pay, Confirmed
  <2>3. QED
    BY <2>1, <2>2
<1>8. CASE UpdateMembership
  <2>1. TypeOKAccounts' /\ PaidIsPro' /\ profile'.avatar = profile.avatar
    BY <1>8 DEF UpdateMembership
  <2>2. AvatarInv' /\ PuzzleInv'
    BY <1>1, <1>2, <1>8, <2>1 DEF UpdateMembership, Confirmed
  <2>3. QED
    BY <2>1, <2>2
<1>9. QED
  BY <1>3, <1>4, <1>5, <1>6, <1>7, <1>8 DEF AccountStep, ConfirmStep

(* Uploads and their functions. *)
LEMMA AvatarStepKeeps ==
  ASSUME AccountInv, NEW u \in Uploads, PutOriginal(u) \/ ResizeStep(u)
  PROVE  AccountInv'
<1> DEFINE Resizings == [at : {"none", "get", "put", "update", "delete", "ok", "error"},
                         image : Uploads \cup {NoImage}, left : SUBSET Sizes]
<1> USE NoImageAssumption
        DEF AccountInv, TypeOKAccounts, ResizeGoes, Resizing, profileVars, puzzleVars
<1>1. UNCHANGED <<puzzles, solving, crossed, confirming, paid, late, rated>>
  BY DEF PutOriginal, ResizeStep, GetOriginal, UpdateAvatar, DeleteOriginal, ResizeFails,
         PutImage
<1>2. PuzzleInv'
  BY <1>1 DEF PuzzleInv, Done, Confirmed
<1>3. ASSUME NEW r \in Resizings, resizing' = [resizing EXCEPT ![u] = r],
             original' \in Uploads \cup {NoImage}, UNCHANGED <<avatar, profile>>,
             r.at = "put" => r.image \in Uploads /\ r.left = Sizes,
             r.at \in {"delete", "ok"} => \A z \in Sizes : avatar[z] # NoImage,
             r.at # "update", failures' \in 0..MaxFailures
      PROVE  AccountInv'
  BY <1>1, <1>2, <1>3 DEF AvatarInv, AvatarIsThere, PaidIsPro
<1>4. CASE PutOriginal(u)
  <2>1. resizing' = [resizing EXCEPT ![u] = [resizing[u] EXCEPT !.at = "get"]]
    BY <1>4 DEF PutOriginal
  <2>2. [resizing[u] EXCEPT !.at = "get"] \in Resizings
    OBVIOUS
  <2>3. QED
    BY <1>3, <1>4, <2>1, <2>2 DEF PutOriginal
<1>5. CASE GetOriginal(u)
  <2> DEFINE r == [at |-> IF original = NoImage THEN "error" ELSE "put", image |-> original,
                   left |-> Sizes]
  <2>1. r \in Resizings /\ resizing' = [resizing EXCEPT ![u] = r]
    BY <1>5 DEF GetOriginal
  <2>2. QED
    BY <1>3, <1>5, <2>1 DEF GetOriginal
<1>6. ASSUME NEW z \in Sizes, PutImage(u, z) PROVE AccountInv'
  <2> DEFINE r == [at |-> IF resizing[u].left = {z} THEN "update" ELSE "put",
                   image |-> resizing[u].image, left |-> resizing[u].left \ {z}]
  <2>1. r \in Resizings /\ resizing' = [resizing EXCEPT ![u] = r]
    BY <1>6 DEF PutImage
  <2>2. resizing[u].image \in Uploads /\ \A y \in Sizes \ resizing[u].left : avatar[y] # NoImage
    BY <1>6 DEF PutImage, AvatarInv
  <2>3. /\ avatar' = [avatar EXCEPT ![z] = resizing[u].image]
        /\ UNCHANGED <<profile, original, failures>>
    BY <1>6 DEF PutImage
  <2>4. \A y \in Sizes : avatar[y] # NoImage => avatar'[y] # NoImage
    BY <2>2, <2>3
  <2>5. \A y \in Sizes \ r.left : avatar'[y] # NoImage
    BY <2>2, <2>3
  <2>6. r.at = "update" => \A y \in Sizes : avatar'[y] # NoImage
    BY <2>2, <2>3
  <2>7. AvatarInv'
    BY <2>1, <2>2, <2>3, <2>4, <2>5, <2>6 DEF AvatarInv, AvatarIsThere
  <2>8. TypeOKAccounts'
    BY <1>1, <2>1, <2>2, <2>3
  <2>9. QED
    BY <1>1, <1>2, <2>3, <2>7, <2>8 DEF PaidIsPro
<1>7. CASE UpdateAvatar(u)
  <2> DEFINE r == [resizing[u] EXCEPT !.at = "delete"]
  <2>1. r \in Resizings /\ r.at = "delete" /\ resizing' = [resizing EXCEPT ![u] = r]
    BY <1>7 DEF UpdateAvatar
  <2>2. \A z \in Sizes : avatar[z] # NoImage
    BY <1>7 DEF UpdateAvatar, AvatarInv
  <2>3. UNCHANGED <<avatar, original, failures>>
        /\ profile' = [profile EXCEPT !.avatar = TRUE]
    BY <1>7 DEF UpdateAvatar
  <2>4. AvatarInv'
    BY <2>1, <2>2, <2>3 DEF AvatarInv, AvatarIsThere
  <2>5. TypeOKAccounts'
    BY <1>1, <2>1, <2>3
  <2>6. QED
    BY <1>1, <1>2, <2>3, <2>4, <2>5 DEF PaidIsPro
<1>8. CASE DeleteOriginal(u)
  <2> DEFINE r == [resizing[u] EXCEPT !.at = "ok"]
  <2>1. r \in Resizings /\ resizing' = [resizing EXCEPT ![u] = r] /\ r.at = "ok"
    BY <1>8 DEF DeleteOriginal
  <2>2. \A z \in Sizes : avatar[z] # NoImage
    BY <1>8 DEF DeleteOriginal, AvatarInv
  <2>3. QED
    BY <1>3, <1>8, <2>1, <2>2 DEF DeleteOriginal
<1>9. CASE ResizeFails(u)
  <2>1. PICK next \in {"get", "error"} :
          resizing' = [resizing EXCEPT ![u] = [at |-> next, image |-> NoImage, left |-> {}]]
    BY <1>9 DEF ResizeFails
  <2>2. [at |-> next, image |-> NoImage, left |-> {}] \in Resizings
    OBVIOUS
  <2>3. failures' \in 0..MaxFailures
    BY <1>9, FailuresAssumption DEF ResizeFails
  <2>4. QED
    BY <1>3, <1>9, <2>1, <2>2, <2>3 DEF ResizeFails
<1>10. QED
  BY <1>4, <1>5, <1>6, <1>7, <1>8, <1>9 DEF ResizeStep

(* Puzzles. *)
LEMMA PuzzleStepKeeps ==
  ASSUME AccountInv, NEW s \in Solves, SolveStep(s)
  PROVE  AccountInv'
<1> DEFINE Calls == [at : {"none", "write", "ok", "error"}, rating : Nat]
<1> USE DEF AccountInv, TypeOKAccounts, SolveGoes, profileVars, images
<1>1. /\ UNCHANGED <<profile, rated, confirming, paid, late, original, avatar, resizing>>
      /\ failures' \in 0..MaxFailures
  <2>1. CASE GetPuzzleProfile(s)
    BY <2>1 DEF GetPuzzleProfile
  <2>2. CASE UpdatePuzzleProfile(s)
    BY <2>2 DEF UpdatePuzzleProfile
  <2>3. CASE SolveFails(s)
    BY <2>3, FailuresAssumption DEF SolveFails
  <2>4. QED
    BY <2>1, <2>2, <2>3 DEF SolveStep
<1>2. PaidIsPro' /\ AvatarInv' /\ (Confirmed' <=> Confirmed)
  BY <1>1 DEF PaidIsPro, AvatarInv, AvatarIsThere, Confirmed
<1>3. crossed' \in BOOLEAN
  <2>1. CASE GetPuzzleProfile(s)
    BY <2>1, Zenon DEF GetPuzzleProfile
  <2>2. CASE UpdatePuzzleProfile(s) \/ SolveFails(s)
    BY <2>2 DEF UpdatePuzzleProfile, SolveFails
  <2>3. QED
    BY <2>1, <2>2 DEF SolveStep
<1>4. CASE GetPuzzleProfile(s)
  <2> DEFINE r == [at |-> IF puzzles = 0 THEN "error" ELSE "write", rating |-> puzzles]
  <2>1. /\ r \in Calls /\ solving' = [solving EXCEPT ![s] = r] /\ solving[s].at = "none"
        /\ puzzles' = puzzles /\ Confirmed
        /\ ~crossed' => ~crossed /\ \A o \in Solves : solving[o].at # "write"
    BY <1>4 DEF GetPuzzleProfile
  <2>2. Done' = Done
    BY <2>1 DEF Done
  <2>3. PuzzleInv'
    BY <1>1, <1>2, <2>1, <2>2 DEF PuzzleInv
  <2>4. QED
    BY <1>1, <1>2, <1>3, <2>1, <2>3
<1>5. CASE UpdatePuzzleProfile(s)
  <2> DEFINE r == [at |-> "ok", rating |-> solving[s].rating + 10]
  <2>1. /\ r \in Calls /\ solving' = [solving EXCEPT ![s] = r] /\ solving[s].at = "write"
        /\ puzzles' = solving[s].rating + 10 /\ crossed' = crossed
    BY <1>5 DEF UpdatePuzzleProfile
  <2>2. Done' = Done \cup {s} /\ s \notin Done
    BY <2>1 DEF Done
  <2>3. Cardinality(Done') = Cardinality(Done) + 1
    BY <2>2, DoneIsFinite, FS_AddElement
  <2>4. Confirmed
    BY <2>1 DEF PuzzleInv
  <2>5. \E k \in Confirmations : confirming[k] \in {"rating", "ok"}
    BY <2>4 DEF Confirmed
  <2>6. ~crossed => puzzles' = 300 + 10 * Cardinality(Done')
    BY <2>1, <2>3, <2>5, DoneIsFinite DEF PuzzleInv
  <2>7. ~crossed => \A o \in Solves : solving'[o].at # "write"
    BY <2>1 DEF PuzzleInv
  <2>8. PuzzleInv'
    BY <1>2, <2>1, <2>4, <2>6, <2>7 DEF PuzzleInv
  <2>9. QED
    BY <1>1, <1>2, <1>3, <2>1, <2>8
<1>6. CASE SolveFails(s)
  <2> DEFINE r == [at |-> "error", rating |-> 0]
  <2>1. /\ r \in Calls /\ solving' = [solving EXCEPT ![s] = r]
        /\ solving[s].at \in {"none", "write"}
        /\ UNCHANGED <<puzzles, crossed>> /\ Confirmed
    BY <1>6 DEF SolveFails
  <2>2. Done' = Done
    BY <2>1 DEF Done
  <2>3. PuzzleInv'
    BY <1>1, <1>2, <2>1, <2>2 DEF PuzzleInv
  <2>4. QED
    BY <1>1, <1>2, <1>3, <2>1, <2>3
<1>7. QED
  BY <1>4, <1>5, <1>6 DEF SolveStep

LEMMA AccountsKeep ==
  AccountInv /\ [NextAccounts]_varsAccounts => AccountInv'
<1>1. ASSUME AccountInv, UNCHANGED varsAccounts PROVE AccountInv'
  BY <1>1 DEF varsAccounts, AccountInv, TypeOKAccounts, PaidIsPro, AvatarInv, AvatarIsThere,
              PuzzleInv, Done, Confirmed
<1>2. QED
  BY <1>1, AccountStepKeeps, AvatarStepKeeps, PuzzleStepKeeps
     DEF NextAccounts, AvatarStep, PuzzleStep

(* Every state of an account has its type.                                 *)
THEOREM AccountsTypeCorrect == SpecAccounts => []TypeOKAccounts
<1>1. AccountInv => TypeOKAccounts
  BY DEF AccountInv
<1>2. QED
  BY AccountsInit, AccountsKeep, <1>1, PTL DEF SpecAccounts

(* Who has paid is a "pro" (PaidIsPro), whatever else is written to the    *)
(* row, for any number of uploads, calls and failures.                     *)
THEOREM PayersArePro == SpecAccounts => []PaidIsPro
<1>1. AccountInv => PaidIsPro
  BY DEF AccountInv
<1>2. QED
  BY AccountsInit, AccountsKeep, <1>1, PTL DEF SpecAccounts

(* An avatar has a picture in every size (AvatarIsThere), for any number   *)
(* of uploads, sizes and failures.                                         *)
THEOREM AvatarsAreThere == SpecAccounts => []AvatarIsThere
<1>1. AccountInv => AvatarIsThere
  BY DEF AccountInv, AvatarInv
<1>2. QED
  BY AccountsInit, AccountsKeep, <1>1, PTL DEF SpecAccounts

(* Calls of puzzleSolve that do not overlap count one by one (SolvesCount), *)
(* for any number of calls.                                                *)
THEOREM SolvesAreCounted == SpecAccounts => []SolvesCount
<1>1. ASSUME AccountInv PROVE SolvesCount
  BY <1>1 DEF AccountInv, PuzzleInv, SolvesCount, Confirmed, Done
<1>2. AccountInv => SolvesCount
  BY <1>1
<1>3. QED
  BY AccountsInit, AccountsKeep, <1>2, PTL DEF SpecAccounts

-----------------------------------------------------------------------------
(* An address that a row or a call refers to is one of a task that has     *)
(* started, and is not given to another task.  A restore that asks other   *)
(* servers has found the one of the row to be off the list.                *)
Started(t) == t # NoTask => tasks[t] \in {"running", "dead", "stopped"}

CallRecords == [at : CallPlaces, kind : {"restore", "rejoin", "new"},
                was : Tasks \cup {NoTask}, ask : SUBSET Tasks,
                tries : Nat, count : Nat, ip : Tasks \cup {NoTask}]

GoodCall(r) ==
  /\ r \in CallRecords
  /\ Started(r.was) /\ Started(r.ip) /\ \A t \in r.ask : Started(t)
  /\ r.at = "update" => r.kind = "restore"
  /\ r.at \in {"offer", "start", "raise"} => r.kind = "new"
  /\ r.kind = "restore" /\ r.at \in {"find", "ask", "update"} => r.was # NoTask
  /\ r.kind = "restore" /\ r.at \in {"ask", "update"} =>
       tasks[r.was] = "stopped" \/ (r.at = "update" /\ r.ip = r.was)

FleetInv ==
  /\ TypeOKFleet
  /\ \A m \in Matches \ ended : Started(server[m])
  /\ \A c \in Clients : GoodCall(call[c])

LEMMA ListedIsFinite == Cardinality(Listed) \in Nat
<1>1. Listed \in SUBSET Tasks
  BY DEF Listed
<1>2. QED
  BY <1>1, TaskAssumption, FS_Subset, FS_CardinalityType

LEMMA NoCallIsGood == GoodCall(NoCall)
BY DEF GoodCall, NoCall, CallRecords, CallPlaces, Started

LEMMA FleetInit == InitFleet => FleetInv
<1> SUFFICES ASSUME InitFleet PROVE FleetInv
  OBVIOUS
<1>1. \A t \in Listed : t \in Tasks /\ tasks[t] = "running"
  BY DEF InitFleet, Listed
<1>2. TypeOKFleet
  <2>1. tasks \in [Tasks -> {"none", "pending", "running", "dead", "stopped"}]
    BY DEF InitFleet
  <2>2. server \in [Matches -> Tasks \cup {NoTask}]
    BY <1>1 DEF InitFleet
  <2>3. serving \subseteq {t \in Tasks : Alive(t)} \X (Matches \ ended)
    <3> SUFFICES ASSUME NEW p \in serving
                 PROVE  p \in {t \in Tasks : Alive(t)} \X (Matches \ ended)
      OBVIOUS
    <3>1. p \in Tasks \X Matches /\ server[p[2]] = p[1]
      BY DEF InitFleet
    <3>2. p[1] \in Listed
      BY <3>1, TaskAssumption DEF InitFleet
    <3>3. QED
      BY <3>1, <3>2, <1>1, TaskAssumption DEF Alive, InitFleet
  <2>4. call \in [Clients -> CallRecords]
    BY NoCallIsGood DEF InitFleet, GoodCall
  <2>5. desired \in Nat /\ ended \subseteq Matches /\ troubles \in 0..MaxTroubles
    BY ListedIsFinite, LimitsAssumption DEF InitFleet
  <2>6. QED
    BY <2>1, <2>2, <2>3, <2>4, <2>5 DEF TypeOKFleet, CallRecords
<1>3. \A m \in Matches : Started(server[m])
  BY <1>1 DEF InitFleet, Started
<1>4. \A c \in Clients : GoodCall(call[c])
  BY NoCallIsGood DEF InitFleet
<1>5. QED
  BY <1>2, <1>3, <1>4 DEF FleetInv

(* A step that changes one call, and no task. *)
LEMMA CallKeeps ==
  ASSUME FleetInv, NEW c \in Clients, NEW r, GoodCall(r),
         call' = [call EXCEPT ![c] = r], tasks' = tasks, ended' = ended,
         server' \in [Matches -> Tasks \cup {NoTask}],
         \A m \in Matches \ ended : Started(server'[m]),
         desired' \in Nat, troubles' \in 0..MaxTroubles,
         serving' \subseteq {t \in Tasks : Alive(t)} \X (Matches \ ended)
  PROVE  FleetInv'
<1>1. call \in [Clients -> CallRecords]
  BY DEF FleetInv, TypeOKFleet, CallRecords
<1>2. r \in CallRecords
  BY DEF GoodCall
<1>3. call' \in [Clients -> CallRecords]
  BY <1>1, <1>2
<1>4. TypeOKFleet'
  BY <1>3 DEF FleetInv, TypeOKFleet, CallRecords, Alive
<1>5. \A d \in Clients : call'[d] = IF d = c THEN r ELSE call[d]
  BY <1>1
<1>6. \A d \in Clients : GoodCall(call'[d])
  BY <1>5 DEF FleetInv
<1>7. \A d \in Clients : GoodCall(call[d])'
  BY <1>6 DEF GoodCall, Started
<1>8. QED
  BY <1>4, <1>7 DEF FleetInv, Started

(* The same when nothing else changes. *)
LEMMA OnlyCall ==
  ASSUME FleetInv, NEW c \in Clients, NEW r, GoodCall(r),
         call' = [call EXCEPT ![c] = r], UNCHANGED <<tasks, desired, server, ended, serving>>,
         troubles' \in 0..MaxTroubles
  PROVE  FleetInv'
<1>1. /\ server' \in [Matches -> Tasks \cup {NoTask}] /\ desired' \in Nat
      /\ \A m \in Matches \ ended : Started(server'[m])
      /\ serving' \subseteq {t \in Tasks : Alive(t)} \X (Matches \ ended)
  BY DEF FleetInv, TypeOKFleet
<1>2. QED
  BY <1>1, CallKeeps

LEMMA AddressIsStarted == \A t \in Addresses : t \in Tasks /\ Started(t)
BY DEF Addresses, Listed, Started

LEMMA CallsAreGood ==
  ASSUME FleetInv, NEW c \in Clients
  PROVE  /\ GoodCall(call[c]) /\ call[c] \in CallRecords
         /\ call \in [Clients -> CallRecords]
         /\ troubles \in 0..MaxTroubles
BY DEF FleetInv, TypeOKFleet, GoodCall, CallRecords

(* What a call may do next: go on, ... *)
LEMMA CallGoesOn ==
  ASSUME FleetInv, NEW c \in Clients, NEW next \in CallPlaces \ {"update", "ask"}, CallGoes(c, next),
         call[c].kind = "restore" /\ next = "find" => call[c].was # NoTask,
         next \in {"offer", "start", "raise"} => call[c].kind = "new",
         UNCHANGED <<tasks, desired, server, ended, serving, troubles>>
  PROVE  FleetInv'
<1> DEFINE r == [call[c] EXCEPT !.at = next]
<1>1. call' = [call EXCEPT ![c] = r]
  BY CallsAreGood DEF CallGoes
<1>2. r \in CallRecords /\ r.was = call[c].was /\ r.ip = call[c].ip /\ r.ask = call[c].ask
      /\ r.kind = call[c].kind /\ r.at = next
  BY CallsAreGood DEF CallRecords
<1>3. GoodCall(r)
  BY <1>2, CallsAreGood DEF GoodCall
<1> HIDE DEF r
<1>4. QED
  BY <1>1, <1>3, CallsAreGood, OnlyCall

(* ... fail, ... *)
LEMMA CallMayFail ==
  ASSUME FleetInv, NEW c \in Clients, CallFails(c),
         UNCHANGED <<tasks, desired, server, ended, serving, troubles>>
  PROVE  FleetInv'
BY NoCallIsGood, CallsAreGood, OnlyCall DEF CallFails

(* ... try again, ... *)
LEMMA CallMayTryAgain ==
  ASSUME FleetInv, NEW c \in Clients, NEW next \in {"find", "offer"}, TryAgain(c, next),
         IF next = "offer" THEN call[c].kind = "new"
                           ELSE call[c].kind = "restore" => call[c].was # NoTask,
         desired' \in Nat, UNCHANGED <<tasks, server, ended, serving, troubles>>
  PROVE  FleetInv'
<1> DEFINE r == [call[c] EXCEPT !.tries = @ + 1, !.ask = {}, !.count = 0, !.at = next]
           q == IF call[c].tries + 1 < MaxTries THEN r ELSE NoCall
<1>0. ASSUME call[c].tries + 1 < MaxTries PROVE call' = [call EXCEPT ![c] = r]
  <2>1. call' = [call EXCEPT ![c].tries = @ + 1, ![c].ask = {}, ![c].count = 0, ![c].at = next]
    BY <1>0 DEF TryAgain
  <2>2. QED
    BY <2>1
<1>1. call' = [call EXCEPT ![c] = q]
  BY <1>0 DEF TryAgain, CallFails
<1>2. r \in CallRecords /\ r.was = call[c].was /\ r.ip = call[c].ip /\ r.ask = {}
      /\ r.kind = call[c].kind /\ r.at = next
  <2>1. call[c] \in CallRecords /\ call[c].tries + 1 \in Nat /\ next \in CallPlaces
    BY CallsAreGood DEF CallRecords, CallPlaces
  <2>2. QED
    BY <2>1 DEF CallRecords
<1>3. GoodCall(q)
  BY <1>2, CallsAreGood, NoCallIsGood DEF GoodCall
<1>4. /\ server' \in [Matches -> Tasks \cup {NoTask}] /\ troubles' \in 0..MaxTroubles
      /\ \A m \in Matches \ ended : Started(server'[m])
      /\ serving' \subseteq {t \in Tasks : Alive(t)} \X (Matches \ ended)
  BY DEF FleetInv, TypeOKFleet
<1> HIDE DEF q, r
<1>5. QED
  BY <1>1, <1>3, <1>4, CallKeeps

(* ... take a server, ... *)
LEMMA CallMayChoose ==
  ASSUME FleetInv, NEW c \in Clients, NEW t \in Tasks, Started(t), Chosen(c, t),
         call[c].kind = "restore" =>
           call[c].was # NoTask /\ (tasks[call[c].was] = "stopped" \/ t = call[c].was),
         UNCHANGED <<tasks, desired, server, ended, serving, troubles>>
  PROVE  FleetInv'
<1> DEFINE r == [call[c] EXCEPT !.ip = t, !.ask = {}, !.tries = 0,
                   !.at = IF call[c].kind = "restore" THEN "update" ELSE "create"]
           q == IF call[c].kind = "rejoin" THEN [NoCall EXCEPT !.at = "ok", !.ip = t] ELSE r
<1>1. call' = [call EXCEPT ![c] = q]
  BY CallsAreGood DEF Chosen, Answer
<1>2. r \in CallRecords /\ r.was = call[c].was /\ r.ip = t /\ r.ask = {}
      /\ r.kind = call[c].kind
      /\ r.at = IF call[c].kind = "restore" THEN "update" ELSE "create"
  BY CallsAreGood DEF CallRecords, CallPlaces
<1>3. GoodCall(r)
  BY <1>2, CallsAreGood DEF GoodCall
<1>4. GoodCall([NoCall EXCEPT !.at = "ok", !.ip = t])
  BY DEF GoodCall, NoCall, CallRecords, CallPlaces, Started
<1>5. GoodCall(q)
  BY <1>3, <1>4
<1> HIDE DEF q
<1>6. QED
  BY <1>1, <1>5, CallsAreGood, OnlyCall

(* ... or ask the servers. *)
LEMMA CallMayAsk ==
  ASSUME FleetInv, NEW c \in Clients, AskServers(c),
         call[c].kind = "restore" => call[c].was # NoTask /\ tasks[call[c].was] = "stopped",
         UNCHANGED <<tasks, desired, server, ended, serving, troubles>>
  PROVE  FleetInv'
<1> DEFINE r == [call[c] EXCEPT !.at = "ask", !.ask = Addresses]
<1>1. call' = [call EXCEPT ![c] = r]
  BY CallsAreGood DEF AskServers
<1>2. r \in CallRecords /\ r.was = call[c].was /\ r.ip = call[c].ip /\ r.ask = Addresses
      /\ r.kind = call[c].kind /\ r.at = "ask"
  BY CallsAreGood, AddressIsStarted DEF CallRecords, CallPlaces
<1>3. GoodCall(r)
  BY <1>2, CallsAreGood, AddressIsStarted DEF GoodCall
<1> HIDE DEF r
<1>4. QED
  BY <1>1, <1>3, CallsAreGood, OnlyCall

LEMMA BeginKeeps ==
  ASSUME FleetInv, NEW c \in Clients,
         Call(c) \/ CheckTasks(c) \/ ScaleToOne(c) \/ GetRow(c)
  PROVE  FleetInv'
<1>1. CASE Call(c)
  <2>1. PICK r \in {[NoCall EXCEPT !.at = "check"],
                    [NoCall EXCEPT !.at = "check", !.kind = "rejoin", !.was = server[Plays[c]]],
                    [NoCall EXCEPT !.at = "offer", !.kind = "new"]} :
          /\ call' = [call EXCEPT ![c] = r]
          /\ r.was = NoTask \/ (Plays[c] \notin ended /\ r.was = server[Plays[c]])
    BY <1>1 DEF Call, NoCall
  <2>2. r.was \in Tasks \cup {NoTask} /\ Started(r.was)
    <3>1. server[Plays[c]] \in Tasks \cup {NoTask}
          /\ (Plays[c] \notin ended => Started(server[Plays[c]]))
      BY PlaysAssumption DEF FleetInv, TypeOKFleet
    <3>2. Started(NoTask)
      BY DEF Started
    <3>3. QED
      BY <2>1, <3>1, <3>2
  <2>3. GoodCall(r)
    <3>1. /\ r \in CallRecords /\ r.ip = NoTask /\ r.ask = {}
          /\ r.at = "check" \/ (r.at = "offer" /\ r.kind = "new")
      <4>1. CASE r = [NoCall EXCEPT !.at = "check"]
        BY <4>1 DEF NoCall, CallRecords, CallPlaces
      <4>2. CASE r = [NoCall EXCEPT !.at = "check", !.kind = "rejoin", !.was = server[Plays[c]]]
        BY <4>2, <2>2 DEF NoCall, CallRecords, CallPlaces
      <4>3. CASE r = [NoCall EXCEPT !.at = "offer", !.kind = "new"]
        BY <4>3 DEF NoCall, CallRecords, CallPlaces
      <4>4. QED
        BY <2>1, <4>1, <4>2, <4>3
    <3>2. QED
      BY <3>1, <2>2 DEF GoodCall, Started
  <2>4. troubles' \in 0..MaxTroubles
    BY <1>1, LimitsAssumption DEF Call, FleetInv, TypeOKFleet
  <2>5. QED
    BY <1>1, <2>1, <2>3, <2>4, OnlyCall DEF Call, fleet, rowsOfMatches
<1>2. CASE CheckTasks(c)
  <2>1. PICK next \in {"scale", "row", "find"} :
          CallGoes(c, next) /\ (next = "find" => call[c].kind # "restore")
    BY <1>2 DEF CheckTasks, NextOfCheck
  <2>2. QED
    BY <1>2, <2>1, CallGoesOn DEF CheckTasks, fleet, rowsOfMatches, CallPlaces
<1>3. CASE ScaleToOne(c)
  <2> DEFINE r == [call[c] EXCEPT !.at = NextOfCheck(c)]
  <2>1. call' = [call EXCEPT ![c] = r]
    BY <1>3, CallsAreGood DEF ScaleToOne, CallGoes
  <2>2. /\ r \in CallRecords /\ r.was = call[c].was /\ r.ip = call[c].ip
        /\ r.ask = call[c].ask /\ r.kind = call[c].kind
        /\ r.at = IF call[c].kind = "restore" THEN "row" ELSE "find"
    BY CallsAreGood DEF CallRecords, NextOfCheck, CallPlaces
  <2>3. GoodCall(r)
    BY <2>2, CallsAreGood DEF GoodCall
  <2>4. /\ server' \in [Matches -> Tasks \cup {NoTask}] /\ troubles' \in 0..MaxTroubles
        /\ \A m \in Matches \ ended : Started(server'[m])
        /\ serving' \subseteq {t \in Tasks : Alive(t)} \X (Matches \ ended)
        /\ UNCHANGED <<tasks, ended>> /\ desired' \in Nat
    BY <1>3 DEF FleetInv, TypeOKFleet, ScaleToOne, rowsOfMatches
  <2> HIDE DEF r
  <2>5. QED
    BY <2>1, <2>3, <2>4, CallKeeps
<1>4. CASE GetRow(c)
  <2>1. CASE CallFails(c)
    BY <1>4, <2>1, CallMayFail DEF GetRow, fleet, rowsOfMatches
  <2>2. CASE ~CallFails(c)
    <3> DEFINE r == [call[c] EXCEPT !.at = "find", !.was = server[Plays[c]]]
    <3>1. /\ server[Plays[c]] \in Tasks /\ Started(server[Plays[c]])
          /\ call' = [call EXCEPT ![c] = r] /\ call[c].at = "row"
      BY <1>4, <2>2, PlaysAssumption, CallsAreGood
      DEF GetRow, CallAt, FleetInv, TypeOKFleet
    <3>2. /\ r \in CallRecords /\ r.was = server[Plays[c]] /\ r.ip = call[c].ip
          /\ r.ask = call[c].ask /\ r.kind = call[c].kind /\ r.at = "find"
      BY <3>1, CallsAreGood DEF CallRecords, CallPlaces
    <3>3. GoodCall(r)
      BY <3>1, <3>2, CallsAreGood, TaskAssumption DEF GoodCall
    <3> HIDE DEF r
    <3>4. QED
      BY <1>4, <3>1, <3>3, CallsAreGood, OnlyCall DEF GetRow, fleet, rowsOfMatches
  <2>3. QED
    BY <2>1, <2>2
<1>5. QED
  BY <1>1, <1>2, <1>3, <1>4

(* A search: Find and Offer look at the list, GetServerStatus asks, and    *)
(* StartNewTask raises the count.                                          *)
LEMMA SearchKeeps ==
  ASSUME FleetInv, NEW c \in Clients,
         Find(c) \/ Offer(c) \/ GetServerStatus(c) \/ StartNewTask(c)
  PROVE  FleetInv'
<1>1. GoodCall(call[c])
  BY CallsAreGood
<1>2. CASE Find(c)
  <2>1. /\ call[c].at = "find"
        /\ UNCHANGED <<tasks, desired, server, ended, serving, troubles>>
    BY <1>2 DEF Find, CallAt, fleet, rowsOfMatches
  <2>2. call[c].kind = "restore" => call[c].was \in Tasks
    BY <1>1, <2>1 DEF GoodCall, CallRecords
  <2>3. CASE CallFails(c)
    BY <2>1, <2>3, CallMayFail
  <2>4. CASE call[c].was \in Addresses /\ Chosen(c, call[c].was)
    BY <2>1, <2>2, <2>4, CallMayChoose, AddressIsStarted, TaskAssumption
  <2>5. CASE TryAgain(c, "find")
    <3>1. desired' \in Nat
      BY <2>1 DEF FleetInv, TypeOKFleet
    <3>2. QED
      BY <2>1, <2>2, <2>5, <3>1, CallMayTryAgain, TaskAssumption
  <2>6. CASE call[c].was \notin Addresses /\ AskServers(c)
    <3>1. call[c].kind = "restore" => tasks[call[c].was] = "stopped"
      BY <1>1, <2>2, <2>6, TaskAssumption DEF GoodCall, Started, Addresses, Listed
    <3>2. QED
      BY <2>1, <2>2, <2>6, <3>1, CallMayAsk, TaskAssumption
  <2>7. QED
    BY <1>2, <2>3, <2>4, <2>5, <2>6 DEF Find
<1>3. CASE Offer(c)
  <2>1. /\ call[c].at = "offer" /\ call[c].kind = "new"
        /\ UNCHANGED <<tasks, desired, server, ended, serving, troubles>>
    BY <1>1, <1>3 DEF GoodCall, Offer, CallAt, fleet, rowsOfMatches
  <2>2. desired' \in Nat
    BY <2>1 DEF FleetInv, TypeOKFleet
  <2>3. CASE CallFails(c)
    BY <2>1, <2>3, CallMayFail
  <2>4. CASE CallGoes(c, "start")
    BY <2>1, <2>4, CallGoesOn DEF CallPlaces
  <2>5. CASE TryAgain(c, "offer")
    BY <2>1, <2>2, <2>5, CallMayTryAgain
  <2>6. CASE AskServers(c)
    BY <2>1, <2>6, CallMayAsk
  <2>7. QED
    BY <1>3, <2>3, <2>4, <2>5, <2>6 DEF Offer
<1>4. CASE GetServerStatus(c)
  <2>1. /\ call[c].at = "ask"
        /\ UNCHANGED <<tasks, desired, server, ended, serving, troubles>>
    BY <1>4 DEF GetServerStatus, CallAt, fleet, rowsOfMatches
  <2>2. /\ call[c].kind = "restore" =>
             call[c].was # NoTask /\ tasks[call[c].was] = "stopped"
        /\ desired' \in Nat
    BY <1>1, <2>1 DEF GoodCall, FleetInv, TypeOKFleet
  <2>3. PICK t \in call[c].ask :
          \/ TryAgain(c, Again(c))
          \/ TryAgain(c, "find") /\ call[c].kind # "new"
          \/ Chosen(c, t)
          \/ call' = [call EXCEPT ![c].ask = @ \ {t}]
          \/ CallGoes(c, "start") /\ call[c].kind = "new"
    BY <1>4 DEF GetServerStatus
  <2>4. t \in Tasks /\ Started(t)
    BY <1>1 DEF GoodCall, CallRecords
  <2>5. CASE TryAgain(c, Again(c))
    <3>1. PICK next \in {"find", "offer"} :
            TryAgain(c, next) /\ (next = "offer" => call[c].kind = "new")
      BY <2>5 DEF Again
    <3>2. QED
      BY <2>1, <2>2, <3>1, CallMayTryAgain
  <2>6. CASE TryAgain(c, "find")
    BY <2>1, <2>2, <2>6, CallMayTryAgain
  <2>7. CASE Chosen(c, t)
    BY <2>1, <2>2, <2>4, <2>7, CallMayChoose
  <2>8. CASE call' = [call EXCEPT ![c].ask = @ \ {t}]
    <3> DEFINE r == [call[c] EXCEPT !.ask = @ \ {t}]
    <3>1. call' = [call EXCEPT ![c] = r]
      BY <2>8
    <3>2. r \in CallRecords /\ r.was = call[c].was /\ r.ip = call[c].ip
          /\ r.ask = call[c].ask \ {t} /\ r.kind = call[c].kind /\ r.at = call[c].at
      BY CallsAreGood DEF CallRecords
    <3>3. GoodCall(r)
      BY <1>1, <3>2 DEF GoodCall
    <3> HIDE DEF r
    <3>4. QED
      BY <2>1, <3>1, <3>3, CallsAreGood, OnlyCall
  <2>9. CASE CallGoes(c, "start") /\ call[c].kind = "new"
    BY <2>1, <2>9, CallGoesOn DEF CallPlaces
  <2>10. QED
    BY <2>3, <2>5, <2>6, <2>7, <2>8, <2>9
<1>5. CASE StartNewTask(c)
  <2>1. /\ call[c].at \in {"start", "raise"} /\ call[c].kind = "new"
        /\ UNCHANGED <<tasks, server, ended, serving, troubles>>
    BY <1>1, <1>5 DEF GoodCall, StartNewTask, CallAt, rowsOfMatches
  <2>2. CASE call[c].at = "start"
    <3> DEFINE r == [call[c] EXCEPT !.at = "raise", !.ask = {}, !.count = Cardinality(Listed)]
    <3>1. call' = [call EXCEPT ![c] = r] /\ desired' = desired
      BY <1>5, <2>2 DEF StartNewTask, CallAt
    <3>2. r \in CallRecords /\ r.was = call[c].was /\ r.ip = call[c].ip
          /\ r.ask = {} /\ r.kind = "new" /\ r.at = "raise"
      BY <2>1, CallsAreGood, ListedIsFinite DEF CallRecords, CallPlaces
    <3>3. GoodCall(r)
      BY <1>1, <3>2 DEF GoodCall
    <3> HIDE DEF r
    <3>4. QED
      BY <2>1, <3>1, <3>3, CallsAreGood, OnlyCall
  <2>3. CASE call[c].at = "raise"
    <3>1. desired' \in Nat /\ TryAgain(c, "offer")
      BY <1>1, <1>5, <2>3 DEF StartNewTask, CallAt, GoodCall, CallRecords
    <3>2. QED
      BY <2>1, <3>1, CallMayTryAgain
  <2>4. QED
    BY <2>1, <2>2, <2>3
<1>6. QED
  BY <1>2, <1>3, <1>4, <1>5

LEMMA AnswerKeeps ==
  ASSUME FleetInv, NEW c \in Clients,
         UpdateActiveMatch(c) \/ CreateMatch(c) \/ Connect(c)
  PROVE  FleetInv'
<1> DEFINE r == [NoCall EXCEPT !.at = "ok", !.ip = call[c].ip]
<1>1. /\ GoodCall(r)
      /\ call[c].ip \in Tasks \cup {NoTask} /\ Started(call[c].ip)
  BY CallsAreGood DEF GoodCall, NoCall, CallRecords, CallPlaces, Started
<1>2. UNCHANGED <<tasks, desired, ended, troubles>>
  BY DEF UpdateActiveMatch, CreateMatch, Connect, fleet
<1>3. desired' \in Nat /\ troubles' \in 0..MaxTroubles
  BY <1>2 DEF FleetInv, TypeOKFleet
<1>4. CASE UpdateActiveMatch(c) \/ CreateMatch(c)
  <2>1. /\ call' = [call EXCEPT ![c] = r]
        /\ server' = server \/ server' = [server EXCEPT ![Plays[c]] = call[c].ip]
        /\ serving' = serving
    BY <1>4 DEF UpdateActiveMatch, CreateMatch, Answer
  <2>2. /\ server' \in [Matches -> Tasks \cup {NoTask}]
        /\ \A m \in Matches \ ended : Started(server'[m])
        /\ serving' \subseteq {t \in Tasks : Alive(t)} \X (Matches \ ended)
    BY <1>1, <2>1 DEF FleetInv, TypeOKFleet
  <2> HIDE DEF r
  <2>3. QED
    BY <1>1, <1>2, <1>3, <2>1, <2>2, CallKeeps
<1>5. CASE Connect(c)
  <2>1. /\ call' = [call EXCEPT ![c] = NoCall] /\ server' = server
        /\ \A p \in serving' : \/ p \in serving
                               \/ /\ Alive(call[c].ip) /\ Plays[c] \notin ended
                                  /\ p = <<call[c].ip, Plays[c]>>
    BY <1>5 DEF Connect
  <2>2. serving' \subseteq {t \in Tasks : Alive(t)} \X (Matches \ ended)
    <3> SUFFICES ASSUME NEW p \in serving'
                 PROVE  p \in {t \in Tasks : Alive(t)} \X (Matches \ ended)
      OBVIOUS
    <3>1. CASE p \in serving
      BY <3>1 DEF FleetInv, TypeOKFleet
    <3>2. CASE Alive(call[c].ip) /\ Plays[c] \notin ended /\ p = <<call[c].ip, Plays[c]>>
      <4>1. call[c].ip \in Tasks /\ Plays[c] \in Matches
        BY <1>1, <3>2, PlaysAssumption DEF Alive
      <4>2. QED
        BY <3>2, <4>1
    <3>3. QED
      BY <2>1, <3>1, <3>2
  <2>3. /\ server' \in [Matches -> Tasks \cup {NoTask}]
        /\ \A m \in Matches \ ended : Started(server'[m])
    BY <2>1 DEF FleetInv, TypeOKFleet
  <2>4. QED
    BY <1>2, <1>3, <2>1, <2>2, <2>3, NoCallIsGood, CallKeeps
<1>6. QED
  BY <1>4, <1>5

(* What ECS does: a task that a row or a call refers to has started, and   *)
(* is not forgotten; one that has stopped stays so.                        *)
LEMMA TasksKeep ==
  ASSUME FleetInv, tasks' \in [Tasks -> {"none", "pending", "running", "dead", "stopped"}],
         UNCHANGED <<server, ended, call>>, desired' \in Nat, troubles' \in 0..MaxTroubles,
         serving' \subseteq {t \in Tasks : Alive(t)'} \X (Matches \ ended),
         \A t \in Tasks :
           (\/ \E m \in Matches \ ended : server[m] = t
            \/ \E c \in Clients : t \in call[c].ask \cup {call[c].was, call[c].ip})
           => /\ tasks[t] \in {"running", "dead", "stopped"} =>
                   tasks'[t] \in {"running", "dead", "stopped"}
              /\ tasks[t] = "stopped" => tasks'[t] = "stopped"
  PROVE  FleetInv'
<1>1. TypeOKFleet'
  BY DEF FleetInv, TypeOKFleet, Alive
<1>2. \A m \in Matches \ ended : server[m] \in Tasks \cup {NoTask} /\ Started(server[m])
  BY DEF FleetInv, TypeOKFleet
<1>3. \A m \in Matches \ ended' : Started(server[m])'
  BY <1>2 DEF Started
<1>4. ASSUME NEW c \in Clients PROVE GoodCall(call[c])'
  <2>1. GoodCall(call[c]) /\ call[c] \in CallRecords
    BY CallsAreGood
  <2>2. call[c].was \in Tasks \cup {NoTask} /\ call[c].ip \in Tasks \cup {NoTask}
        /\ call[c].ask \in SUBSET Tasks
    BY <2>1 DEF CallRecords
  <2>3. Started(call[c].was)' /\ Started(call[c].ip)'
        /\ \A t \in call[c].ask : Started(t)'
    BY <2>1, <2>2 DEF GoodCall, Started
  <2>4. QED
    BY <2>1, <2>2, <2>3 DEF GoodCall
<1>5. QED
  BY <1>1, <1>3, <1>4 DEF FleetInv

LEMMA PlatformKeeps ==
  ASSUME FleetInv, \/ Platform
                   \/ \E t \in Tasks : StopTask(t) \/ Die(t)
                   \/ ScaleIn
  PROVE  FleetInv'
<1>1. /\ tasks \in [Tasks -> {"none", "pending", "running", "dead", "stopped"}]
      /\ serving \subseteq {t \in Tasks : Alive(t)} \X (Matches \ ended)
      /\ desired \in Nat /\ troubles \in 0..MaxTroubles /\ MaxTroubles \in Nat
  BY LimitsAssumption DEF FleetInv, TypeOKFleet
<1>2. ASSUME NEW t \in Tasks, PlaceTask(t) \/ RunTask(t) \/ NoticeDead(t) \/ StopTask(t)
      PROVE  FleetInv'
  <2>1. /\ tasks' \in [Tasks -> {"none", "pending", "running", "dead", "stopped"}]
        /\ UNCHANGED <<server, ended, call, desired, troubles, serving>>
    BY <1>1, <1>2 DEF PlaceTask, RunTask, NoticeDead, StopTask, rowsOfMatches
  <2>2. \A o \in Tasks : /\ tasks[o] \in {"running", "dead", "stopped"} =>
                              tasks'[o] \in {"running", "dead", "stopped"}
                         /\ tasks[o] = "stopped" => tasks'[o] = "stopped"
    BY <1>1, <1>2 DEF PlaceTask, RunTask, NoticeDead, StopTask
  <2>3. tasks[t] = "running" => tasks'[t] = "running" \/ (\A p \in serving : p[1] # t)
    BY <1>2 DEF PlaceTask, RunTask, NoticeDead, StopTask
  <2>4. \A o \in Tasks \ {t} : tasks'[o] = tasks[o]
    BY <1>1, <1>2 DEF PlaceTask, RunTask, NoticeDead, StopTask
  <2>5. serving' \subseteq {o \in Tasks : Alive(o)'} \X (Matches \ ended)
    <3> SUFFICES ASSUME NEW p \in serving
                 PROVE  p \in {o \in Tasks : Alive(o)'} \X (Matches \ ended)
      BY <2>1
    <3>1. p \in Tasks \X (Matches \ ended) /\ Alive(p[1])
      BY <1>1
    <3>2. Alive(p[1])'
      BY <3>1, <2>3, <2>4 DEF Alive
    <3>3. QED
      BY <3>1, <3>2
  <2>6. QED
    BY <1>1, <2>1, <2>2, <2>5, TasksKeep
<1>3. ASSUME NEW t \in Tasks, Die(t) PROVE FleetInv'
  <2>1. /\ tasks' = [tasks EXCEPT ![t] = "dead"] /\ tasks[t] = "running"
        /\ serving' = {p \in serving : p[1] # t}
        /\ UNCHANGED <<server, ended, call, desired>>
        /\ troubles' \in 0..MaxTroubles
    BY <1>1, <1>3 DEF Die
  <2>2. serving' \subseteq {o \in Tasks : Alive(o)'} \X (Matches \ ended)
    <3> SUFFICES ASSUME NEW p \in serving, p[1] # t
                 PROVE  p \in {o \in Tasks : Alive(o)'} \X (Matches \ ended)
      BY <2>1
    <3>1. p \in Tasks \X (Matches \ ended) /\ Alive(p[1])
      BY <1>1
    <3>2. Alive(p[1])'
      BY <1>1, <2>1, <3>1 DEF Alive
    <3>3. QED
      BY <3>1, <3>2
  <2>3. QED
    BY <1>1, <2>1, <2>2, TasksKeep
<1>4. ASSUME NEW t \in Tasks, Recycle(t) PROVE FleetInv'
  <2>1. /\ tasks' = [tasks EXCEPT ![t] = "none"] /\ tasks[t] = "stopped"
        /\ UNCHANGED <<server, ended, call, desired, troubles, serving>>
        /\ \A m \in Matches : server[m] = t => m \in ended
        /\ \A c \in Clients : t \notin call[c].ask \cup {call[c].was, call[c].ip}
    BY <1>4 DEF Recycle, rowsOfMatches
  <2>2. serving' \subseteq {o \in Tasks : Alive(o)'} \X (Matches \ ended)
    <3> SUFFICES ASSUME NEW p \in serving
                 PROVE  p \in {o \in Tasks : Alive(o)'} \X (Matches \ ended)
      BY <2>1
    <3>1. p \in Tasks \X (Matches \ ended) /\ Alive(p[1])
      BY <1>1
    <3>2. Alive(p[1])'
      BY <1>1, <2>1, <3>1 DEF Alive
    <3>3. QED
      BY <3>1, <3>2
  <2>3. QED
    BY <1>1, <2>1, <2>2, TasksKeep
<1>5. CASE ScaleIn
  <2>1. /\ UNCHANGED <<tasks, server, ended, call, serving>>
        /\ desired' \in Nat /\ troubles' \in 0..MaxTroubles
    BY <1>1, <1>5 DEF ScaleIn, rowsOfMatches
  <2>2. QED
    BY <1>1, <2>1, TasksKeep DEF Alive
<1>6. QED
  BY <1>2, <1>3, <1>4, <1>5 DEF Platform

LEMMA MatchGoneKeeps ==
  ASSUME FleetInv, NEW m \in Matches, MatchGone(m)
  PROVE  FleetInv'
<1>1. /\ server' = [server EXCEPT ![m] = NoTask] /\ ended' = ended \cup {m}
      /\ serving' = {p \in serving : p[2] # m}
      /\ UNCHANGED <<tasks, desired, call, troubles>>
  BY DEF MatchGone, fleet
<1>2. TypeOKFleet'
  <2>1. serving' \subseteq {t \in Tasks : Alive(t)} \X (Matches \ ended')
    BY <1>1 DEF FleetInv, TypeOKFleet
  <2>2. QED
    BY <1>1, <2>1 DEF FleetInv, TypeOKFleet, Alive
<1>3. \A o \in Matches \ ended' : Started(server[o])'
  BY <1>1 DEF FleetInv, TypeOKFleet, Started
<1>4. \A c \in Clients : GoodCall(call[c])'
  BY <1>1 DEF FleetInv, GoodCall, Started
<1>5. QED
  BY <1>2, <1>3, <1>4 DEF FleetInv

LEMMA FleetKeeps == FleetInv /\ [NextFleet]_varsFleet => FleetInv'
<1> SUFFICES ASSUME FleetInv, [NextFleet]_varsFleet PROVE FleetInv'
  OBVIOUS
<1>1. CASE UNCHANGED varsFleet
  BY <1>1 DEF varsFleet, FleetInv, TypeOKFleet, Alive, GoodCall, Started
<1>2. CASE \E c \in Clients : Call(c) \/ CallStep(c)
  BY <1>2, BeginKeeps, SearchKeeps, AnswerKeeps DEF CallStep
<1>3. CASE Platform \/ ScaleIn \/ \E t \in Tasks : StopTask(t) \/ Die(t)
  BY <1>3, PlatformKeeps
<1>4. CASE \E m \in Matches : MatchGone(m)
  BY <1>4, MatchGoneKeeps
<1>5. QED
  BY <1>1, <1>2, <1>3, <1>4 DEF NextFleet

(* The fleet, its calls and what they refer to have their types, and a     *)
(* task that serves a match is running, for any tasks, clients, matches    *)
(* and troubles (TypeOKFleet).                                             *)
THEOREM FleetTypeCorrect == SpecFleet => []TypeOKFleet
<1>1. FleetInv => TypeOKFleet
  BY DEF FleetInv
<1>2. QED
  BY FleetInit, FleetKeeps, <1>1, PTL DEF SpecFleet

(* Only a restore gives the row of a match another server, and if it has   *)
(* read the server that it replaces, that server is off the list           *)
(* (ServerIsKept): the search may take long, but no task comes back under  *)
(* an address that is referred to.                                         *)
THEOREM ServersAreKept == SpecFleet => ServerIsKept
<1> DEFINE Kept == \A m \in Matches : server[m] # NoTask /\ server'[m] \notin {server[m], NoTask}
              => \E c \in Clients : Plays[c] = m /\ CallAt(c, "update")
                   /\ (call[c].was = server[m] => server[m] \notin Listed)
<1>1. ASSUME FleetInv, [NextFleet]_varsFleet PROVE Kept \/ UNCHANGED varsFleet
  <2> SUFFICES ASSUME NEW m \in Matches, server[m] # NoTask,
                      server'[m] \notin {server[m], NoTask}
               PROVE  \E c \in Clients : Plays[c] = m /\ CallAt(c, "update")
                        /\ (call[c].was = server[m] => server[m] \notin Listed)
    OBVIOUS
  <2>1. server \in [Matches -> Tasks \cup {NoTask}]
    BY <1>1 DEF FleetInv, TypeOKFleet
  <2>2. ASSUME NEW o \in Matches, MatchGone(o) PROVE FALSE
    BY <2>1, <2>2 DEF MatchGone
  <2>3. ~(Platform \/ ScaleIn \/ \E t \in Tasks : StopTask(t) \/ Die(t))
    BY DEF Platform, ScaleIn, StopTask, Die, PlaceTask, RunTask, NoticeDead, Recycle,
           rowsOfMatches
  <2>4. server' # server
    OBVIOUS
  <2>5. PICK c \in Clients : UpdateActiveMatch(c) \/ CreateMatch(c)
    BY <1>1, <2>2, <2>3, <2>4 DEF NextFleet, varsFleet, CallStep, Call, CheckTasks, ScaleToOne,
       GetRow, Find, Offer, GetServerStatus, StartNewTask, Connect, rowsOfMatches
  <2>6. ~CreateMatch(c)
    BY <2>1 DEF CreateMatch
  <2>7. Plays[c] = m /\ CallAt(c, "update") /\ call[c].ip # server[m]
    BY <2>1, <2>5, <2>6 DEF UpdateActiveMatch
  <2>8. call[c].was = server[m] => tasks[server[m]] = "stopped"
    BY <1>1, <2>7, CallsAreGood DEF GoodCall, CallAt
  <2>9. QED
    BY <2>7, <2>8 DEF Listed
<1>2. FleetInv /\ [NextFleet]_varsFleet => [Kept]_varsFleet
  BY <1>1
<1>3. QED
  BY FleetInit, FleetKeeps, <1>2, PTL DEF SpecFleet, ServerIsKept
-----------------------------------------------------------------------------
(* Side by side in MCServices, every service goes through behaviours of    *)
(* its own specification, so that what is proved of each holds there.      *)

LEMMA ServicesInit ==
  InitServices => InitListing /\ InitFriends /\ InitNotification /\ InitAccounts
BY DEF InitServices

LEMMA ServicesStep ==
  ASSUME [NextServices]_varsServices
  PROVE  /\ [NextListing]_varsListing /\ [NextFriends]_varsFriends
         /\ [NextNotification]_varsNotification /\ [NextAccounts]_varsAccounts
<1>1. CASE UNCHANGED varsServices
  BY <1>1 DEF varsServices
<1>2. CASE NextServices
  BY <1>2 DEF NextServices, NextAccounts
<1>3. QED
  BY <1>1, <1>2

(* The composition implements the specification of each of its parts. *)
THEOREM ServicesApart ==
  SpecServices => SpecListing /\ SpecFriends /\ SpecNotification /\ SpecAccounts
BY ServicesInit, ServicesStep, PTL
   DEF SpecServices, SpecListing, SpecFriends, SpecNotification, SpecAccounts

(* Every state of the services side by side has its type. *)
THEOREM ServicesTypeCorrect == SpecServices => []TypeOKServices
<1>1. TypeOKListing /\ TypeOKFriends /\ TypeOKNotification /\ TypeOKAccounts
        => TypeOKServices
  BY DEF TypeOKServices
<1>2. QED
  BY <1>1, ServicesApart, ListingTypeCorrect, FriendsTypeCorrect,
     NotificationTypeCorrect, AccountsTypeCorrect, PTL

(* What each service promises it keeps beside the others. *)
THEOREM ServicesKeepPromises ==
  SpecServices => /\ []ListedOnce /\ []RequestIsAnswered /\ []WaiterIsTold
                  /\ []PaidIsPro /\ []AvatarIsThere /\ []SolvesCount
BY ServicesApart, PagesAreComplete, RequestsAreAnswered, WaitersAreTold,
   PayersArePro, AvatarsAreThere, SolvesAreCounted, PTL
=============================================================================
