------------------------------ MODULE MCServices ------------------------------
(***************************************************************************)
(* The functions around the matches, side by side: the lists, the friends, *)
(* the notification of a waiting user and the accounts share no row and no *)
(* message, so that a behaviour of one says nothing of another.  Each      *)
(* behaviour here is one of one service; those of an account have either   *)
(* uploads or puzzles, which do not meet.                                  *)
(***************************************************************************)
EXTENDS Listing, Friends, Notification, Accounts, TLC

CONSTANTS r1, r2, r3, r4

MCRows == {r1, r2, r3, r4}
MCPlace == (r1 :> 1) @@ (r2 :> 2) @@ (r3 :> 3) @@ (r4 :> 4)

VARIABLE service

varsServices == <<varsListing, varsFriends, varsNotification, varsAccounts, service>>

InitServices ==
  /\ service \in {"lists", "friends", "notification", "avatars", "puzzles"}
  /\ InitListing /\ InitFriends /\ InitNotification /\ InitAccounts
  /\ service # "lists" => /\ rows = {} /\ listing.list = FriendshipList
                          /\ listing.limit = CHOOSE n \in Limits : TRUE
  /\ service # "friends" => endpoints = {}

NextServices ==
  /\ UNCHANGED service
  /\ \/ /\ service = "lists" /\ NextListing
        /\ UNCHANGED <<varsFriends, varsNotification, varsAccounts>>
     \/ /\ service = "friends" /\ NextFriends
        /\ UNCHANGED <<varsListing, varsNotification, varsAccounts>>
     \/ /\ service = "notification" /\ NextNotification
        /\ UNCHANGED <<varsListing, varsFriends, varsAccounts>>
     \/ /\ \/ service = "avatars" /\ (AccountStep \/ AvatarStep)
           \/ service = "puzzles" /\ (AccountStep \/ PuzzleStep)
        /\ UNCHANGED <<varsListing, varsFriends, varsNotification>>

(* No friend request is under way at first, so that the fairness of the    *)
(* friends asks nothing of the other services.                             *)
SpecServices == InitServices /\ [][NextServices]_varsServices /\ FairFriends

TypeOKServices == TypeOKListing /\ TypeOKFriends /\ TypeOKNotification /\ TypeOKAccounts
===============================================================================
