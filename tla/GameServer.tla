----------------------------- MODULE GameServer -----------------------------
(***************************************************************************)
(* One game server process: the matches it keeps (server.matches), their   *)
(* count, the timer that protects the task from scale-in, and the loading  *)
(* of a match from its ActiveMatches row and its last saved state.         *)
(* Handlers load matches while the goroutines that ended others remove     *)
(* them; the process may crash and start again.                            *)
(*                                                                         *)
(* A match object is a number; what Match says of its life is here one     *)
(* step from live to settling.  A position is the number of moves made.    *)
(***************************************************************************)
EXTENDS Integers, FiniteSets

CONSTANTS MatchIds, Handlers, NoMatch,
          MaxObjects,   \* bound: match objects ever created
          MaxMoves,     \* bound: moves of an object of each match
          MaxCrashes    \* bound: crashes

ASSUME BoundsAssumption ==
  /\ IsFiniteSet(MatchIds)
  /\ NoMatch \notin MatchIds
  /\ MaxMoves \in [MatchIds -> Nat]
  /\ MaxObjects \in Nat /\ MaxCrashes \in Nat

VARIABLES
  active,     \* ActiveMatches: the ids with a row that says the game mode
  aborting,   \* matches with an abortGame event queued
  saved,      \* MatchStates: pairs of ply (of the object) and position
  at, on,     \* what each handler is doing, for which match
  owner,      \* the match of each object
  life,       \* where each object is between its creation and its removal
  board,      \* of each object: moves since it was created, position, unsaved
  registered, \* server.matches: the object of each match, or 0
  total,      \* server.totalMatches
  timer,      \* server.protectionTimer
  guard,      \* its goroutine
  protected,  \* the task's protection
  refused,    \* the call for protection of the waiting goroutine had no effect
  overlapped, \* a match was loaded while an empty server gave up protection,
              \* and no new goroutine has asked for it since
  crashes

db == <<active, aborting, saved>>
handlerVars == <<at, on>>
objectVars == <<owner, life, board>>
protection == <<timer, guard, protected, refused>>
vars == <<db, handlerVars, objectVars, registered, total, protection,
          overlapped, crashes>>

(* handlePlayerJoin stamps the row of its match, and UpdateItem makes a    *)
(* row where there is none; without game mode, no load accepts such a row. *)

Objects == 1 .. MaxObjects
None == 0

Steps == {"idle", "read", "count", "protect"}
Lives == {"unborn", "live", "settling", "delete", "uncount", "skip", "gone"}
NewBoard == [ply |-> 0, pos |-> 0, unsaved |-> FALSE]

(* NewServer arms the protection timer with the idle timeout. *)
Init ==
  /\ active = MatchIds
  /\ aborting = {}
  /\ saved = [m \in MatchIds |-> {}]
  /\ at = [h \in Handlers |-> "idle"]
  /\ on = [h \in Handlers |-> NoMatch]
  /\ owner = [o \in Objects |-> NoMatch]
  /\ life = [o \in Objects |-> "unborn"]
  /\ board = [o \in Objects |-> NewBoard]
  /\ registered = [m \in MatchIds |-> None]
  /\ total = 0
  /\ timer = "armed" /\ guard = "enable" /\ protected = FALSE /\ refused = FALSE
  /\ overlapped = FALSE
  /\ crashes = 0

(***************************************************************************)
(* loadMatch, called by the handler of a connection.  server.mu is held    *)
(* from Find or Create to the end of Protect, but not by the Read before   *)
(* it, and not by removeMatch.                                             *)
(***************************************************************************)

Goto(h, step) == at' = [at EXCEPT ![h] = step]
Leave(h) == Goto(h, "idle") /\ on' = [on EXCEPT ![h] = NoMatch]
MuFree == \A h \in Handlers : at[h] \notin {"count", "protect"}

Read(h, m) ==
  /\ at[h] = "idle" /\ m \in active
  /\ Goto(h, "read")
  /\ on' = [on EXCEPT ![h] = m]
  /\ UNCHANGED <<db, objectVars, registered, total, protection, overlapped,
                 crashes>>

Find(h) ==
  /\ at[h] = "read" /\ MuFree
  /\ registered[on[h]] # None
  /\ Leave(h)
  /\ UNCHANGED <<db, objectVars, registered, total, protection,
                 overlapped, crashes>>

(* Mutant: the states are fetched in ascending order. *)
OldestState(m) == {s \in saved[m] : \A t \in saved[m] : s.ply <= t.ply}

(* FetchMatchStates in descending order of ply, limited to one. *)
LastState(m) == {s \in saved[m] : \A t \in saved[m] : t.ply <= s.ply}

Unborn(o) == /\ life[o] = "unborn"
             /\ \A p \in Objects : p < o => life[p] # "unborn"

(* Mutant: the match is made without its id.                               *)
CreateNameless(h, o) ==
  LET m == on[h] IN
  /\ at[h] = "read" /\ MuFree
  /\ registered[m] = None /\ Unborn(o)
  /\ \/ saved[m] = {} /\ board' = [board EXCEPT ![o] = NewBoard]
     \/ \E s \in LastState(m) :
          board' = [board EXCEPT ![o] = [NewBoard EXCEPT !.pos = s.pos]]
  /\ life' = [life EXCEPT ![o] = "live"]
  /\ registered' = [registered EXCEPT ![m] = o]
  /\ Goto(h, "count")
  /\ UNCHANGED <<db, on, owner, total, protection, overlapped, crashes>>

(* newMatch, or resumeMatch from the last state: the object's moves start  *)
(* at ply 0 again.                                                         *)
Create(h, o) ==
  LET m == on[h] IN
  /\ at[h] = "read" /\ MuFree
  /\ registered[m] = None /\ Unborn(o)
  /\ \/ saved[m] = {} /\ board' = [board EXCEPT ![o] = NewBoard]
     \/ \E s \in LastState(m) :
          board' = [board EXCEPT ![o] = [NewBoard EXCEPT !.pos = s.pos]]
  /\ owner' = [owner EXCEPT ![o] = m]
  /\ life' = [life EXCEPT ![o] = "live"]
  /\ registered' = [registered EXCEPT ![m] = o]
  /\ Goto(h, "count")
  /\ UNCHANGED <<db, on, total, protection, overlapped, crashes>>

(* The protection is being given up for want of matches.                   *)
Waning == \/ \E o \in Objects : life[o] = "skip"
          \/ timer = "fired" \/ guard \in {"disable", "clear"}

Count(h) ==
  /\ at[h] = "count"
  /\ total' = total + 1
  /\ overlapped' = (overlapped \/ Waning)
  /\ Goto(h, "protect")
  /\ UNCHANGED <<db, on, objectVars, registered, protection, crashes>>

(* Mutant: an empty timer variable is not looked at.                       *)
ProtectOnce(h) ==
  /\ at[h] = "protect"
  /\ timer' = "armed"
  /\ guard' = guard
  /\ Leave(h)
  /\ UNCHANGED <<db, objectVars, registered, total, protected, refused,
                 overlapped, crashes>>

(* resetProtectionTimer: a new timer and goroutine, or a Reset of the old  *)
(* one, even if its goroutine has received already.                        *)
Protect(h) ==
  /\ at[h] = "protect"
  /\ timer' = "armed"
  /\ guard' = IF timer = "nil" THEN "enable" ELSE guard
  /\ Leave(h)
  /\ UNCHANGED <<db, objectVars, registered, total, protected, refused,
                 overlapped, crashes>>

(***************************************************************************)
(* A match object: moves and saves of its loop; end or abort; removeMatch. *)
(***************************************************************************)

Move(o) ==
  /\ life[o] = "live" /\ ~board[o].unsaved
  /\ board[o].ply < MaxMoves[owner[o]]
  /\ board' = [board EXCEPT ![o] = [ply |-> @.ply + 1, pos |-> @.pos + 1,
                                    unsaved |-> TRUE]]
  /\ UNCHANGED <<db, handlerVars, owner, life, registered, total, protection,
                 overlapped, crashes>>

(* handleSaveGame only logs a failure. *)
Save(o) ==
  /\ board[o].unsaved /\ life[o] # "gone"
  /\ \/ saved' = [saved EXCEPT ![owner[o]] =
                    @ \cup {[ply |-> board[o].ply, pos |-> board[o].pos]}]
     \/ UNCHANGED saved
  /\ board' = [board EXCEPT ![o].unsaved = FALSE]
  /\ UNCHANGED <<active, aborting, handlerVars, owner, life, registered, total,
                 protection, overlapped, crashes>>

Becomes(o, l) == life' = [life EXCEPT ![o] = l]

(* The removal is complete and the object garbage.                         *)
Gone(o) == Becomes(o, "gone") /\ board' = [board EXCEPT ![o] = NewBoard]

(* Mutant: the match is removed before it has ended, so that it can be     *)
(* loaded meanwhile.                                                       *)
EndRemovesFirst(o) ==
  /\ life[o] = "live"
  /\ Becomes(o, "settling")
  /\ registered' = [registered EXCEPT ![owner[o]] = None]
  /\ UNCHANGED <<db, handlerVars, owner, board, total, protection, overlapped,
                 crashes>>

End(o) ==
  /\ life[o] = "live"
  /\ Becomes(o, "settling")
  /\ UNCHANGED <<db, handlerVars, owner, board, registered, total, protection,
                 overlapped, crashes>>

(* The endGame function has run; an error of its own goes unnoticed.       *)
EndGame(o) ==
  /\ life[o] = "settling"
  /\ \/ active' = active \ {owner[o]}
     \/ UNCHANGED active
  /\ Becomes(o, "delete")
  /\ UNCHANGED <<aborting, saved, handlerVars, owner, board, registered, total,
                 protection, overlapped, crashes>>

Abort(o) ==
  /\ life[o] = "live"
  /\ aborting' = aborting \cup {owner[o]}
  /\ Becomes(o, "delete")
  /\ UNCHANGED <<active, saved, handlerVars, owner, board, registered, total,
                 protection, overlapped, crashes>>

AbortGame(m) ==
  /\ m \in aborting
  /\ aborting' = aborting \ {m}
  /\ active' = active \ {m}
  /\ UNCHANGED <<saved, handlerVars, objectVars, registered, total, protection,
                 overlapped, crashes>>

(* Mutant: the count is forgotten.                                         *)
DeleteOnly(o) ==
  /\ life[o] = "delete"
  /\ registered' = [registered EXCEPT ![owner[o]] = None]
  /\ Gone(o)
  /\ UNCHANGED <<db, handlerVars, owner, total, protection, overlapped,
                 crashes>>

Delete(o) ==
  /\ life[o] = "delete"
  /\ registered' = [registered EXCEPT ![owner[o]] = None]
  /\ Becomes(o, "uncount")
  /\ UNCHANGED <<db, handlerVars, owner, board, total, protection, overlapped,
                 crashes>>

(* Mutant: the timer is skipped once one match is left.                    *)
UncountEarly(o) ==
  /\ life[o] = "uncount"
  /\ total' = total - 1
  /\ IF total' <= 1 THEN Becomes(o, "skip") /\ UNCHANGED board ELSE Gone(o)
  /\ UNCHANGED <<db, handlerVars, owner, registered, protection,
                 overlapped, crashes>>

Uncount(o) ==
  /\ life[o] = "uncount"
  /\ total' = total - 1
  /\ IF total' <= 0 THEN Becomes(o, "skip") /\ UNCHANGED board ELSE Gone(o)
  /\ UNCHANGED <<db, handlerVars, owner, registered, protection,
                 overlapped, crashes>>

(* skipProtectionTimer. *)
Skip(o) ==
  /\ life[o] = "skip"
  /\ timer' = IF timer = "nil" THEN "nil" ELSE "fired"
  /\ Gone(o)
  /\ UNCHANGED <<db, handlerVars, owner, registered, total, guard,
                 protected, refused, overlapped, crashes>>

(***************************************************************************)
(* The timer and its goroutine.  That no match outlasts the duration given *)
(* for it is assumed: the timer goes off by itself on an idle server only. *)
(***************************************************************************)

Expire ==
  /\ timer = "armed" /\ total = 0
  /\ timer' = "fired"
  /\ UNCHANGED <<db, handlerVars, objectVars, registered, total, guard,
                 protected, refused, overlapped, crashes>>

(* UpdateServerProtection fails without the task's metadata, or in ECS;    *)
(* that is logged and not retried.  A call either takes effect or not.     *)
Guard ==
  /\ \/ /\ guard = "enable" /\ guard' = "wait"
        /\ \/ protected' = TRUE /\ refused' = FALSE
           \/ protected' = protected /\ refused' = TRUE
        /\ overlapped' = (overlapped /\ Waning)
        /\ UNCHANGED timer
     \/ /\ guard = "wait" /\ timer = "fired" /\ guard' = "disable"
        /\ UNCHANGED <<protected, refused, timer, overlapped>>
     \/ /\ guard = "disable" /\ guard' = "clear"
        /\ protected' \in {protected, FALSE} /\ refused' = FALSE
        /\ UNCHANGED <<timer, overlapped>>
     \/ /\ guard = "clear" /\ guard' = "none" /\ timer' = "nil"
        /\ UNCHANGED <<protected, refused, overlapped>>
  /\ UNCHANGED <<db, handlerVars, objectVars, registered, total, crashes>>

(* The process dies and another starts.  An endGame under way goes on.     *)
Crash ==
  /\ crashes < MaxCrashes
  /\ crashes' = crashes + 1
  /\ \E D \in SUBSET {owner[o] : o \in {p \in Objects : life[p] = "settling"}} :
       active' = active \ D
  /\ at' = [h \in Handlers |-> "idle"]
  /\ on' = [h \in Handlers |-> NoMatch]
  /\ life' = [o \in Objects |-> IF life[o] = "unborn" THEN "unborn" ELSE "gone"]
  /\ board' = [o \in Objects |-> NewBoard]
  /\ registered' = [m \in MatchIds |-> None]
  /\ total' = 0
  /\ timer' = "armed" /\ guard' = "enable" /\ protected' = FALSE /\ refused' = FALSE
  /\ overlapped' = FALSE
  /\ UNCHANGED <<aborting, saved, owner>>

Next ==
  \/ \E h \in Handlers :
       \/ \E m \in MatchIds : Read(h, m)
       \/ \E o \in Objects : Create(h, o)
       \/ Find(h) \/ Count(h) \/ Protect(h)
  \/ \E o \in Objects : \/ Move(o) \/ Save(o) \/ End(o) \/ EndGame(o)
                        \/ Abort(o) \/ Delete(o) \/ Uncount(o) \/ Skip(o)
  \/ \E m \in MatchIds : AbortGame(m)
  \/ Expire \/ Guard \/ Crash

Spec == Init /\ [][Next]_vars

(***************************************************************************)
(* Properties.                                                             *)
(***************************************************************************)

TypeOK ==
  /\ active \subseteq MatchIds
  /\ aborting \subseteq MatchIds
  /\ saved \in [MatchIds -> SUBSET [ply : Nat, pos : Nat]]
  /\ at \in [Handlers -> Steps]
  /\ on \in [Handlers -> MatchIds \cup {NoMatch}]
  /\ owner \in [Objects -> MatchIds \cup {NoMatch}]
  /\ life \in [Objects -> Lives]
  /\ \A o \in Objects : life[o] = "unborn" <=> owner[o] = NoMatch
  /\ board \in [Objects -> [ply : Nat, pos : Nat, unsaved : BOOLEAN]]
  /\ registered \in [MatchIds -> Objects \cup {None}]
  /\ total \in Int
  /\ timer \in {"nil", "armed", "fired"}
  /\ guard \in {"none", "enable", "wait", "disable", "clear"}
  /\ protected \in BOOLEAN /\ refused \in BOOLEAN
  /\ overlapped \in BOOLEAN
  /\ crashes \in Nat

(* At most one object of a match is between its creation and its removal,  *)
(* and it is the one server.matches leads to, although removeMatch deletes *)
(* by the match's id without server.mu, and a match may be loaded from a   *)
(* row that is gone.                                                       *)
OneObjectPerMatch ==
  \A o \in Objects :
    life[o] \in {"live", "settling", "delete"} => registered[owner[o]] = o

(* When no handler and no goroutine is in the middle of loading or         *)
(* removing, totalMatches, which /status reports and which decides on the  *)
(* protection, is the number of matches registered.                        *)
Quiet == /\ \A h \in Handlers : at[h] \notin {"count"}
         /\ \A o \in Objects : life[o] # "uncount"
CountIsMatches ==
  Quiet => total = Cardinality({m \in MatchIds : registered[m] # None})

(* A server with a match that is loaded and not removed is protected, once *)
(* the timer's goroutine has asked for it and unless the call failed, or   *)
(* the match was loaded while the protection of the empty server was being *)
(* given up and no goroutine was started since.                            *)
ServingIsProtected ==
  ~overlapped /\ ~refused /\ guard # "enable"
  /\ (\E m \in MatchIds : registered[m] # None)
  /\ (\A h \in Handlers : at[h] \notin {"count", "protect"})
    => protected

Created(o) == life[o] = "unborn" /\ life'[o] = "live"
Furthest(m) == {s \in saved[m] : \A t \in saved[m] : t.pos <= s.pos}

(* A match that is loaded for the second time resumes from the last saved  *)
(* position, whichever saves failed and wherever the server crashed.       *)
FirstResumeIsLatest ==
  [][\A o \in Objects :
       LET m == owner'[o] IN
       Created(o) /\ saved[m] # {} /\ Cardinality({p \in Objects : owner[p] = m}) = 1
         => \E s \in Furthest(m) : board'[o].pos = s.pos]_vars

(* How the tables see a match: played while an object of it is live, and   *)
(* ending while endGame works for one.                                     *)
Has(m, l) == \E o \in Objects : owner[o] = m /\ life[o] = l
PhaseOf(m) == IF Has(m, "live") THEN "live"
              ELSE IF Has(m, "settling") THEN "ending" ELSE "idle"

H == INSTANCE Hosting WITH phase <- [m \in MatchIds |-> PhaseOf(m)]

(* The objects that handlers create and goroutines remove amount to the    *)
(* server that Settlement takes for granted: one place for each match, and *)
(* no load of a match that is ending.                                      *)
ImplementsHosting == H!Spec

(***************************************************************************)
(* A statement of the documents that does not hold.                        *)
(***************************************************************************)

(* "Restore abandoned match due to server termination"                     *)
(* (docs/api/http/openapi.yaml, /match/{id}/restore): the match that is    *)
(* restored is at its last saved position.                                 *)
EveryResumeIsLatest ==
  [][\A o \in Objects :
       LET m == owner'[o] IN
       Created(o) /\ saved[m] # {}
         => \E s \in Furthest(m) : board'[o].pos = s.pos]_vars

=============================================================================
