-------------------------- MODULE GameServerProofs --------------------------
(***************************************************************************)
(* Proofs about GameServer for any matches, handlers, objects, moves and   *)
(* crashes.                                                                *)
(***************************************************************************)
EXTENDS GameServer, FiniteSetTheorems, TLAPS

(* What a handler works on is a match, an object that was created has a    *)
(* match, and one that was not has nothing to save.                        *)
ServerInv ==
  /\ TypeOK
  /\ \A h \in Handlers : at[h] # "idle" => on[h] \in MatchIds
  /\ \A o \in Objects : life[o] # "unborn" => owner[o] \in MatchIds
  /\ \A o \in Objects : life[o] = "unborn" => owner[o] = NoMatch /\ ~board[o].unsaved

LEMMA ServerInit == Init => ServerInv
<1> SUFFICES ASSUME Init PROVE ServerInv
  OBVIOUS
<1>1. NewBoard \in [ply : Nat, pos : Nat, unsaved : BOOLEAN] /\ ~NewBoard.unsaved
  BY DEF NewBoard
<1>2. board \in [Objects -> [ply : Nat, pos : Nat, unsaved : BOOLEAN]]
      /\ \A o \in Objects : ~board[o].unsaved
  BY <1>1 DEF Init
<1>3. /\ active \subseteq MatchIds /\ aborting \subseteq MatchIds
      /\ saved \in [MatchIds -> SUBSET [ply : Nat, pos : Nat]]
  BY DEF Init
<1>4. /\ at \in [Handlers -> Steps]
      /\ on \in [Handlers -> MatchIds \cup {NoMatch}]
      /\ \A h \in Handlers : at[h] = "idle"
  BY DEF Init, Steps
<1>5. /\ owner \in [Objects -> MatchIds \cup {NoMatch}]
      /\ life \in [Objects -> Lives]
      /\ registered \in [MatchIds -> Objects \cup {None}]
      /\ \A o \in Objects : life[o] = "unborn" /\ owner[o] = NoMatch
  BY DEF Init, Lives
<1>6. /\ total \in Int /\ crashes \in Nat
      /\ timer \in {"nil", "armed", "fired"}
      /\ guard \in {"none", "enable", "wait", "disable", "clear"}
  BY DEF Init
<1>7. protected \in BOOLEAN /\ refused \in BOOLEAN /\ overlapped \in BOOLEAN
  BY Zenon DEF Init
<1>8. QED
  BY <1>2, <1>3, <1>4, <1>5, <1>6, <1>7 DEF ServerInv, TypeOK

(* The steps of a handler. *)
LEMMA HandlerIsTyped ==
  ASSUME ServerInv, NEW h \in Handlers,
         \/ \E m \in MatchIds : Read(h, m)
         \/ \E o \in Objects : Create(h, o)
         \/ Find(h) \/ Count(h) \/ Protect(h)
  PROVE  ServerInv'
<1> USE BoundsAssumption DEF ServerInv, TypeOK, Goto, Leave, db, objectVars, protection, Steps
<1>1. ASSUME NEW m \in MatchIds, Read(h, m) PROVE ServerInv'
  BY <1>1 DEF Read
<1>2. ASSUME NEW o \in Objects, Create(h, o) PROVE ServerInv'
  <2> DEFINE m == on[h]
             Boards == [ply : Nat, pos : Nat, unsaved : BOOLEAN]
  <2>1. m \in MatchIds /\ life[o] = "unborn"
    BY <1>2 DEF Create, Unborn
  <2>2. PICK b \in Boards : board' = [board EXCEPT ![o] = b]
    <3>1. NewBoard \in Boards
      BY DEF NewBoard
    <3>2. ASSUME NEW s \in LastState(m)
          PROVE  [NewBoard EXCEPT !.pos = s.pos] \in Boards
      <4>1. saved[m] \subseteq [ply : Nat, pos : Nat]
        BY <2>1
      <4>2. s \in [ply : Nat, pos : Nat]
        BY <4>1 DEF LastState
      <4>3. QED
        BY <4>2 DEF NewBoard
    <3>3. \/ board' = [board EXCEPT ![o] = NewBoard]
          \/ \E s \in LastState(m) :
               board' = [board EXCEPT ![o] = [NewBoard EXCEPT !.pos = s.pos]]
      BY <1>2 DEF Create
    <3>4. QED
      BY <3>1, <3>2, <3>3
  <2>3. board' \in [Objects -> Boards] /\ \A p \in Objects \ {o} : board'[p] = board[p]
    BY <2>2
  <2>4. owner' \in [Objects -> MatchIds \cup {NoMatch}] /\ life' \in [Objects -> Lives]
        /\ registered' \in [MatchIds -> Objects \cup {None}]
    BY <1>2, <2>1 DEF Create, Lives
  <2>5. /\ \A p \in Objects : life'[p] # "unborn" => owner'[p] \in MatchIds
        /\ \A p \in Objects : life'[p] = "unborn" => owner'[p] = NoMatch /\ ~board'[p].unsaved
    BY <1>2, <2>1, <2>3 DEF Create
  <2>6. QED
    BY <1>2, <2>1, <2>3, <2>4, <2>5 DEF Create
<1>3. CASE Find(h)
  BY <1>3 DEF Find
<1>4. CASE Count(h)
  BY <1>4 DEF Count, Waning
<1>5. CASE Protect(h)
  BY <1>5 DEF Protect
<1>6. QED
  BY <1>1, <1>2, <1>3, <1>4, <1>5

(* The steps of a match object. *)
LEMMA ObjectIsTyped ==
  ASSUME ServerInv, NEW o \in Objects,
         \/ Move(o) \/ Save(o) \/ End(o) \/ EndGame(o)
         \/ Abort(o) \/ Delete(o) \/ Uncount(o) \/ Skip(o)
  PROVE  ServerInv'
<1> USE DEF ServerInv, TypeOK, Becomes, db, handlerVars, protection, Lives
<1>1. CASE Move(o)
  <2>1. board' = [board EXCEPT ![o] = [ply |-> board[o].ply + 1, pos |-> board[o].pos + 1,
                                       unsaved |-> TRUE]]
    BY <1>1 DEF Move
  <2>2. [ply |-> board[o].ply + 1, pos |-> board[o].pos + 1, unsaved |-> TRUE]
          \in [ply : Nat, pos : Nat, unsaved : BOOLEAN]
    OBVIOUS
  <2>3. QED
    BY <1>1, <2>1, <2>2 DEF Move
<1>2. CASE Save(o)
  <2>1. owner[o] \in MatchIds
    BY <1>2 DEF Save
  <2>2. [ply |-> board[o].ply, pos |-> board[o].pos] \in [ply : Nat, pos : Nat]
    OBVIOUS
  <2>3. saved' \in [MatchIds -> SUBSET [ply : Nat, pos : Nat]]
    BY <1>2, <2>1, <2>2 DEF Save
  <2>4. board' \in [Objects -> [ply : Nat, pos : Nat, unsaved : BOOLEAN]]
        /\ \A p \in Objects : board'[p].unsaved => board[p].unsaved
    BY <1>2 DEF Save
  <2>5. QED
    BY <1>2, <2>3, <2>4 DEF Save
<1>3. CASE End(o)
  BY <1>3 DEF End
<1>4. CASE EndGame(o)
  BY <1>4 DEF EndGame
<1>5. CASE Abort(o)
  BY <1>5 DEF Abort
<1>6. CASE Delete(o)
  BY <1>6 DEF Delete, None
<1>7. CASE Uncount(o) \/ Skip(o)
  <2>1. /\ life[o] # "unborn"
        /\ \E l \in {"skip", "gone"} : life' = [life EXCEPT ![o] = l]
        /\ UNCHANGED owner
    BY <1>7 DEF Uncount, Skip, Gone
  <2>2. board' = board \/ board' = [board EXCEPT ![o] = NewBoard]
    BY <1>7 DEF Uncount, Skip, Gone
  <2>3. /\ board' \in [Objects -> [ply : Nat, pos : Nat, unsaved : BOOLEAN]]
        /\ \A p \in Objects : board'[p] = board[p] \/ ~board'[p].unsaved
    <3>1. NewBoard \in [ply : Nat, pos : Nat, unsaved : BOOLEAN] /\ ~NewBoard.unsaved
      BY DEF NewBoard
    <3>2. QED
      BY <2>2, <3>1
  <2>4. /\ UNCHANGED <<active, aborting, saved, at, on, registered, guard, protected,
                       refused, overlapped, crashes>>
        /\ total' \in Int /\ timer' \in {"nil", "armed", "fired"}
    BY <1>7 DEF Uncount, Skip
  <2>5. /\ life' \in [Objects -> Lives]
        /\ \A p \in Objects : life'[p] = "unborn" <=> life[p] = "unborn"
    BY <2>1 DEF Lives
  <2>6. QED
    BY <2>1, <2>3, <2>4, <2>5
<1>9. QED
  BY <1>1, <1>2, <1>3, <1>4, <1>5, <1>6, <1>7

LEMMA ServerStep == ServerInv /\ [Next]_vars => ServerInv'
<1> SUFFICES ASSUME ServerInv, [Next]_vars PROVE ServerInv'
  OBVIOUS
<1> USE DEF ServerInv, TypeOK
<1>1. ASSUME NEW m \in MatchIds, AbortGame(m) PROVE ServerInv'
  BY <1>1 DEF AbortGame, handlerVars, objectVars, protection
<1>2. CASE Expire
  BY <1>2 DEF Expire, db, handlerVars, objectVars
<1>3. CASE Guard
  BY <1>3 DEF Guard, db, handlerVars, objectVars
<1>4. CASE Crash
  <2>1. active' \subseteq MatchIds /\ aborting' \subseteq MatchIds
        /\ saved' \in [MatchIds -> SUBSET [ply : Nat, pos : Nat]]
    BY <1>4 DEF Crash
  <2>2. /\ at' \in [Handlers -> Steps]
        /\ on' \in [Handlers -> MatchIds \cup {NoMatch}]
        /\ \A h \in Handlers : at'[h] = "idle"
    BY <1>4 DEF Crash, Steps
  <2>3. /\ life' \in [Objects -> Lives]
        /\ \A o \in Objects : life'[o] = "unborn" <=> life[o] = "unborn"
    BY <1>4 DEF Crash, Lives
  <2>4. registered' \in [MatchIds -> Objects \cup {None}]
    BY <1>4 DEF Crash
  <2>5. /\ total' \in Int /\ crashes' \in Nat
        /\ timer' \in {"nil", "armed", "fired"}
        /\ guard' \in {"none", "enable", "wait", "disable", "clear"}
        /\ UNCHANGED owner
    BY <1>4 DEF Crash
  <2>6. protected' \in BOOLEAN /\ refused' \in BOOLEAN /\ overlapped' \in BOOLEAN
    BY <1>4, Zenon DEF Crash
  <2>7. /\ board' \in [Objects -> [ply : Nat, pos : Nat, unsaved : BOOLEAN]]
        /\ \A o \in Objects : ~board'[o].unsaved
    BY <1>4 DEF Crash, NewBoard
  <2>8. QED
    BY <2>1, <2>2, <2>3, <2>4, <2>5, <2>6, <2>7
<1>5. CASE UNCHANGED vars
  BY <1>5 DEF vars, db, handlerVars, objectVars, protection
<1>6. QED
  BY <1>1, <1>2, <1>3, <1>4, <1>5, HandlerIsTyped, ObjectIsTyped DEF Next

(* Every state of a server has its type, for any bounds. *)
THEOREM ServerTypeCorrect == Spec => []TypeOK
<1>1. ServerInv => TypeOK
  BY DEF ServerInv
<1>2. QED
  BY ServerInit, ServerStep, <1>1, PTL DEF Spec

(***************************************************************************)
(* One object for each match.                                              *)
(***************************************************************************)

Serving == {"live", "settling", "delete"}

(* server.matches leads to objects of the key that are not removed yet.    *)
KeysAreServed ==
  \A m \in MatchIds : registered[m] # None =>
    /\ owner[registered[m]] = m
    /\ life[registered[m]] \in Serving

OneInv == ServerInv /\ OneObjectPerMatch /\ KeysAreServed

LEMMA NoneIsNoObject == None \notin Objects
BY BoundsAssumption DEF None, Objects

LEMMA OneStep == OneInv /\ [Next]_vars => OneInv'
<1> SUFFICES ASSUME OneInv, [Next]_vars PROVE OneObjectPerMatch' /\ KeysAreServed'
  BY ServerStep DEF OneInv
<1> USE NoneIsNoObject
        DEF OneInv, ServerInv, TypeOK, OneObjectPerMatch, KeysAreServed, Serving,
            Becomes, db, handlerVars, objectVars, protection
<1>1. ASSUME UNCHANGED <<owner, life, registered>>
      PROVE  OneObjectPerMatch' /\ KeysAreServed'
  BY <1>1
<1>2. ASSUME NEW h \in Handlers, NEW o \in Objects, Create(h, o)
      PROVE  OneObjectPerMatch' /\ KeysAreServed'
  <2>1. PICK m \in MatchIds : m = on[h]
    BY <1>2 DEF Create
  <2>2. /\ owner' = [owner EXCEPT ![o] = m]
        /\ life' = [life EXCEPT ![o] = "live"]
        /\ registered' = [registered EXCEPT ![m] = o]
        /\ registered[m] = None /\ life[o] = "unborn"
    BY <1>2, <2>1 DEF Create, Unborn
  <2>3. QED
    BY <2>2
<1>3. ASSUME NEW o \in Objects, NEW l \in Serving,
             life[o] \in Serving, Becomes(o, l), UNCHANGED <<owner, registered>>
      PROVE  OneObjectPerMatch' /\ KeysAreServed'
  BY <1>3
<1>4. ASSUME NEW o \in Objects, NEW l \in {"skip", "gone"},
             life[o] \notin Serving, Becomes(o, l), UNCHANGED <<owner, registered>>
      PROVE  OneObjectPerMatch' /\ KeysAreServed'
  BY <1>4
<1>5. ASSUME NEW o \in Objects, Delete(o) PROVE OneObjectPerMatch' /\ KeysAreServed'
  <2>1. PICK m \in MatchIds : m = owner[o]
    BY <1>5 DEF Delete
  <2>2. /\ life' = [life EXCEPT ![o] = "uncount"]
        /\ registered' = [registered EXCEPT ![m] = None]
        /\ owner' = owner /\ registered[m] = o
    BY <1>5, <2>1 DEF Delete
  <2>3. QED
    BY <2>1, <2>2
<1>6. CASE Crash
  BY <1>6 DEF Crash
<1>7. ASSUME NEW h \in Handlers,
             Find(h) \/ Count(h) \/ Protect(h) \/ \E m \in MatchIds : Read(h, m)
      PROVE  OneObjectPerMatch' /\ KeysAreServed'
  BY <1>1, <1>7 DEF Find, Count, Protect, Read
<1>8. ASSUME NEW o \in Objects,
             \/ Move(o) \/ Save(o) \/ End(o) \/ EndGame(o)
             \/ Abort(o) \/ Delete(o) \/ Uncount(o) \/ Skip(o)
      PROVE  OneObjectPerMatch' /\ KeysAreServed'
  <2>1. CASE Move(o) \/ Save(o)
    BY <1>1, <2>1 DEF Move, Save
  <2>2. CASE End(o)
    BY <1>3, <2>2 DEF End
  <2>3. CASE EndGame(o)
    BY <1>3, <2>3 DEF EndGame
  <2>4. CASE Abort(o)
    BY <1>3, <2>4 DEF Abort
  <2>5. CASE Uncount(o)
    BY <1>4, <2>5 DEF Uncount, Gone
  <2>6. CASE Skip(o)
    BY <1>4, <2>6 DEF Skip, Gone
  <2>7. QED
    BY <1>5, <1>8, <2>1, <2>2, <2>3, <2>4, <2>5, <2>6
<1>9. CASE Expire \/ Guard \/ \E m \in MatchIds : AbortGame(m)
  BY <1>1, <1>9 DEF Expire, Guard, AbortGame
<1>10. CASE UNCHANGED vars
  BY <1>1, <1>10 DEF vars
<1>11. QED
  BY <1>2, <1>6, <1>7, <1>8, <1>9, <1>10 DEF Next

LEMMA OneInit == Init => OneInv
<1> SUFFICES ASSUME Init PROVE OneObjectPerMatch /\ KeysAreServed
  BY ServerInit DEF OneInv
<1>1. QED
  BY DEF Init, OneObjectPerMatch, KeysAreServed

(* Two objects never serve one match, for any matches and handlers. *)
THEOREM OneObject == Spec => []OneObjectPerMatch
<1>1. OneInv => OneObjectPerMatch
  BY DEF OneInv
<1>2. QED
  BY OneInit, OneStep, <1>1, PTL DEF Spec

(***************************************************************************)
(* The server implements Hosting.                                          *)
(***************************************************************************)

(* Of the objects of a match at most one is live or settling. *)
LEMMA OneServes ==
  ASSUME OneInv, NEW o \in Objects, NEW p \in Objects,
         life[o] \in Serving, life[p] \in Serving, owner[o] = owner[p]
  PROVE  o = p
BY DEF OneInv, OneObjectPerMatch, Serving

LEMMA PhaseIs ==
  ASSUME OneInv, NEW o \in Objects, life[o] \in Serving
  PROVE  /\ owner[o] \in MatchIds
         /\ PhaseOf(owner[o]) = CASE life[o] = "live" -> "live"
                                  [] life[o] = "settling" -> "ending"
                                  [] life[o] = "delete" -> "idle"
<1>1. owner[o] \in MatchIds
  BY DEF OneInv, ServerInv, Serving
<1>2. \A l \in Serving : Has(owner[o], l) <=> life[o] = l
  BY OneServes DEF Has
<1>3. QED
  BY <1>1, <1>2 DEF PhaseOf, Serving

(* One object goes on: the other matches do not see it. *)
LEMMA OthersStay ==
  ASSUME ServerInv, NEW o \in Objects, NEW l \in Lives, Becomes(o, l),
         owner' = owner, NEW m \in MatchIds, m # owner[o]
  PROVE  PhaseOf(m)' = PhaseOf(m)
<1>1. \A p \in Objects : owner[p] = m => life'[p] = life[p]
  BY DEF Becomes, ServerInv, TypeOK
<1>2. \A k : Has(m, k)' <=> Has(m, k)
  BY <1>1 DEF Has
<1>3. QED
  BY <1>2 DEF PhaseOf

LEMMA HostingStep == OneInv /\ [Next]_vars => [H!Next]_[m \in MatchIds |-> PhaseOf(m)]
<1> SUFFICES ASSUME OneInv, [Next]_vars
             PROVE  H!Next \/ UNCHANGED [m \in MatchIds |-> PhaseOf(m)]
  OBVIOUS
<1>0. OneInv'
  BY OneStep
<1>1. /\ life \in [Objects -> Lives] /\ owner \in [Objects -> MatchIds \cup {NoMatch}]
      /\ registered \in [MatchIds -> Objects \cup {None}] /\ ServerInv /\ ServerInv'
  BY <1>0 DEF OneInv, ServerInv, TypeOK
<1>2. ASSUME UNCHANGED <<owner, life>>
      PROVE  UNCHANGED [m \in MatchIds |-> PhaseOf(m)]
  BY <1>2 DEF PhaseOf, Has
<1>3. ASSUME NEW m \in MatchIds, NEW from, NEW to,
             PhaseOf(m) = from, PhaseOf(m)' = to,
             \A n \in MatchIds \ {m} : PhaseOf(n)' = PhaseOf(n)
      PROVE  H!Goes(m, from, to)
  BY <1>3 DEF H!Goes
<1>4. ASSUME NEW h \in Handlers, NEW o \in Objects, Create(h, o) PROVE H!Next
  <2>1. PICK m \in MatchIds : m = on[h]
    BY <1>1, <1>4 DEF Create, ServerInv
  <2>2. /\ owner' = [owner EXCEPT ![o] = m] /\ life' = [life EXCEPT ![o] = "live"]
        /\ registered[m] = None /\ life[o] = "unborn" /\ owner[o] = NoMatch
    BY <1>1, <1>4, <2>1 DEF Create, Unborn, ServerInv
  <2>3. owner'[o] = m /\ life'[o] = "live"
    BY <1>1, <2>2
  <2>4. PhaseOf(m) = "idle"
    BY <2>2, NoneIsNoObject DEF PhaseOf, Has, OneInv, OneObjectPerMatch, Serving
  <2>5. PhaseOf(m)' = "live"
    BY <2>3 DEF PhaseOf, Has
  <2>6. ASSUME NEW n \in MatchIds \ {m} PROVE PhaseOf(n)' = PhaseOf(n)
    <3>1. \A p \in Objects : /\ owner'[p] = n <=> owner[p] = n
                             /\ owner[p] = n => life'[p] = life[p]
      BY <1>1, <2>2, BoundsAssumption
    <3>2. \A k : Has(n, k)' <=> Has(n, k)
      BY <3>1 DEF Has
    <3>3. QED
      BY <3>2 DEF PhaseOf
  <2>7. H!Load(m)
    BY <1>3, <2>4, <2>5, <2>6 DEF H!Load
  <2>8. QED
    BY <2>7 DEF H!Next
<1>5. ASSUME NEW o \in Objects, NEW l \in Serving, life[o] \in Serving, Becomes(o, l),
             owner' = owner
      PROVE  /\ owner[o] \in MatchIds
             /\ PhaseOf(owner[o]) = CASE life[o] = "live" -> "live"
                                      [] life[o] = "settling" -> "ending"
                                      [] life[o] = "delete" -> "idle"
             /\ PhaseOf(owner[o])' = CASE l = "live" -> "live"
                                       [] l = "settling" -> "ending"
                                       [] l = "delete" -> "idle"
             /\ \A n \in MatchIds \ {owner[o]} : PhaseOf(n)' = PhaseOf(n)
  <2>1. life'[o] = l
    BY <1>1, <1>5 DEF Becomes
  <2>2. \A p \in Objects : owner[p] = owner[o] /\ life'[p] \in Serving => p = o
    BY <1>1, <1>5, OneServes DEF Becomes
  <2>3. \A k \in Serving : Has(owner[o], k)' <=> l = k
    BY <1>5, <2>1, <2>2 DEF Has
  <2>4. QED
    BY <1>1, <1>5, <2>3, PhaseIs, OthersStay DEF PhaseOf, Serving, Lives
<1>6. ASSUME NEW o \in Objects, End(o) PROVE H!Next
  <2>1. H!End(owner[o])
    BY <1>3, <1>5, <1>6 DEF End, Serving, H!End
  <2>2. QED
    BY <1>5, <1>6, <2>1 DEF End, Serving, H!Next
<1>7. ASSUME NEW o \in Objects, EndGame(o) PROVE H!Next
  <2>1. H!EndReturns(owner[o])
    BY <1>3, <1>5, <1>7 DEF EndGame, Serving, H!EndReturns
  <2>2. QED
    BY <1>5, <1>7, <2>1 DEF EndGame, Serving, H!Next
<1>8. ASSUME NEW o \in Objects, Abort(o) PROVE H!Next
  <2>1. H!Abort(owner[o])
    BY <1>3, <1>5, <1>8 DEF Abort, Serving, H!Abort
  <2>2. QED
    BY <1>5, <1>8, <2>1 DEF Abort, Serving, H!Next
<1>9. ASSUME NEW o \in Objects, Delete(o) \/ Uncount(o) \/ Skip(o)
      PROVE  UNCHANGED [m \in MatchIds |-> PhaseOf(m)]
  <2>1. PICK l \in {"uncount", "skip", "gone"} :
          owner' = owner /\ life' = [life EXCEPT ![o] = l]
    BY <1>9 DEF Delete, Uncount, Skip, Gone, Becomes
  <2>2. life[o] \notin {"live", "settling"}
    BY <1>9 DEF Delete, Uncount, Skip
  <2>3. \A m, k : k \in {"live", "settling"} => (Has(m, k)' <=> Has(m, k))
    BY <1>1, <2>1, <2>2 DEF Has
  <2>4. QED
    BY <2>3 DEF PhaseOf
<1>10. CASE Crash
  <2>1. \A o \in Objects : life'[o] \in {"unborn", "gone"}
    BY <1>10 DEF Crash
  <2>2. \A m \in MatchIds : PhaseOf(m)' = "idle"
    BY <2>1 DEF PhaseOf, Has
  <2>3. H!Crash
    BY <2>2 DEF H!Crash
  <2>4. QED
    BY <2>3 DEF H!Next
<1>11. ASSUME NEW h \in Handlers,
              Find(h) \/ Count(h) \/ Protect(h) \/ \E m \in MatchIds : Read(h, m)
       PROVE  UNCHANGED [m \in MatchIds |-> PhaseOf(m)]
  BY <1>2, <1>11 DEF Find, Count, Protect, Read, objectVars
<1>12. ASSUME NEW o \in Objects, Move(o) \/ Save(o)
       PROVE  UNCHANGED [m \in MatchIds |-> PhaseOf(m)]
  BY <1>2, <1>12 DEF Move, Save
<1>13. CASE Expire \/ Guard \/ (\E m \in MatchIds : AbortGame(m)) \/ UNCHANGED vars
  BY <1>2, <1>13 DEF Expire, Guard, AbortGame, objectVars, vars
<1>14. QED
  BY <1>4, <1>6, <1>7, <1>8, <1>9, <1>10, <1>11, <1>12, <1>13 DEF Next

(* The objects that handlers create under server.mu, and that goroutines   *)
(* remove without it, amount to the one server that the settlement of      *)
(* matches takes for granted (ImplementsHosting): any number of objects,   *)
(* handlers and crashes.                                                   *)
THEOREM ServerImplementsHosting == Spec => ImplementsHosting
<1>1. Init => H!Init
  <2> SUFFICES ASSUME Init PROVE H!Init
    OBVIOUS
  <2>1. \A m \in MatchIds : PhaseOf(m) = "idle"
    BY DEF Init, PhaseOf, Has
  <2>2. QED
    BY <2>1 DEF H!Init
<1>2. QED
  BY <1>1, OneInit, OneStep, HostingStep, PTL DEF Spec, ImplementsHosting, H!Spec

(***************************************************************************)
(* The count.  Between Create and Count a match is registered and not      *)
(* counted; between Delete and Uncount, counted and not registered.        *)
(***************************************************************************)

Registered == {m \in MatchIds : registered[m] # None}
Uncounted == {o \in Objects : life[o] = "uncount"}
Counting == IF \E h \in Handlers : at[h] = "count" THEN 1 ELSE 0

(* server.mu: one handler at a time is past Create. *)
MuHeldOnce ==
  \A g, h \in Handlers :
    at[g] \in {"count", "protect"} /\ at[h] \in {"count", "protect"} => g = h

TotalIsRight == total = Cardinality(Registered) + Cardinality(Uncounted) - Counting

CountInv == OneInv /\ MuHeldOnce /\ TotalIsRight

LEMMA SetsAreFinite ==
  /\ IsFiniteSet(Registered) /\ Cardinality(Registered) \in Nat
  /\ IsFiniteSet(Uncounted) /\ Cardinality(Uncounted) \in Nat
<1>1. IsFiniteSet(Objects)
  BY FS_Interval, BoundsAssumption DEF Objects
<1>2. Registered \in SUBSET MatchIds /\ Uncounted \in SUBSET Objects
  BY DEF Registered, Uncounted
<1>3. IsFiniteSet(Registered) /\ IsFiniteSet(Uncounted)
  BY <1>1, <1>2, FS_Subset, BoundsAssumption
<1>4. QED
  BY <1>3, FS_CardinalityType

LEMMA CountInit == Init => CountInv
<1> SUFFICES ASSUME Init PROVE MuHeldOnce /\ TotalIsRight
  BY OneInit DEF CountInv
<1>1. Registered = {} /\ Uncounted = {} /\ Counting = 0
  BY DEF Init, Registered, Uncounted, Counting
<1>2. TotalIsRight
  BY <1>1, FS_EmptySet DEF TotalIsRight, Init
<1>3. QED
  BY <1>2 DEF Init, MuHeldOnce

(* A step of a handler: Create adds a key before Count adds one.           *)
LEMMA HandlerCounts ==
  ASSUME CountInv, NEW h \in Handlers,
         \/ \E m \in MatchIds : Read(h, m)
         \/ \E o \in Objects : Create(h, o)
         \/ Find(h) \/ Count(h) \/ Protect(h)
  PROVE  MuHeldOnce' /\ TotalIsRight'
<1> USE DEF CountInv, OneInv, ServerInv, TypeOK, Goto, Leave, objectVars
<1>1. ASSUME NEW m \in MatchIds, Read(h, m) PROVE MuHeldOnce' /\ TotalIsRight'
  <2>1. /\ at' = [at EXCEPT ![h] = "read"] /\ at[h] = "idle"
        /\ UNCHANGED <<registered, life, total>>
    BY <1>1 DEF Read
  <2>2. MuHeldOnce'
    BY <2>1 DEF MuHeldOnce
  <2>3. Registered' = Registered /\ Uncounted' = Uncounted /\ Counting' = Counting
    BY <2>1 DEF Registered, Uncounted, Counting
  <2>4. QED
    BY <2>1, <2>2, <2>3 DEF TotalIsRight
<1>2. ASSUME NEW o \in Objects, Create(h, o) PROVE MuHeldOnce' /\ TotalIsRight'
  <2>1. PICK m \in MatchIds : m = on[h]
    BY <1>2 DEF Create
  <2>2. /\ life' = [life EXCEPT ![o] = "live"] /\ life[o] = "unborn"
        /\ registered' = [registered EXCEPT ![m] = o] /\ registered[m] = None
        /\ at' = [at EXCEPT ![h] = "count"] /\ at[h] = "read"
        /\ \A g \in Handlers : at[g] \notin {"count", "protect"}
        /\ total' = total
    BY <1>2, <2>1 DEF Create, Unborn, MuFree
  <2>3. MuHeldOnce'
    BY <2>2 DEF MuHeldOnce
  <2>4. Registered' = Registered \cup {m} /\ m \notin Registered
    BY <2>2, NoneIsNoObject DEF Registered
  <2>5. Uncounted' = Uncounted
    BY <2>2 DEF Uncounted
  <2>6. Counting = 0 /\ Counting' = 1
    BY <2>2 DEF Counting
  <2>7. Cardinality(Registered') = Cardinality(Registered) + 1
    BY <2>4, SetsAreFinite, FS_AddElement
  <2>8. QED
    BY <2>2, <2>3, <2>5, <2>6, <2>7, SetsAreFinite DEF TotalIsRight
<1>3. CASE Find(h)
  <2>1. /\ at' = [at EXCEPT ![h] = "idle"] /\ at[h] = "read"
        /\ UNCHANGED <<registered, life, total>>
    BY <1>3 DEF Find
  <2>2. MuHeldOnce'
    BY <2>1 DEF MuHeldOnce
  <2>3. Registered' = Registered /\ Uncounted' = Uncounted /\ Counting' = Counting
    BY <2>1 DEF Registered, Uncounted, Counting
  <2>4. QED
    BY <2>1, <2>2, <2>3 DEF TotalIsRight
<1>4. CASE Count(h)
  <2>1. /\ at' = [at EXCEPT ![h] = "protect"] /\ at[h] = "count"
        /\ total' = total + 1
        /\ UNCHANGED <<registered, life>>
    BY <1>4 DEF Count
  <2>2. MuHeldOnce'
    BY <2>1 DEF MuHeldOnce
  <2>3. Registered' = Registered /\ Uncounted' = Uncounted
    BY <2>1 DEF Registered, Uncounted
  <2>4. Counting = 1 /\ Counting' = 0
    BY <2>1 DEF Counting, MuHeldOnce
  <2>5. QED
    BY <2>1, <2>2, <2>3, <2>4, SetsAreFinite DEF TotalIsRight
<1>5. CASE Protect(h)
  <2>1. /\ at' = [at EXCEPT ![h] = "idle"] /\ at[h] = "protect"
        /\ UNCHANGED <<registered, life, total>>
    BY <1>5 DEF Protect
  <2>2. MuHeldOnce'
    BY <2>1 DEF MuHeldOnce
  <2>3. Registered' = Registered /\ Uncounted' = Uncounted /\ Counting' = Counting
    BY <2>1 DEF Registered, Uncounted, Counting
  <2>4. QED
    BY <2>1, <2>2, <2>3 DEF TotalIsRight
<1>6. QED
  BY <1>1, <1>2, <1>3, <1>4, <1>5

(* A step of an object: Delete takes a key away before Uncount takes one.  *)
LEMMA ObjectCounts ==
  ASSUME CountInv, NEW o \in Objects,
         \/ Move(o) \/ Save(o) \/ End(o) \/ EndGame(o)
         \/ Abort(o) \/ Delete(o) \/ Uncount(o) \/ Skip(o)
  PROVE  MuHeldOnce' /\ TotalIsRight'
<1> USE DEF CountInv, OneInv, ServerInv, TypeOK, Becomes
<1>1. at' = at
  BY DEF Move, Save, End, EndGame, Abort, Delete, Uncount, Skip, handlerVars
<1>2. MuHeldOnce' /\ Counting' = Counting
  BY <1>1 DEF MuHeldOnce, Counting
<1>3. ASSUME UNCHANGED <<registered, total>>,
             \A p \in Objects : life'[p] = "uncount" <=> life[p] = "uncount"
      PROVE  TotalIsRight'
  <2>1. Registered' = Registered /\ Uncounted' = Uncounted
    BY <1>3 DEF Registered, Uncounted
  <2>2. QED
    BY <1>2, <1>3, <2>1 DEF TotalIsRight
<1>4. CASE Move(o) \/ Save(o) \/ End(o) \/ EndGame(o) \/ Abort(o) \/ Skip(o)
  <2>1. ASSUME NEW l \in Lives \ {"uncount"}, life[o] # "uncount",
               life' = [life EXCEPT ![o] = l], UNCHANGED <<registered, total>>
        PROVE  TotalIsRight'
    BY <1>3, <2>1
  <2>2. UNCHANGED <<registered, total>>
    BY <1>4 DEF Move, Save, End, EndGame, Abort, Skip
  <2>3. \/ life' = life
        \/ \E l \in Lives \ {"uncount"} :
             life[o] # "uncount" /\ life' = [life EXCEPT ![o] = l]
    BY <1>4 DEF Move, Save, End, EndGame, Abort, Skip, Gone, Lives
  <2>4. QED
    BY <1>2, <1>3, <2>1, <2>2, <2>3
<1>5. CASE Delete(o)
  <2>1. PICK m \in MatchIds : m = owner[o]
    BY <1>5 DEF Delete
  <2>2. /\ life' = [life EXCEPT ![o] = "uncount"] /\ life[o] = "delete"
        /\ registered' = [registered EXCEPT ![m] = None] /\ registered[m] = o
        /\ total' = total
    BY <1>5, <2>1 DEF Delete, OneObjectPerMatch
  <2>3. Registered' = Registered \ {m} /\ m \in Registered
    BY <2>2, NoneIsNoObject DEF Registered
  <2>4. Uncounted' = Uncounted \cup {o} /\ o \notin Uncounted
    BY <2>2 DEF Uncounted
  <2>5. Cardinality(Registered') = Cardinality(Registered) - 1
    BY <2>3, SetsAreFinite, FS_RemoveElement
  <2>6. Cardinality(Uncounted') = Cardinality(Uncounted) + 1
    BY <2>4, SetsAreFinite, FS_AddElement
  <2>7. Counting \in {0, 1}
    BY DEF Counting
  <2>8. QED
    BY <1>2, <2>2, <2>5, <2>6, <2>7, SetsAreFinite DEF TotalIsRight
<1>6. CASE Uncount(o)
  <2>1. /\ life[o] = "uncount" /\ registered' = registered /\ total' = total - 1
        /\ \E l \in {"skip", "gone"} : life' = [life EXCEPT ![o] = l]
    BY <1>6 DEF Uncount, Gone
  <2>2. Uncounted' = Uncounted \ {o} /\ o \in Uncounted
    BY <2>1 DEF Uncounted
  <2>3. Cardinality(Uncounted') = Cardinality(Uncounted) - 1
    BY <2>2, SetsAreFinite, FS_RemoveElement
  <2>4. Registered' = Registered
    BY <2>1 DEF Registered
  <2>5. Counting \in {0, 1}
    BY DEF Counting
  <2>6. QED
    BY <1>2, <2>1, <2>3, <2>4, <2>5, SetsAreFinite DEF TotalIsRight
<1>7. QED
  BY <1>2, <1>4, <1>5, <1>6

LEMMA CountStep == CountInv /\ [Next]_vars => CountInv'
<1> SUFFICES ASSUME CountInv, [Next]_vars PROVE MuHeldOnce' /\ TotalIsRight'
  BY OneStep DEF CountInv
<1>1. ASSUME UNCHANGED <<at, life, registered, total>> PROVE MuHeldOnce' /\ TotalIsRight'
  <2>1. Registered' = Registered /\ Uncounted' = Uncounted /\ Counting' = Counting
    BY <1>1 DEF Registered, Uncounted, Counting
  <2>2. QED
    BY <1>1, <2>1 DEF CountInv, MuHeldOnce, TotalIsRight
<1>2. CASE Crash
  <2>1. Registered' = {} /\ Uncounted' = {} /\ Counting' = 0 /\ total' = 0
    BY <1>2 DEF Crash, Registered, Uncounted, Counting
  <2>2. TotalIsRight'
    BY <2>1, FS_EmptySet DEF TotalIsRight
  <2>3. QED
    BY <1>2, <2>2 DEF Crash, MuHeldOnce
<1>3. CASE Expire \/ Guard \/ \E m \in MatchIds : AbortGame(m)
  BY <1>1, <1>3 DEF Expire, Guard, AbortGame, handlerVars, objectVars
<1>4. CASE UNCHANGED vars
  BY <1>1, <1>4 DEF vars, handlerVars, objectVars
<1>5. QED
  BY <1>2, <1>3, <1>4, HandlerCounts, ObjectCounts DEF Next

(* totalMatches is the number of matches whenever nothing is in between,   *)
(* for any matches and handlers.                                           *)
THEOREM CountIsRight == Spec => []CountIsMatches
<1>1. ASSUME CountInv PROVE CountIsMatches
  <2> SUFFICES ASSUME Quiet PROVE total = Cardinality(Registered)
    BY DEF CountIsMatches, Registered
  <2>1. Uncounted = {} /\ Counting = 0
    BY DEF Quiet, Uncounted, Counting
  <2>2. QED
    BY <1>1, <2>1, FS_EmptySet, SetsAreFinite DEF CountInv, TotalIsRight
<1>2. CountInv => CountIsMatches
  BY <1>1
<1>3. QED
  BY CountInit, CountStep, <1>2, PTL DEF Spec

(***************************************************************************)
(* The protection.                                                         *)
(***************************************************************************)

(* With a match counted, nobody is giving up the protection, and once the  *)
(* handler that loaded it is done the timer runs.                          *)
GuardInv ==
  /\ guard \in {"wait", "disable"} => protected \/ refused
  /\ timer = "nil" <=> guard = "none"
  /\ ~overlapped /\ total > 0 => ~Waning
  /\ ~overlapped /\ total > 0 /\ (\A h \in Handlers : at[h] # "protect")
       => timer = "armed"

LEMMA GuardStep == ServerInv /\ GuardInv /\ [Next]_vars => GuardInv'
<1> SUFFICES ASSUME ServerInv, GuardInv, [Next]_vars PROVE GuardInv'
  OBVIOUS
<1> USE DEF ServerInv, TypeOK, GuardInv, Becomes, Goto, Leave
<1>1. ASSUME UNCHANGED <<total, timer, guard, protected, refused, overlapped>>,
             \A o \in Objects : life'[o] = "skip" => life[o] = "skip",
             \A h \in Handlers : at[h] = "protect" <=> at'[h] = "protect"
      PROVE  GuardInv'
  <2>1. Waning' => Waning
    BY <1>1 DEF Waning
  <2>2. QED
    BY <1>1, <2>1
<1>2. ASSUME NEW h \in Handlers PROVE
        /\ (\E m \in MatchIds : Read(h, m)) \/ Find(h) => GuardInv'
        /\ (\E o \in Objects : Create(h, o)) => GuardInv'
  <2>1. ASSUME \/ \E m \in MatchIds : Read(h, m)
               \/ Find(h)
        PROVE  GuardInv'
    BY <1>1, <2>1 DEF Read, Find, objectVars, protection
  <2>2. ASSUME NEW o \in Objects, Create(h, o) PROVE GuardInv'
    BY <1>1, <2>2 DEF Create, protection
  <2>3. QED
    BY <2>1, <2>2
<1>3. ASSUME NEW h \in Handlers, Count(h) PROVE GuardInv'
  <2>1. /\ at'[h] = "protect"
        /\ UNCHANGED <<timer, guard, protected, refused, life>>
    BY <1>3 DEF Count, protection, objectVars
  <2>2. overlapped' \/ ~Waning'
    BY <1>3, <2>1 DEF Count, Waning
  <2>3. QED
    BY <2>1, <2>2
<1>4. ASSUME NEW h \in Handlers, Protect(h) PROVE GuardInv'
  <2>1. /\ timer' = "armed"
        /\ guard' = IF timer = "nil" THEN "enable" ELSE guard
        /\ UNCHANGED <<total, protected, refused, overlapped, life>>
    BY <1>4 DEF Protect, objectVars
  <2>2. Waning' => Waning
    BY <2>1 DEF Waning
  <2>3. QED
    BY <2>1, <2>2
<1>5. ASSUME NEW o \in Objects,
             \/ Move(o) \/ Save(o) \/ End(o) \/ EndGame(o) \/ Abort(o) \/ Delete(o)
      PROVE  GuardInv'
  <2>1. UNCHANGED <<total, timer, guard, protected, refused, overlapped, at>>
    BY <1>5 DEF Move, Save, End, EndGame, Abort, Delete, protection, handlerVars
  <2>2. life' = life \/ \E l \in {"settling", "delete", "uncount"} : life' = [life EXCEPT ![o] = l]
    BY <1>5 DEF Move, Save, End, EndGame, Abort, Delete
  <2>3. QED
    BY <1>1, <2>1, <2>2
<1>6. ASSUME NEW o \in Objects, Uncount(o) PROVE GuardInv'
  <2>1. /\ total' = total - 1
        /\ UNCHANGED <<timer, guard, protected, refused, overlapped, at>>
        /\ life' = [life EXCEPT ![o] = IF total' <= 0 THEN "skip" ELSE "gone"]
    BY <1>6 DEF Uncount, Gone, protection, handlerVars
  <2>2. total' > 0 => (Waning' => Waning)
    BY <2>1 DEF Waning
  <2>3. QED
    BY <2>1, <2>2
<1>7. ASSUME NEW o \in Objects, Skip(o) PROVE GuardInv'
  <2>1. /\ Waning
        /\ timer' = IF timer = "nil" THEN "nil" ELSE "fired"
        /\ UNCHANGED <<total, guard, protected, refused, overlapped, at>>
    BY <1>7 DEF Skip, Gone, Waning, handlerVars
  <2>2. QED
    BY <2>1
<1>8. CASE Expire
  BY <1>8 DEF Expire
<1>9. CASE Guard
  <2>1. UNCHANGED <<total, at, life>>
    BY <1>9 DEF Guard, handlerVars, objectVars
  <2>2. CASE /\ guard = "enable" /\ guard' = "wait" /\ UNCHANGED timer
             /\ protected' = TRUE \/ refused' = TRUE
             /\ overlapped' = (overlapped /\ Waning)
    <3>1. Waning' <=> Waning
      BY <2>1, <2>2 DEF Waning
    <3>2. timer # "nil" /\ (~Waning => timer = "armed")
      BY <2>2 DEF Waning
    <3>3. QED
      BY <2>1, <2>2, <3>1, <3>2
  <2>3. CASE /\ guard = "wait" /\ timer = "fired" /\ guard' = "disable"
             /\ UNCHANGED <<protected, refused, timer, overlapped>>
    BY <2>1, <2>3 DEF Waning
  <2>4. CASE guard = "disable" /\ guard' = "clear" /\ UNCHANGED <<timer, overlapped>>
    BY <2>1, <2>4 DEF Waning
  <2>5. CASE guard = "clear" /\ guard' = "none" /\ timer' = "nil" /\ UNCHANGED overlapped
    BY <2>1, <2>5 DEF Waning
  <2>6. QED
    BY <1>9, <2>2, <2>3, <2>4, <2>5 DEF Guard
<1>10. CASE Crash
  BY <1>10 DEF Crash
<1>11. ASSUME NEW m \in MatchIds, AbortGame(m) PROVE GuardInv'
  BY <1>1, <1>11 DEF AbortGame, handlerVars, objectVars, protection
<1>12. CASE UNCHANGED vars
  BY <1>1, <1>12 DEF vars, handlerVars, objectVars, protection
<1>13. QED
  BY <1>2, <1>3, <1>4, <1>5, <1>6, <1>7, <1>8, <1>9, <1>10, <1>11, <1>12 DEF Next

LEMMA GuardInit == Init => GuardInv
BY DEF Init, GuardInv

(* A server that serves is protected, for any matches, handlers and        *)
(* crashes.                                                                *)
THEOREM ServingIsSafe == Spec => []ServingIsProtected
<1>1. ASSUME CountInv, GuardInv PROVE ServingIsProtected
  <2> SUFFICES ASSUME ~overlapped, ~refused, guard # "enable",
                      NEW m \in MatchIds, registered[m] # None,
                      \A h \in Handlers : at[h] \notin {"count", "protect"}
               PROVE  protected
    BY DEF ServingIsProtected
  <2>1. Counting = 0 /\ Registered # {}
    BY DEF Counting, Registered
  <2>2. total > 0
    BY <1>1, <2>1, FS_EmptySet, SetsAreFinite DEF CountInv, TotalIsRight
  <2>3. timer = "armed" /\ ~Waning
    BY <1>1, <2>2 DEF GuardInv
  <2>4. guard = "wait"
    BY <1>1, <2>3 DEF GuardInv, Waning, CountInv, OneInv, ServerInv, TypeOK
  <2>5. QED
    BY <1>1, <2>4 DEF GuardInv
<1>2. CountInv /\ GuardInv => ServingIsProtected
  BY <1>1
<1>3. CountInv => ServerInv
  BY DEF CountInv, OneInv
<1>4. QED
  BY CountInit, GuardInit, CountStep, GuardStep, <1>2, <1>3, PTL DEF Spec

(***************************************************************************)
(* The first resumption.                                                   *)
(***************************************************************************)

Owned(m) == {p \in Objects : owner[p] = m}

(* Until a match has had a second object, the ply of a saved state is its  *)
(* position, and so is that of the object: this is what makes the greatest *)
(* ply the latest state.                                                   *)
PlyIsPosition ==
  /\ \A m \in MatchIds : Owned(m) = {} => saved[m] = {}
  /\ \A m \in MatchIds, o \in Objects : Owned(m) = {o} =>
       /\ board[o].ply = board[o].pos
       /\ \A s \in saved[m] : s.ply = s.pos

LEMMA PositionInit == Init => PlyIsPosition
<1> SUFFICES ASSUME Init PROVE PlyIsPosition
  OBVIOUS
<1>1. \A m \in MatchIds : saved[m] = {} /\ Owned(m) = {}
  BY BoundsAssumption DEF Init, Owned
<1>2. QED
  BY <1>1 DEF PlyIsPosition

LEMMA PositionStep == ServerInv /\ PlyIsPosition /\ [Next]_vars => PlyIsPosition'
<1> SUFFICES ASSUME ServerInv, PlyIsPosition, [Next]_vars PROVE PlyIsPosition'
  OBVIOUS
<1> USE DEF ServerInv, TypeOK
<1>1. ASSUME UNCHANGED <<owner, board, saved>> PROVE PlyIsPosition'
  BY <1>1 DEF PlyIsPosition, Owned
<1>2. ASSUME NEW h \in Handlers, NEW o \in Objects, Create(h, o) PROVE PlyIsPosition'
  <2>1. PICK m \in MatchIds : m = on[h]
    BY <1>2 DEF Create
  <2>2. /\ owner[o] = NoMatch /\ owner' = [owner EXCEPT ![o] = m]
        /\ \A p \in Objects \ {o} : board'[p] = board[p]
        /\ saved' = saved
    BY <1>2, <2>1 DEF Create, Unborn, db
  <2>3. /\ \A n \in MatchIds \ {m} : Owned(n)' = Owned(n) /\ o \notin Owned(n)
        /\ Owned(m)' = Owned(m) \cup {o} /\ o \notin Owned(m)
    BY <2>2, BoundsAssumption DEF Owned
  <2>4. saved[m] = {} => board'[o] = NewBoard
    BY <1>2, <2>1 DEF Create, LastState
  <2>5. Owned(m) = {} => board'[o].ply = board'[o].pos
    BY <2>4 DEF PlyIsPosition, NewBoard
  <2>6. ASSUME NEW n \in MatchIds PROVE Owned(n)' = {} => saved'[n] = {}
    BY <2>2, <2>3 DEF PlyIsPosition
  <2>7. ASSUME NEW n \in MatchIds, NEW p \in Objects, Owned(n)' = {p}
        PROVE  board'[p].ply = board'[p].pos /\ \A s \in saved'[n] : s.ply = s.pos
    <3>1. CASE n = m
      <4>1. p = o /\ Owned(m) = {}
        BY <2>3, <2>7, <3>1
      <4>2. QED
        BY <2>2, <2>5, <3>1, <4>1 DEF PlyIsPosition
    <3>2. CASE n # m
      <4>1. p # o /\ Owned(n) = {p}
        BY <2>3, <2>7, <3>2
      <4>2. QED
        BY <2>2, <4>1 DEF PlyIsPosition
    <3>3. QED
      BY <3>1, <3>2
  <2>8. QED
    BY <2>6, <2>7 DEF PlyIsPosition
<1>3. ASSUME NEW o \in Objects, Move(o) PROVE PlyIsPosition'
  <2>1. /\ board' = [board EXCEPT ![o] = [ply |-> board[o].ply + 1, pos |-> board[o].pos + 1,
                                          unsaved |-> TRUE]]
        /\ UNCHANGED <<owner, saved>>
    BY <1>3 DEF Move, db
  <2>2. \A p \in Objects : board[p].ply = board[p].pos => board'[p].ply = board'[p].pos
    BY <2>1
  <2>3. QED
    BY <2>1, <2>2 DEF PlyIsPosition, Owned
<1>4. ASSUME NEW o \in Objects, Save(o) PROVE PlyIsPosition'
  <2>1. PICK m \in MatchIds : m = owner[o]
    BY <1>4 DEF Save
  <2>2. /\ owner' = owner
        /\ \A p \in Objects : board'[p].ply = board[p].ply /\ board'[p].pos = board[p].pos
    BY <1>4 DEF Save
  <2>3. \A n \in MatchIds : Owned(n)' = Owned(n)
    BY <2>2 DEF Owned
  <2>4. /\ \A n \in MatchIds \ {m} : saved'[n] = saved[n]
        /\ saved'[m] \subseteq saved[m] \cup {[ply |-> board[o].ply, pos |-> board[o].pos]}
    BY <1>4, <2>1 DEF Save
  <2>5. o \in Owned(m)
    BY <2>1 DEF Owned
  <2>6. ASSUME NEW n \in MatchIds PROVE Owned(n)' = {} => saved'[n] = {}
    BY <2>3, <2>4, <2>5 DEF PlyIsPosition
  <2>7. ASSUME NEW n \in MatchIds, NEW p \in Objects, Owned(n)' = {p}
        PROVE  board'[p].ply = board'[p].pos /\ \A s \in saved'[n] : s.ply = s.pos
    <3>1. Owned(n) = {p} /\ board[p].ply = board[p].pos /\ \A s \in saved[n] : s.ply = s.pos
      BY <2>3, <2>7 DEF PlyIsPosition
    <3>2. CASE n = m
      <4>1. p = o
        BY <2>5, <3>1, <3>2
      <4>2. QED
        BY <2>2, <2>4, <3>1, <3>2, <4>1
    <3>3. CASE n # m
      BY <2>2, <2>4, <3>1, <3>3
    <3>4. QED
      BY <3>2, <3>3
  <2>8. QED
    BY <2>6, <2>7 DEF PlyIsPosition
<1>5. ASSUME NEW h \in Handlers,
             Find(h) \/ Count(h) \/ Protect(h) \/ \E m \in MatchIds : Read(h, m)
      PROVE  PlyIsPosition'
  BY <1>1, <1>5 DEF Find, Count, Protect, Read, db, objectVars
<1>6. ASSUME NEW o \in Objects, End(o) \/ EndGame(o) \/ Abort(o) \/ Delete(o)
      PROVE  PlyIsPosition'
  BY <1>1, <1>6 DEF End, EndGame, Abort, Delete, db
<1>7. ASSUME UNCHANGED <<owner, saved>>,
              \A p \in Objects : board'[p] = board[p] \/ board'[p] = NewBoard
       PROVE  PlyIsPosition'
  <2>1. \A p \in Objects : board[p].ply = board[p].pos => board'[p].ply = board'[p].pos
    BY <1>7 DEF NewBoard
  <2>2. QED
    BY <1>7, <2>1 DEF PlyIsPosition, Owned
<1>8. ASSUME NEW o \in Objects, Uncount(o) \/ Skip(o) PROVE PlyIsPosition'
  BY <1>7, <1>8 DEF Uncount, Skip, Gone, db
<1>9. CASE Crash
  BY <1>7, <1>9 DEF Crash
<1>10. CASE Expire \/ Guard \/ \E m \in MatchIds : AbortGame(m)
  BY <1>1, <1>10 DEF Expire, Guard, AbortGame, db, objectVars
<1>11. CASE UNCHANGED vars
  BY <1>1, <1>11 DEF vars, db, objectVars
<1>12. QED
  BY <1>2, <1>3, <1>4, <1>5, <1>6, <1>8, <1>9, <1>10, <1>11 DEF Next

(* Only Create makes an object live.                                       *)
LEMMA CreatedByCreate ==
  ASSUME ServerInv, [Next]_vars, NEW o \in Objects, Created(o)
  PROVE  \E h \in Handlers : Create(h, o)
<1> USE DEF ServerInv, TypeOK, Created
<1>1. life' # life
  OBVIOUS
<1>2. ~Crash
  BY DEF Crash
<1>3. ~ \E p \in Objects : \/ Move(p) \/ Save(p) \/ End(p) \/ EndGame(p)
                           \/ Abort(p) \/ Delete(p) \/ Uncount(p) \/ Skip(p)
  <2> SUFFICES ASSUME NEW p \in Objects, \/ Move(p) \/ Save(p) \/ End(p) \/ EndGame(p)
                                         \/ Abort(p) \/ Delete(p) \/ Uncount(p) \/ Skip(p)
               PROVE  FALSE
    OBVIOUS
  <2>1. \/ life' = life
        \/ \E l \in Lives \ {"live"} : life' = [life EXCEPT ![p] = l]
    BY DEF Move, Save, End, EndGame, Abort, Delete, Uncount, Skip, Gone, Becomes, Lives
  <2>2. QED
    BY <1>1, <2>1
<1>4. PICK h \in Handlers, p \in Objects : Create(h, p)
  BY <1>1, <1>2, <1>3
     DEF Next, Read, Find, Count, Protect, AbortGame, Expire, Guard, vars, objectVars
<1>5. p = o
  BY <1>4 DEF Create
<1>6. QED
  BY <1>4, <1>5

(* A match loaded for the second time is at its last saved position.       *)
LEMMA SecondObjectIsLatest ==
  ASSUME ServerInv, PlyIsPosition, [Next]_vars, NEW o \in Objects, Created(o),
         saved[owner'[o]] # {},
         Cardinality({p \in Objects : owner[p] = owner'[o]}) = 1
  PROVE  \E s \in Furthest(owner'[o]) : board'[o].pos = s.pos
<1> USE DEF ServerInv, TypeOK
<1>1. PICK h \in Handlers : Create(h, o)
  BY CreatedByCreate
<1>2. PICK m \in MatchIds : m = on[h]
  BY <1>1 DEF Create
<1>3. owner'[o] = m
  BY <1>1, <1>2 DEF Create
<1>4. PICK s \in LastState(m) : board' = [board EXCEPT ![o] = [NewBoard EXCEPT !.pos = s.pos]]
  BY <1>1, <1>2, <1>3 DEF Create
<1>5. board'[o].pos = s.pos
  BY <1>4 DEF NewBoard
<1>6. PICK p \in Objects : Owned(m) = {p}
  <2>1. Owned(m) \in SUBSET Objects /\ Cardinality(Owned(m)) = 1
    BY <1>3 DEF Owned
  <2>2. IsFiniteSet(Owned(m))
    <3>1. IsFiniteSet(Objects)
      BY FS_Interval, BoundsAssumption DEF Objects
    <3>2. QED
      BY <2>1, <3>1, FS_Subset
  <2>3. QED
    BY <2>1, <2>2, FS_Singleton
<1>7. \A t \in saved[m] : t.ply = t.pos
  BY <1>6 DEF PlyIsPosition
<1>8. s \in Furthest(m)
  BY <1>4, <1>7 DEF LastState, Furthest
<1>9. QED
  BY <1>3, <1>5, <1>8

(* The first resumption of a match is from its last saved position,        *)
(* whichever saves failed and however often the server crashed.            *)
THEOREM FirstResume == Spec => FirstResumeIsLatest
<1>1. ServerInv /\ PlyIsPosition /\ [Next]_vars =>
        [\A o \in Objects :
           LET m == owner'[o] IN
           Created(o) /\ saved[m] # {}
             /\ Cardinality({p \in Objects : owner[p] = m}) = 1
             => \E s \in Furthest(m) : board'[o].pos = s.pos]_vars
  BY SecondObjectIsLatest
<1>2. QED
  BY ServerInit, ServerStep, PositionInit, PositionStep, <1>1, PTL DEF Spec, FirstResumeIsLatest
=============================================================================
