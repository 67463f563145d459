--------------------------- MODULE Platform_proofs ---------------------------
(***************************************************************************)
(* Proofs about the platform around the lessons, for every number of       *)
(* accounts, requests, families, streams, tabs and notices:                *)
(*   - Accounts: only overlapping requests anonymize a live account        *)
(*     (LiveAccountsKept);                                                 *)
(*   - Sessions: what was ended stays ended, but for a request that was    *)
(*     already deciding (EndedSessionsStayEnded);                          *)
(*   - ProgressStream: the end of a run is seen or mailed                  *)
(*     (EndReachesOwner);                                                  *)
(*   - CourseStream: a cabinet is out of date only while a message is on   *)
(*     its way to it or one went past it (NobodyForgotten);                *)
(*   - Mail: a notice the broker took is mailed, once, or dropped for a    *)
(*     reason (NoticesReachTheirOwner).                                    *)
(* Together with Media_proofs they hold of the composed instance: it is    *)
(* well formed (PlatformTypeCorrect) and keeps what its components promise *)
(* (PlatformKeepsItsPromises).                                             *)
(* Each component has an inductive invariant of named parts, one lemma per *)
(* action or group of actions that disturb the same parts, and the         *)
(* temporal theorem from those.                                            *)
(***************************************************************************)
EXTENDS MC_Platform, Media_proofs
-----------------------------------------------------------------------------
(* Accounts: only two requests with one account in hand at once can leave a *)
(* live account anonymized.                                                 *)

Mailbox == Addresses \cup {Tombstone}
CallPcs == {"idle", "registering", "signing", "linking", "ticket", "launching",
            "deleting?", "deleting", "restoring", "releasing?", "releasing",
            "changing?", "changing"}
Call == [pc : CallPcs, u : Accounts \cup {Nobody}, row : UserRow,
         addr : Mailbox, id : Identities \cup {Nobody}]

(* What a request knows from the step before: the address it was given, and *)
(* what the row said when it was loaded.                                    *)
SoundCall(k) ==
    /\ k.pc \in {"registering", "ticket", "changing?", "changing"} => k.addr \in Addresses
    /\ k.pc \in {"signing", "linking"} => k.id \in Identities
    /\ k.pc = "ticket" => k.id \in Identities
    /\ k.pc \in {"signing", "linking", "launching"} => Usable(k.row)
    /\ k.pc \in {"deleting", "changing"} => k.row.exists /\ ~k.row.deleted
    /\ k.pc = "restoring" => k.row.exists /\ ~Anonymized(k.row)
    /\ k.pc = "releasing" => k.row.exists /\ k.row.deleted
    /\ k.pc \in {"deleting?", "releasing?", "changing?"} => k.u \in Accounts
    /\ k.row.exists => k.u \in Accounts

Link == [kind : {"delete", "restore", "release", "change"}, u : Accounts,
         old : Mailbox, new : Mailbox]

AccountsTyped ==
    /\ user \in [Accounts -> UserRow]
    /\ identity \in [Identities -> Accounts \cup {Nobody}]
    /\ elapsed \subseteq Accounts /\ inFlight \subseteq Accounts
    /\ learning \subseteq Accounts /\ overlapped \subseteq Accounts
    /\ mails \subseteq Link
    /\ \A link \in mails : link.kind = "change" => link.new \in Addresses

CallsSound == caller \in [Callers -> Call] /\ \A c \in Callers : SoundCall(caller[c])

(* An account no two requests had in hand: at most one has, and what that   *)
(* one loaded is still what the row says.                                   *)
Has(c, u) == caller[c].u = u /\ caller[c].row.exists
OneHand ==
    \A u \in Accounts \ overlapped, c, d \in Callers : Has(c, u) /\ Has(d, u) => c = d
StillLoaded ==
    \A u \in Accounts \ overlapped, c \in Callers :
        Has(c, u) => /\ user[u] = caller[c].row
                     /\ caller[c].pc = "deleting" => u \notin inFlight

Harmless(loaded, flying) ==
    /\ loaded.exists /\ ~loaded.deleted => ~Anonymized(loaded) /\ loaded.active
    /\ loaded.exists /\ loaded.deleted => ~flying
LiveKept == \A u \in Accounts \ overlapped : Harmless(user[u], u \in inFlight)

AccountsInv == AccountsTyped /\ CallsSound /\ OneHand /\ StillLoaded /\ LiveKept

-----------------------------------------------------------------------------
(* A request that goes on with another call, and changes no account.        *)
LEMMA TurnKeeps ==
    ASSUME AccountsInv, NEW c \in Callers, NEW k \in Call, SoundCall(k), Turns(c, k),
           k.row.exists => k.row = user[k.u] /\ (k.pc = "deleting" => k.u \notin inFlight),
           UNCHANGED <<user, inFlight>>
    PROVE  /\ CallsSound' /\ OneHand' /\ StillLoaded' /\ LiveKept'
           /\ overlapped' \subseteq Accounts
<1>0. /\ AccountsTyped /\ CallsSound /\ OneHand /\ StillLoaded /\ LiveKept
  BY DEF AccountsInv
<1>1. /\ caller' = [caller EXCEPT ![c] = k]
      /\ overlapped \subseteq overlapped' /\ overlapped' \subseteq Accounts
      /\ \A u \in Accounts \ overlapped' : \A d \in Callers \ {c} :
            ~(k.u = u /\ k.row.exists /\ Has(d, u))
  BY <1>0 DEF Turns, AccountsTyped, Has
<1>2. /\ caller'[c] = k /\ \A d \in Callers \ {c} : caller'[d] = caller[d]
      /\ caller' \in [Callers -> Call]
  BY <1>0, <1>1 DEF CallsSound
<1>3. CallsSound'
  BY <1>0, <1>2 DEF CallsSound, SoundCall
<1>4. OneHand'
  BY <1>0, <1>1, <1>2 DEF OneHand, Has
<1>5. StillLoaded'
  BY <1>0, <1>1, <1>2 DEF StillLoaded, Has
<1>6. LiveKept'
  BY <1>0, <1>1 DEF LiveKept
<1> QED BY <1>1, <1>3, <1>4, <1>5, <1>6

(* The columns of a row.                                                    *)
LEMMA MergeRow ==
    ASSUME NEW loaded \in UserRow, NEW new \in UserRow, NEW current \in UserRow
    PROVE  /\ Merge(loaded, new, current) \in UserRow
           /\ Merge(loaded, new, loaded) = new
<1>1. DOMAIN new = {"exists", "email", "verified", "deleted", "active"}
  BY DEF UserRow
<1>2. \A f \in DOMAIN new : Merge(loaded, new, loaded)[f] = new[f]
  BY DEF Merge
<1>3. Merge(loaded, new, loaded) = [f \in DOMAIN new |-> new[f]]
  BY <1>2 DEF Merge
<1>4. new = [f \in DOMAIN new |-> new[f]]
  BY DEF UserRow
<1>5. Merge(loaded, new, current) =
         [exists |-> IF new.exists # loaded.exists THEN new.exists ELSE current.exists,
          email |-> IF new.email # loaded.email THEN new.email ELSE current.email,
          verified |-> IF new.verified # loaded.verified THEN new.verified ELSE current.verified,
          deleted |-> IF new.deleted # loaded.deleted THEN new.deleted ELSE current.deleted,
          active |-> IF new.active # loaded.active THEN new.active ELSE current.active]
  BY <1>1 DEF Merge
<1>6. Merge(loaded, new, current) \in UserRow
  BY <1>5 DEF UserRow
<1> QED BY <1>3, <1>4, <1>6

(* A request that writes the row it has in hand and is done.                *)
LEMMA WriteKeeps ==
    ASSUME AccountsInv, NEW c \in Callers, caller[c].row.exists,
           NEW new \in UserRow, Writes(c, new), Turns(c, NoCall),
           new.exists, caller[c].u \notin overlapped => Harmless(new, caller[c].u \in inFlight),
           UNCHANGED inFlight
    PROVE  /\ user' \in [Accounts -> UserRow]
           /\ CallsSound' /\ OneHand' /\ StillLoaded' /\ LiveKept'
           /\ overlapped' \subseteq Accounts
<1> DEFINE u == caller[c].u
           loaded == caller[c].row
<1>0. /\ AccountsTyped /\ CallsSound /\ OneHand /\ StillLoaded /\ LiveKept
      /\ u \in Accounts /\ loaded \in UserRow /\ user[u] \in UserRow
  BY DEF AccountsInv, CallsSound, SoundCall, Call, AccountsTyped
<1>1. ~NoCall.row.exists /\ NoCall \in Call /\ SoundCall(NoCall)
  BY DEF NoCall, NoUser, Call, CallPcs, UserRow, Mailbox, SoundCall
<1>2. /\ caller' = [caller EXCEPT ![c] = NoCall] /\ overlapped' = overlapped
  BY <1>1 DEF Turns
<1>3. /\ caller'[c] = NoCall /\ \A d \in Callers \ {c} : caller'[d] = caller[d]
      /\ caller' \in [Callers -> Call]
  BY <1>0, <1>1, <1>2 DEF CallsSound
<1> DEFINE next == Merge(loaded, new, user[u])
<1>4. user' = [user EXCEPT ![u] = next] /\ next \in UserRow
  BY <1>0, MergeRow DEF Writes
<1>5. u \notin overlapped => next = new
  <2>1. u \notin overlapped => user[u] = loaded
    BY <1>0 DEF StillLoaded, Has
  <2> QED BY <1>0, <2>1, MergeRow
<1> HIDE DEF next, u, loaded
<1>6. /\ user' \in [Accounts -> UserRow] /\ user'[u] = next
      /\ \A v \in Accounts \ {u} : user'[v] = user[v]
  BY <1>0, <1>4 DEF AccountsTyped
<1>7. CallsSound'
  BY <1>0, <1>1, <1>3 DEF CallsSound, SoundCall
<1>8. OneHand'
  BY <1>0, <1>1, <1>2, <1>3 DEF OneHand, Has
<1>9. StillLoaded'
  <2> SUFFICES ASSUME NEW v \in Accounts \ overlapped, NEW d \in Callers, Has(d, v)'
               PROVE  /\ user'[v] = caller'[d].row
                      /\ caller'[d].pc = "deleting" => v \notin inFlight'
    BY <1>2 DEF StillLoaded
  <2>1. d # c /\ Has(d, v) /\ caller'[d] = caller[d]
    BY <1>1, <1>3 DEF Has
  <2>2. Has(c, u)
    BY DEF Has, u
  <2>3. v # u
    BY <1>0, <2>1, <2>2 DEF OneHand
  <2> QED BY <1>0, <1>6, <2>1, <2>3 DEF StillLoaded
<1>10. LiveKept'
  <2> SUFFICES ASSUME NEW v \in Accounts \ overlapped
               PROVE  Harmless(user'[v], v \in inFlight)
    BY <1>2 DEF LiveKept
  <2>1. CASE v = u
    BY <1>5, <1>6, <2>1 DEF u
  <2>2. CASE v # u
    BY <1>0, <1>6, <2>2 DEF LiveKept
  <2> QED BY <2>1, <2>2
<1> QED BY <1>0, <1>2, <1>6, <1>7, <1>8, <1>9, <1>10 DEF AccountsTyped

(* A new account: nobody has it in hand, and its mailbox is a real one.     *)
LEMMA CreateKeeps ==
    ASSUME AccountsInv, NEW c \in Callers, NEW verified \in BOOLEAN,
           caller[c].addr \in Addresses, \E v \in Accounts : ~user[v].exists,
           NewUser(c, verified), Turns(c, NoCall), UNCHANGED inFlight
    PROVE  /\ user' \in [Accounts -> UserRow]
           /\ CallsSound' /\ OneHand' /\ StillLoaded' /\ LiveKept'
           /\ overlapped' \subseteq Accounts
<1> DEFINE u == CHOOSE v \in Accounts : ~user[v].exists
           new == [exists |-> TRUE, email |-> caller[c].addr, verified |-> verified,
                   deleted |-> FALSE, active |-> TRUE]
<1>0. /\ AccountsTyped /\ CallsSound /\ OneHand /\ StillLoaded /\ LiveKept
      /\ u \in Accounts /\ ~user[u].exists
  BY DEF AccountsInv
<1>1. ~NoCall.row.exists /\ NoCall \in Call /\ SoundCall(NoCall)
  BY DEF NoCall, NoUser, Call, CallPcs, UserRow, Mailbox, SoundCall
<1>2. /\ caller' = [caller EXCEPT ![c] = NoCall] /\ overlapped' = overlapped
  BY <1>1 DEF Turns
<1>3. /\ caller'[c] = NoCall /\ \A d \in Callers \ {c} : caller'[d] = caller[d]
      /\ caller' \in [Callers -> Call]
  BY <1>0, <1>1, <1>2 DEF CallsSound
<1>4. new \in UserRow /\ Harmless(new, u \in inFlight)
  BY AccountsAssumption DEF UserRow, Harmless, Anonymized
<1>5. user' = [user EXCEPT ![u] = new]
  BY DEF NewUser
<1> HIDE DEF u, new
<1>6. /\ user' \in [Accounts -> UserRow] /\ user'[u] = new
      /\ \A v \in Accounts \ {u} : user'[v] = user[v]
  BY <1>0, <1>4, <1>5 DEF AccountsTyped
<1>7. CallsSound'
  BY <1>0, <1>1, <1>3 DEF CallsSound, SoundCall
<1>8. OneHand'
  BY <1>0, <1>1, <1>2, <1>3 DEF OneHand, Has
<1>9. StillLoaded'
  <2> SUFFICES ASSUME NEW v \in Accounts \ overlapped, NEW d \in Callers, Has(d, v)'
               PROVE  /\ user'[v] = caller'[d].row
                      /\ caller'[d].pc = "deleting" => v \notin inFlight'
    BY <1>2 DEF StillLoaded
  <2>1. d # c /\ Has(d, v) /\ caller'[d] = caller[d]
    BY <1>1, <1>3 DEF Has
  <2>2. v # u
    BY <1>0, <2>1 DEF StillLoaded, Has
  <2> QED BY <1>0, <1>6, <2>1, <2>2 DEF StillLoaded
<1>10. LiveKept'
  BY <1>0, <1>2, <1>4, <1>6 DEF LiveKept
<1> QED BY <1>0, <1>2, <1>6, <1>7, <1>8, <1>9, <1>10 DEF AccountsTyped

(* A request without an account in hand, and one that has just loaded it.   *)
LEMMA DoingSound ==
    ASSUME AccountsTyped, NEW u \in Accounts \cup {Nobody}, NEW addr \in Mailbox,
           NEW id \in Identities \cup {Nobody}, NEW pc \in CallPcs
    PROVE  /\ Doing(pc, u, addr, id) \in Call
           /\ Doing(pc, u, addr, id).pc = pc /\ Doing(pc, u, addr, id).u = u
           /\ Doing(pc, u, addr, id).addr = addr /\ Doing(pc, u, addr, id).id = id
           /\ u = Nobody => ~Doing(pc, u, addr, id).row.exists
           /\ u # Nobody => u \in Accounts /\ Doing(pc, u, addr, id).row = user[u]
<1>1. NoUser \in UserRow /\ ~NoUser.exists
  BY DEF NoUser, UserRow
<1> QED BY <1>1 DEF Doing, Call, AccountsTyped

(* A free request hands nothing on.                                         *)
LEMMA NoCallSound ==
    NoCall \in Call /\ SoundCall(NoCall) /\ ~NoCall.row.exists /\ NoCall.pc = "idle"
  BY DEF NoCall, NoUser, Call, CallPcs, UserRow, Mailbox, SoundCall

(* A request that ends without a change.                                    *)
LEMMA EndKeeps ==
    ASSUME AccountsInv, NEW c \in Callers, Turns(c, NoCall), UNCHANGED <<user, inFlight>>
    PROVE  /\ CallsSound' /\ OneHand' /\ StillLoaded' /\ LiveKept'
           /\ overlapped' \subseteq Accounts
  BY NoCallSound, TurnKeeps

(* register and the social sign-in.                                         *)
LEMMA SignInKeeps ==
    ASSUME AccountsInv, NEW c \in Callers,
           \/ \E a \in Addresses : RegisterChecks(c, a)
           \/ RegisterInserts(c)
           \/ \E i \in Identities, a \in Addresses : OAuthResolves(c, i, a)
           \/ OAuthLinks(c) \/ OAuthCompletes(c)
    PROVE  AccountsInv'
<1>0. /\ AccountsTyped /\ caller[c] \in Call /\ SoundCall(caller[c])
      /\ \A d \in Callers : caller[d] \in Call
      /\ Addresses \subseteq Mailbox /\ Nobody \notin Accounts
  BY AccountsAssumption DEF AccountsInv, CallsSound, Mailbox
<1>1. ASSUME NEW a \in Addresses, RegisterChecks(c, a)
      PROVE  AccountsInv'
  <2> DEFINE k == Doing("registering", Nobody, a, Nobody)
  <2>1. /\ k \in Call /\ k.pc = "registering" /\ k.addr = a /\ ~k.row.exists
    BY <1>0, DoingSound DEF CallPcs
  <2>2. Turns(c, k) /\ UNCHANGED <<user, elapsed, identity, mails, inFlight, learning>>
    BY <1>1 DEF RegisterChecks
  <2> HIDE DEF k
  <2>3. SoundCall(k)
    BY <2>1 DEF SoundCall
  <2> QED BY <1>0, <2>1, <2>2, <2>3, TurnKeeps DEF AccountsInv, AccountsTyped
<1>2. CASE RegisterInserts(c)
  <2>1. CASE Fails(c)
    BY <1>0, <2>1, EndKeeps DEF Fails, AccountsInv, AccountsTyped
  <2>2. CASE ~Fails(c)
    <3>1. /\ caller[c].addr \in Addresses /\ \E v \in Accounts : ~user[v].exists
          /\ NewUser(c, FALSE) /\ Turns(c, NoCall)
          /\ UNCHANGED <<elapsed, identity, mails, inFlight, learning>>
      BY <1>0, <1>2, <2>2 DEF RegisterInserts, SoundCall
    <3> QED BY <1>0, <3>1, CreateKeeps DEF AccountsInv, AccountsTyped
  <2> QED BY <2>1, <2>2
<1>3. ASSUME NEW i \in Identities, NEW a \in Addresses, OAuthResolves(c, i, a)
      PROVE  AccountsInv'
  <2>0. UNCHANGED <<user, elapsed, identity, mails, inFlight, learning>>
    BY <1>3 DEF OAuthResolves
  <2>1. CASE Turns(c, Doing("ticket", Nobody, a, i))
    <3> DEFINE k == Doing("ticket", Nobody, a, i)
    <3>1. /\ k \in Call /\ k.pc = "ticket" /\ k.addr = a /\ k.id = i /\ ~k.row.exists
      BY <1>0, DoingSound DEF CallPcs
    <3>2. Turns(c, k)
      BY <2>1
    <3> HIDE DEF k
    <3>3. SoundCall(k)
      BY <3>1 DEF SoundCall
    <3> QED BY <1>0, <2>0, <3>1, <3>2, <3>3, TurnKeeps DEF AccountsInv, AccountsTyped
  <2>2. ASSUME NEW u \in Accounts, NEW pc \in {"signing", "linking"}, Usable(user[u]),
               Turns(c, Doing(pc, u, a, i))
        PROVE  AccountsInv'
    <3> DEFINE k == Doing(pc, u, a, i)
    <3>1. /\ k \in Call /\ k.pc = pc /\ k.u = u /\ k.row = user[u] /\ k.id = i
      BY <1>0, DoingSound DEF CallPcs
    <3>2. Turns(c, k)
      BY <2>2
    <3> HIDE DEF k
    <3>3. SoundCall(k)
      BY <2>2, <3>1 DEF SoundCall
    <3>4. k.pc # "deleting"
      BY <3>1
    <3> QED BY <1>0, <2>0, <3>1, <3>2, <3>3, <3>4, TurnKeeps DEF AccountsInv, AccountsTyped
  <2>3. \/ Turns(c, Doing("ticket", Nobody, a, i))
        \/ \E u \in Accounts, pc \in {"signing", "linking"} :
              Usable(user[u]) /\ Turns(c, Doing(pc, u, a, i))
    BY <1>0, <1>3 DEF OAuthResolves, Holders, AccountsTyped
  <2> QED BY <2>1, <2>2, <2>3
<1>4. CASE OAuthLinks(c)
  <2>1. CASE Fails(c)
    BY <1>0, <2>1, EndKeeps DEF Fails, AccountsInv, AccountsTyped
  <2>2. CASE ~Fails(c)
    <3> DEFINE loaded == caller[c].row
               u == caller[c].u
               new == IF caller[c].pc = "linking" THEN [loaded EXCEPT !.verified = TRUE] ELSE loaded
    <3>1. /\ Usable(loaded) /\ loaded \in UserRow /\ u \in Accounts /\ caller[c].id \in Identities
      BY <1>0, <1>4 DEF OAuthLinks, SoundCall, Usable, Call
    <3>2. /\ Writes(c, new) /\ Turns(c, NoCall)
          /\ identity' = [identity EXCEPT ![caller[c].id] = u]
          /\ UNCHANGED <<elapsed, mails, inFlight, learning>>
      BY <1>4, <2>2 DEF OAuthLinks
    <3>3. /\ new \in UserRow /\ new.exists /\ ~new.deleted /\ new.active /\ new.email = loaded.email
      BY <3>1 DEF UserRow, Usable
    <3>4. u \notin overlapped => loaded = user[u] /\ Harmless(loaded, u \in inFlight)
      BY <3>1 DEF AccountsInv, StillLoaded, LiveKept, Has, Usable
    <3>5. u \notin overlapped => Harmless(new, u \in inFlight)
      <4> HIDE DEF new, loaded, u
      <4> QED BY <3>1, <3>3, <3>4 DEF Harmless, Anonymized, Usable
    <3>6. loaded.exists
      BY <3>1 DEF Usable
    <3>7. identity' \in [Identities -> Accounts \cup {Nobody}]
      BY <1>0, <3>1, <3>2 DEF AccountsTyped
    <3> HIDE DEF new
    <3> QED BY <1>0, <3>2, <3>3, <3>5, <3>6, <3>7, WriteKeeps DEF AccountsInv, AccountsTyped
  <2> QED BY <2>1, <2>2
<1>5. CASE OAuthCompletes(c)
  <2>0. /\ caller[c].pc = "ticket" /\ caller[c].addr \in Addresses
        /\ caller[c].id \in Identities
        /\ UNCHANGED <<elapsed, mails, inFlight, learning>>
    BY <1>0, <1>5 DEF OAuthCompletes, SoundCall
  <2>1. CASE Turns(c, NoCall) /\ UNCHANGED <<user, identity>>
    BY <1>0, <2>0, <2>1, EndKeeps DEF AccountsInv, AccountsTyped
  <2>2. ASSUME NEW u \in Accounts, Usable(user[u]),
               Turns(c, Doing("linking", u, caller[c].addr, caller[c].id)),
               UNCHANGED <<user, identity>>
        PROVE  AccountsInv'
    <3> DEFINE k == Doing("linking", u, caller[c].addr, caller[c].id)
    <3>1. /\ k \in Call /\ k.pc = "linking" /\ k.u = u /\ k.row = user[u]
          /\ k.id = caller[c].id
      BY <1>0, <2>0, DoingSound DEF CallPcs
    <3>2. Turns(c, k)
      BY <2>2
    <3> HIDE DEF k
    <3>3. SoundCall(k) /\ k.pc # "deleting"
      BY <2>0, <2>2, <3>1 DEF SoundCall
    <3> QED BY <1>0, <2>0, <2>2, <3>1, <3>2, <3>3, TurnKeeps DEF AccountsInv, AccountsTyped
  <2>3. CASE /\ \E v \in Accounts : ~user[v].exists
             /\ NewUser(c, TRUE)
             /\ identity' = [identity EXCEPT ![caller[c].id] =
                                CHOOSE v \in Accounts : ~user[v].exists]
             /\ Turns(c, NoCall)
    <3>1. identity' \in [Identities -> Accounts \cup {Nobody}]
      BY <1>0, <2>0, <2>3 DEF AccountsTyped
    <3> QED BY <1>0, <2>0, <2>3, <3>1, CreateKeeps DEF AccountsInv, AccountsTyped
  <2>4. CASE Holders(caller[c].addr) # {}
    <3>1. PICK u \in Holders(caller[c].addr) :
              /\ Turns(c, IF Usable(user[u])
                          THEN Doing("linking", u, caller[c].addr, caller[c].id) ELSE NoCall)
              /\ UNCHANGED <<user, identity>>
      BY <1>5, <2>4 DEF OAuthCompletes
    <3> QED BY <2>1, <2>2, <3>1 DEF Holders
  <2> QED BY <1>5, <2>1, <2>3, <2>4 DEF OAuthCompletes
<1> QED BY <1>1, <1>2, <1>3, <1>4, <1>5

(* A request that has just loaded an account it may work on.                *)
LEMMA LoadKeeps ==
    ASSUME AccountsInv, NEW c \in Callers, NEW u \in Accounts, NEW addr \in Mailbox,
           NEW pc \in {"launching", "deleting", "restoring", "releasing", "changing"},
           user[u].exists,
           pc = "launching" => Usable(user[u]),
           pc \in {"deleting", "changing"} => ~user[u].deleted,
           pc = "restoring" => ~Anonymized(user[u]),
           pc = "releasing" => user[u].deleted,
           pc = "changing" => addr \in Addresses,
           pc = "deleting" => u \notin inFlight,
           Turns(c, Doing(pc, u, addr, Nobody)),
           UNCHANGED <<user, elapsed, identity, mails, inFlight, learning>>
    PROVE  AccountsInv'
<1> DEFINE k == Doing(pc, u, addr, Nobody)
<1>1. /\ k \in Call /\ k.pc = pc /\ k.u = u /\ k.addr = addr /\ k.row = user[u]
  BY DoingSound, AccountsAssumption DEF CallPcs, AccountsInv
<1>2. Turns(c, k)
  OBVIOUS
<1> HIDE DEF k
<1>3. SoundCall(k)
  BY <1>1 DEF SoundCall
<1> QED BY <1>1, <1>2, <1>3, TurnKeeps DEF AccountsInv, AccountsTyped

(* What the next step of a request may rely on.                             *)
LEMMA InHandFacts ==
    ASSUME AccountsInv, NEW c \in Callers, caller[c].row.exists
    PROVE  /\ caller[c].u \in Accounts /\ caller[c].row \in UserRow
           /\ caller[c].u \notin overlapped =>
                 /\ user[caller[c].u] = caller[c].row
                 /\ Harmless(caller[c].row, caller[c].u \in inFlight)
                 /\ caller[c].pc = "deleting" => caller[c].u \notin inFlight
  BY DEF AccountsInv, CallsSound, SoundCall, Call, StillLoaded, LiveKept, Has

(* A lesson is launched, and ends.                                          *)
LEMMA LaunchKeeps ==
    ASSUME AccountsInv, NEW c \in Callers,
           (\E u \in Accounts : LaunchLoads(c, u)) \/ LaunchCommits(c)
    PROVE  AccountsInv'
<1>0. /\ AccountsTyped /\ caller[c] \in Call /\ SoundCall(caller[c]) /\ Tombstone \in Mailbox
  BY DEF AccountsInv, CallsSound, Mailbox
<1>1. ASSUME NEW u \in Accounts, LaunchLoads(c, u)
      PROVE  AccountsInv'
  BY <1>0, <1>1, LoadKeeps DEF LaunchLoads, Usable
<1>2. CASE LaunchCommits(c)
  <2> DEFINE u == caller[c].u
  <2>0. /\ caller[c].pc = "launching" /\ Turns(c, NoCall)
        /\ UNCHANGED <<user, elapsed, identity, mails, learning>>
        /\ inFlight' = inFlight \/ inFlight' = inFlight \cup {u}
    BY <1>2 DEF LaunchCommits
  <2>1. /\ Usable(caller[c].row) /\ caller[c].row.exists /\ u \in Accounts
    BY <1>0, <2>0 DEF SoundCall, Usable
  <2>2. /\ CallsSound /\ OneHand /\ StillLoaded /\ LiveKept
    BY DEF AccountsInv
  <2>3. /\ caller' = [caller EXCEPT ![c] = NoCall] /\ overlapped' = overlapped
    BY <2>0, NoCallSound DEF Turns
  <2>4. /\ caller'[c] = NoCall /\ \A d \in Callers \ {c} : caller'[d] = caller[d]
        /\ caller' \in [Callers -> Call]
    BY <2>2, <2>3, NoCallSound DEF CallsSound
  <2>5. CallsSound' /\ OneHand'
    BY <2>2, <2>3, <2>4, NoCallSound DEF CallsSound, SoundCall, OneHand, Has
  <2>6. StillLoaded'
    <3> SUFFICES ASSUME NEW v \in Accounts \ overlapped, NEW d \in Callers, Has(d, v)'
                 PROVE  /\ user'[v] = caller'[d].row
                        /\ caller'[d].pc = "deleting" => v \notin inFlight'
      BY <2>3 DEF StillLoaded
    <3>1. d # c /\ Has(d, v) /\ caller'[d] = caller[d]
      BY <2>4, NoCallSound DEF Has
    <3>2. v # u
      BY <2>1, <2>2, <3>1 DEF OneHand, Has
    <3> HIDE DEF u
    <3> QED BY <2>0, <2>2, <3>1, <3>2 DEF StillLoaded
  <2>7. LiveKept'
    <3> SUFFICES ASSUME NEW v \in Accounts \ overlapped
                 PROVE  Harmless(user[v], v \in inFlight')
      BY <2>0, <2>3 DEF LiveKept
    <3>1. CASE v = u
      <4>1. user[v] = caller[c].row
        BY <2>1, <3>1, InHandFacts
      <4> QED BY <2>1, <2>2, <4>1 DEF Usable, Harmless, LiveKept
    <3>2. CASE v # u
      <4> HIDE DEF u
      <4>1. v \in inFlight' <=> v \in inFlight
        BY <2>0, <3>2
      <4> QED BY <2>2, <4>1 DEF LiveKept, Harmless
    <3> QED BY <3>1, <3>2
  <2>8. AccountsTyped'
    BY <1>0, <2>0, <2>1, <2>3 DEF AccountsTyped
  <2> QED BY <2>5, <2>6, <2>7, <2>8 DEF AccountsInv
<1> QED BY <1>1, <1>2

(* A confirmation burns its link before it looks at the account.            *)
LEMMA BurnKeeps ==
    ASSUME AccountsInv, NEW c \in Callers, NEW link \in mails,
           \/ link.kind = "delete" /\ Burns(c, link, "deleting?")
           \/ link.kind = "release" /\ Burns(c, link, "releasing?")
           \/ link.kind = "change" /\ Burns(c, link, "changing?")
    PROVE  AccountsInv'
<1>0. AccountsTyped /\ link \in Link /\ (link.kind = "change" => link.new \in Addresses)
  BY DEF AccountsInv, AccountsTyped
<1>1. PICK pc \in {"deleting?", "releasing?", "changing?"} :
          Burns(c, link, pc) /\ (pc = "changing?" => link.new \in Addresses)
  <2>1. CASE link.kind = "delete" /\ Burns(c, link, "deleting?")
    BY <2>1
  <2>2. CASE link.kind = "release" /\ Burns(c, link, "releasing?")
    BY <2>2
  <2>3. CASE link.kind = "change" /\ Burns(c, link, "changing?")
    BY <1>0, <2>3
  <2> QED BY <2>1, <2>2, <2>3
<1> DEFINE k == [NoCall EXCEPT !.pc = pc, !.u = link.u, !.addr = link.new,
                               !.row.email = link.old]
<1> DEFINE blank == [NoUser EXCEPT !.email = link.old]
<1>2. /\ k.pc = pc /\ k.u = link.u /\ k.row = blank /\ k.addr = link.new
      /\ blank \in UserRow => k \in Call
  <2>1. k = [NoCall EXCEPT !.pc = pc, !.u = link.u, !.addr = link.new, !.row = blank]
    <3>1. k = [NoCall EXCEPT !.pc = pc, !.u = link.u, !.addr = link.new,
                             !.row = [NoCall.row EXCEPT !.email = link.old]]
      OBVIOUS
    <3>2. NoCall.row = NoUser
      BY DEF NoCall
    <3> HIDE DEF k
    <3> QED BY <3>1, <3>2
  <2> HIDE DEF blank, k
  <2> QED BY <1>0, <1>1, <2>1 DEF NoCall, Call, CallPcs, Link
<1>3. blank \in UserRow /\ ~blank.exists
  BY <1>0 DEF NoUser, UserRow, Link, Mailbox
<1> HIDE DEF blank, k
<1>4. k \in Call /\ SoundCall(k) /\ ~k.row.exists
  BY <1>0, <1>1, <1>2, <1>3 DEF Call, CallPcs, SoundCall, Link
<1>5. /\ Turns(c, k) /\ mails' \subseteq mails
      /\ UNCHANGED <<user, elapsed, identity, inFlight, learning>>
  BY <1>1 DEF Burns, k
<1> QED BY <1>0, <1>4, <1>5, TurnKeeps DEF AccountsInv, AccountsTyped

(* Deletion, restore, release and change of the address: the request loads  *)
(* the account ...                                                          *)
LEMMA ConfirmLoads ==
    ASSUME AccountsInv, NEW c \in Callers,
           \/ DeletionLoads(c) \/ ReleaseLoads(c) \/ ChangeLoads(c)
           \/ \E u \in Accounts : RestoreLoads(c, u)
    PROVE  AccountsInv'
<1>0. /\ AccountsTyped /\ caller[c] \in Call /\ SoundCall(caller[c]) /\ Tombstone \in Mailbox
  BY DEF AccountsInv, CallsSound, Mailbox
<1>1. CASE Turns(c, NoCall)
           /\ UNCHANGED <<user, elapsed, identity, mails, inFlight, learning>>
  BY <1>0, <1>1, EndKeeps DEF AccountsInv, AccountsTyped
<1>2. CASE DeletionLoads(c)
  <2>1. caller[c].u \in Accounts
    BY <1>0, <1>2 DEF DeletionLoads, SoundCall
  <2>2. CASE Live(caller[c].u) /\ caller[c].u \notin inFlight
    BY <1>0, <1>2, <2>1, <2>2, LoadKeeps DEF DeletionLoads, Live
  <2> QED BY <1>1, <1>2, <2>2 DEF DeletionLoads
<1>3. CASE ReleaseLoads(c)
  <2>1. caller[c].u \in Accounts
    BY <1>0, <1>3 DEF ReleaseLoads, SoundCall
  <2>2. CASE Releasable(caller[c].u)
    BY <1>0, <1>3, <2>1, <2>2, LoadKeeps DEF ReleaseLoads, Releasable
  <2> QED BY <1>1, <1>3, <2>2 DEF ReleaseLoads
<1>4. CASE ChangeLoads(c)
  <2>1. caller[c].u \in Accounts /\ caller[c].addr \in Addresses /\ caller[c].addr \in Mailbox
    BY <1>0, <1>4 DEF ChangeLoads, SoundCall, Mailbox
  <2>2. CASE Live(caller[c].u) /\ Turns(c, Doing("changing", caller[c].u, caller[c].addr, Nobody))
    BY <1>0, <1>4, <2>1, <2>2, LoadKeeps DEF ChangeLoads, Live
  <2> QED BY <1>1, <1>4, <2>2 DEF ChangeLoads
<1>5. ASSUME NEW u \in Accounts, RestoreLoads(c, u)
      PROVE  AccountsInv'
  BY <1>0, <1>5, LoadKeeps DEF RestoreLoads
<1> QED BY <1>2, <1>3, <1>4, <1>5

(* ... and writes it.                                                       *)
LEMMA ConfirmCommits ==
    ASSUME AccountsInv, NEW c \in Callers,
           DeletionCommits(c) \/ RestoreCommits(c) \/ ReleaseCommits(c) \/ ChangeCommits(c)
    PROVE  AccountsInv'
<1> DEFINE u == caller[c].u
           loaded == caller[c].row
<1>0. /\ AccountsTyped /\ caller[c] \in Call /\ SoundCall(caller[c]) /\ Tombstone \in Mailbox
  BY DEF AccountsInv, CallsSound, Mailbox
<1>f. CASE Fails(c)
  BY <1>0, <1>f, EndKeeps DEF Fails, AccountsInv, AccountsTyped
<1>1. CASE DeletionCommits(c) /\ ~Fails(c)
  <2> DEFINE new == [loaded EXCEPT !.deleted = TRUE, !.active = FALSE]
  <2>1. /\ Writes(c, new) /\ Turns(c, NoCall) /\ elapsed' = elapsed \ {u}
        /\ mails' = mails \cup {Mail("restore", u, Tombstone, Tombstone)}
        /\ UNCHANGED <<identity, inFlight, learning>> /\ caller[c].pc = "deleting"
    BY <1>1 DEF DeletionCommits
  <2>2. loaded.exists /\ loaded \in UserRow /\ u \in Accounts
        /\ (u \notin overlapped => u \notin inFlight)
    BY <1>0, <2>1, InHandFacts DEF SoundCall
  <2>3. /\ new \in UserRow /\ new.exists /\ new.deleted
    BY <2>2 DEF UserRow
  <2>4. Mail("restore", u, Tombstone, Tombstone) \in Link
        /\ Mail("restore", u, Tombstone, Tombstone).kind # "change"
    BY <1>0, <2>2 DEF Mail, Link
  <2> HIDE DEF new
  <2>5. u \notin overlapped => Harmless(new, u \in inFlight)
    BY <2>2, <2>3 DEF Harmless
  <2>6. /\ user' \in [Accounts -> UserRow]
        /\ CallsSound' /\ OneHand' /\ StillLoaded' /\ LiveKept'
        /\ overlapped' \subseteq Accounts
    BY <2>1, <2>2, <2>3, <2>5, WriteKeeps
  <2> QED BY <1>0, <2>1, <2>4, <2>6 DEF AccountsInv, AccountsTyped
<1>2. CASE RestoreCommits(c) /\ ~Fails(c)
  <2> DEFINE new == [loaded EXCEPT !.deleted = FALSE, !.active = TRUE]
  <2>1. /\ Writes(c, new) /\ Turns(c, NoCall) /\ caller[c].pc = "restoring"
        /\ UNCHANGED <<elapsed, identity, mails, inFlight, learning>>
    BY <1>2 DEF RestoreCommits
  <2>2. loaded.exists /\ loaded \in UserRow /\ u \in Accounts /\ loaded.email # Tombstone
    BY <1>0, <2>1, InHandFacts DEF SoundCall, Anonymized
  <2>3. /\ new \in UserRow /\ new.exists /\ ~new.deleted /\ new.active
        /\ new.email = loaded.email
    BY <2>2 DEF UserRow
  <2> HIDE DEF new
  <2>5. Harmless(new, u \in inFlight)
    BY <2>2, <2>3 DEF Harmless, Anonymized
  <2>6. /\ user' \in [Accounts -> UserRow]
        /\ CallsSound' /\ OneHand' /\ StillLoaded' /\ LiveKept'
        /\ overlapped' \subseteq Accounts
    BY <2>1, <2>2, <2>3, <2>5, WriteKeeps
  <2> QED BY <1>0, <2>1, <2>6 DEF AccountsInv, AccountsTyped
<1>3. CASE ReleaseCommits(c) /\ ~Fails(c)
  <2> DEFINE new == Anonymous(loaded)
  <2>1. /\ Writes(c, new) /\ Turns(c, NoCall) /\ caller[c].pc = "releasing"
        /\ UNCHANGED <<elapsed, identity, mails, inFlight, learning>>
    BY <1>3 DEF ReleaseCommits
  <2>2. loaded.exists /\ loaded \in UserRow /\ u \in Accounts /\ loaded.deleted
        /\ (u \notin overlapped => Harmless(loaded, u \in inFlight))
    BY <1>0, <2>1, InHandFacts DEF SoundCall
  <2>3. /\ new \in UserRow /\ new.exists /\ new.deleted
    BY <2>2 DEF UserRow, Anonymous
  <2> HIDE DEF new
  <2>5. u \notin overlapped => Harmless(new, u \in inFlight)
    BY <2>2, <2>3 DEF Harmless
  <2>6. /\ user' \in [Accounts -> UserRow]
        /\ CallsSound' /\ OneHand' /\ StillLoaded' /\ LiveKept'
        /\ overlapped' \subseteq Accounts
    BY <2>1, <2>2, <2>3, <2>5, WriteKeeps
  <2> QED BY <1>0, <2>1, <2>6 DEF AccountsInv, AccountsTyped
<1>4. CASE ChangeCommits(c) /\ ~Fails(c)
  <2> DEFINE new == [loaded EXCEPT !.email = caller[c].addr, !.verified = TRUE]
  <2>1. /\ Writes(c, new) /\ Turns(c, NoCall) /\ caller[c].pc = "changing"
        /\ UNCHANGED <<elapsed, identity, mails, inFlight, learning>>
    BY <1>4 DEF ChangeCommits
  <2>2. loaded.exists /\ loaded \in UserRow /\ u \in Accounts /\ ~loaded.deleted
        /\ caller[c].addr \in Addresses
        /\ (u \notin overlapped => Harmless(loaded, u \in inFlight))
    BY <1>0, <2>1, InHandFacts DEF SoundCall
  <2>3. /\ new \in UserRow /\ new.exists /\ ~new.deleted /\ new.active = loaded.active
        /\ new.email = caller[c].addr
    BY <2>2 DEF UserRow
  <2> HIDE DEF new
  <2>5. u \notin overlapped => Harmless(new, u \in inFlight)
    BY <2>2, <2>3, AccountsAssumption DEF Harmless, Anonymized
  <2>6. /\ user' \in [Accounts -> UserRow]
        /\ CallsSound' /\ OneHand' /\ StillLoaded' /\ LiveKept'
        /\ overlapped' \subseteq Accounts
    BY <2>1, <2>2, <2>3, <2>5, WriteKeeps
  <2> QED BY <1>0, <2>1, <2>6 DEF AccountsInv, AccountsTyped
<1> QED BY <1>f, <1>1, <1>2, <1>3, <1>4

(* Steps without a request: links are mailed, time passes, a lesson ends,   *)
(* someone enrols.                                                          *)
LEMMA QuietKeeps ==
    ASSUME AccountsInv, NEW u \in Accounts,
           \/ LessonEnds(u) \/ Enrols(u) \/ RequestDeletion(u) \/ RequestRelease(u)
           \/ WindowElapses(u) \/ \E new \in Addresses : RequestChange(u, new)
    PROVE  AccountsInv'
<1>0. AccountsTyped /\ Tombstone \in Mailbox /\ Addresses \subseteq Mailbox
      /\ user[u].email \in Mailbox
  BY DEF AccountsInv, AccountsTyped, Mailbox, UserRow
<1>1. /\ UNCHANGED <<user, identity, caller, overlapped>>
      /\ inFlight' \subseteq inFlight
  BY DEF LessonEnds, Enrols, RequestDeletion, RequestRelease, WindowElapses, RequestChange
<1>2. mails' \subseteq Link /\ \A link \in mails' : link.kind = "change" => link.new \in Addresses
  <2>1. ASSUME NEW link \in Link, mails' = mails \cup {link},
               link.kind = "change" => link.new \in Addresses
        PROVE  <1>2
    BY <1>0, <2>1 DEF AccountsTyped
  <2>2. CASE RequestDeletion(u)
    <3>1. Mail("delete", u, Tombstone, Tombstone) \in Link
          /\ Mail("delete", u, Tombstone, Tombstone).kind # "change"
      BY <1>0 DEF Mail, Link
    <3> QED BY <2>1, <2>2, <3>1 DEF RequestDeletion
  <2>3. CASE RequestRelease(u)
    <3>1. Mail("release", u, Tombstone, Tombstone) \in Link
          /\ Mail("release", u, Tombstone, Tombstone).kind # "change"
      BY <1>0 DEF Mail, Link
    <3> QED BY <2>1, <2>3, <3>1 DEF RequestRelease
  <2>4. ASSUME NEW new \in Addresses, RequestChange(u, new)
        PROVE  <1>2
    <3>1. Mail("change", u, user[u].email, new) \in Link
          /\ Mail("change", u, user[u].email, new).new = new
      BY <1>0 DEF Mail, Link
    <3> QED BY <2>1, <2>4, <3>1 DEF RequestChange
  <2>5. CASE mails' = mails
    BY <1>0, <2>5 DEF AccountsTyped
  <2> QED BY <2>2, <2>3, <2>4, <2>5 DEF LessonEnds, Enrols, WindowElapses
<1>3. AccountsTyped'
  BY <1>0, <1>1, <1>2
  DEF AccountsTyped, LessonEnds, Enrols, RequestDeletion, RequestRelease, WindowElapses,
      RequestChange
<1>4. CallsSound' /\ OneHand'
  BY <1>1 DEF AccountsInv, CallsSound, OneHand, Has
<1>5. StillLoaded' /\ LiveKept'
  BY <1>1 DEF AccountsInv, StillLoaded, LiveKept, Has, Harmless
<1> QED BY <1>3, <1>4, <1>5 DEF AccountsInv

(* The purge, under its lock.                                               *)
LEMMA PurgeKeeps ==
    ASSUME AccountsInv, NEW u \in Accounts, PurgeUser(u)
    PROVE  AccountsInv'
<1>0. /\ AccountsTyped /\ CallsSound /\ OneHand /\ StillLoaded /\ LiveKept
  BY DEF AccountsInv
<1>1. /\ user[u].exists /\ user[u].deleted
      /\ UNCHANGED <<elapsed, mails, learning, caller>>
      /\ overlapped' = IF InHand(u) THEN overlapped \cup {u} ELSE overlapped
      /\ inFlight' \subseteq inFlight
  BY DEF PurgeUser, StillDue
<1>2. PICK next \in UserRow :
          /\ user' = [user EXCEPT ![u] = next]
          /\ next.exists => next.deleted
          /\ identity' \in [Identities -> Accounts \cup {Nobody}]
          /\ next.exists => inFlight' = inFlight
  <2>1. CASE u \in learning
    <3>1. Anonymous(user[u]) \in UserRow /\ Anonymous(user[u]).deleted
      BY <1>0, <1>1 DEF AccountsTyped, UserRow, Anonymous
    <3> QED BY <1>0, <2>1, <3>1 DEF PurgeUser, AccountsTyped
  <2>2. CASE u \notin learning
    <3>1. NoUser \in UserRow /\ ~NoUser.exists
      BY DEF NoUser, UserRow
    <3> QED BY <1>0, <2>2, <3>1 DEF PurgeUser, AccountsTyped
  <2> QED BY <2>1, <2>2
<1>3. /\ user' \in [Accounts -> UserRow] /\ user'[u] = next
      /\ \A v \in Accounts \ {u} : user'[v] = user[v]
      /\ overlapped' \subseteq Accounts /\ overlapped \subseteq overlapped'
  BY <1>0, <1>1, <1>2 DEF AccountsTyped
<1>4. AccountsTyped'
  BY <1>0, <1>1, <1>2, <1>3 DEF AccountsTyped
<1>5. CallsSound' /\ OneHand'
  BY <1>0, <1>1, <1>3 DEF CallsSound, OneHand, Has
<1>6. StillLoaded'
  <2> SUFFICES ASSUME NEW v \in Accounts \ overlapped', NEW d \in Callers, Has(d, v)
               PROVE  /\ user'[v] = caller[d].row
                      /\ caller[d].pc = "deleting" => v \notin inFlight'
    BY <1>1 DEF StillLoaded, Has
  <2>1. v # u
    BY <1>1 DEF InHand, Has
  <2> QED BY <1>0, <1>1, <1>3, <2>1 DEF StillLoaded
<1>7. LiveKept'
  <2> SUFFICES ASSUME NEW v \in Accounts \ overlapped'
               PROVE  Harmless(user'[v], v \in inFlight')
    BY DEF LiveKept
  <2>1. CASE v = u
    BY <1>0, <1>1, <1>2, <1>3, <2>1 DEF LiveKept, Harmless
  <2>2. CASE v # u
    BY <1>0, <1>1, <1>3, <2>2 DEF LiveKept, Harmless
  <2> QED BY <2>1, <2>2
<1> QED BY <1>4, <1>5, <1>6, <1>7 DEF AccountsInv

(* There is no account at first.                                            *)
LEMMA AccountsStart == AccountsInit => AccountsInv
<1> SUFFICES ASSUME AccountsInit PROVE AccountsInv
  OBVIOUS
<1>1. NoUser \in UserRow /\ ~NoUser.exists
  BY DEF NoUser, UserRow
<1>2. AccountsTyped
  BY <1>1 DEF AccountsInit, AccountsTyped
<1>3. CallsSound /\ OneHand /\ StillLoaded
  BY NoCallSound DEF AccountsInit, CallsSound, OneHand, StillLoaded, Has
<1>4. LiveKept
  BY <1>1 DEF AccountsInit, LiveKept, Harmless
<1> QED BY <1>2, <1>3, <1>4 DEF AccountsInv

(* Every step keeps the accounts nobody held twice.                         *)
LEMMA AccountsStep == AccountsInv /\ [AccountsNext]_accountVars => AccountsInv'
<1> SUFFICES ASSUME AccountsInv, [AccountsNext]_accountVars PROVE AccountsInv'
  OBVIOUS
<1>1. CASE SignInNext
  BY <1>1, SignInKeeps, BurnKeeps, ConfirmLoads, ConfirmCommits, QuietKeeps DEF SignInNext
<1>2. CASE LifecycleNext
  BY <1>2, LaunchKeeps, BurnKeeps, ConfirmLoads, ConfirmCommits, QuietKeeps, PurgeKeeps
  DEF LifecycleNext
<1>3. CASE UNCHANGED accountVars
  BY <1>3 DEF accountVars, AccountsInv, AccountsTyped, CallsSound, OneHand, StillLoaded,
              LiveKept, Has
<1> QED BY <1>1, <1>2, <1>3 DEF AccountsNext

(* "A live account must never be anonymized by a link that predates the     *)
(* restore" (account_service.py), and nothing is generated for a deleted       *)
(* account, for any number of accounts, requests and links, unless two      *)
(* requests had the account in hand at once.                                *)
THEOREM LiveAccountsKept == AccountsSpec => []OnlyOverlapsHarmLive
<1>1. AccountsInv => OnlyOverlapsHarmLive
  BY DEF AccountsInv, LiveKept, Harmless, OnlyOverlapsHarmLive, Live
<1> QED BY AccountsStart, AccountsStep, <1>1, PTL DEF AccountsSpec

(* Every row, caller and link the invariant describes is of its type.       *)
LEMMA AccountsAllTyped == AccountsInv => AccountsTypeOK
  BY DEF AccountsInv, AccountsTyped, AccountsTypeOK

(* Accounts, callers and links stay of their types.                         *)
LEMMA AccountsTypeCorrect == AccountsSpec => []AccountsTypeOK
  BY AccountsStart, AccountsStep, AccountsAllTyped, PTL DEF AccountsSpec


-----------------------------------------------------------------------------
(* Sessions: what was ended stays ended, but for a request that was already *)
(* deciding.                                                                *)

OnFamily == {"checking", "rotating", "burning", "leaving"}

SessionsTyped ==
    /\ family \in [Families -> Nat] /\ minted \in [Families -> Nat]
    /\ born \in [Families -> Nat] /\ password \in Nat
    /\ request \in [Requests -> Request]
    /\ \A r \in Requests : request[r].pc \in OnFamily => request[r].f \in Families
    /\ closed \subseteq Families /\ raced \subseteq Families

(* A family whose key is gone was closed, and a closed one was once open.   *)
ClosedIsRecorded ==
    \A f \in Families :
        /\ family[f] # 0 => minted[f] # 0
        /\ minted[f] # 0 /\ family[f] = 0 => f \in closed
        /\ f \in closed \/ Deciding(f) => minted[f] # 0

(* Without a race nobody is deciding on a closed family: no one can mint.   *)
ClosedStaysClosed ==
    \A f \in closed \ raced : family[f] = 0 /\ ~Deciding(f)

OldSessionsEnd ==
    \A f \in Families :
        family[f] # 0 /\ born[f] < password => f \in raced \/ interrupted \/ WipeAhead(f)

SessionsInv == SessionsTyped /\ ClosedIsRecorded /\ ClosedStaysClosed /\ OldSessionsEnd

(* A request that only goes on: it may begin to decide on an open family,   *)
(* and it gives up a wipe only when that is done or interrupted.            *)
LEMMA RequestMoves ==
    ASSUME SessionsInv, NEW r \in Requests, NEW k \in Request, Becomes(r, k),
           UNCHANGED <<family, minted, born, password, closed, raced>>,
           interrupted => interrupted',
           k.pc \in OnFamily => k.f \in Families,
           k.pc \in {"checking", "rotating"} =>
               \/ request[r].pc \in {"checking", "rotating"} /\ request[r].f = k.f
               \/ family[k.f] # 0,
           \/ request[r].pc \notin {"towipe", "wiping"}
           \/ interrupted'
           \/ request[r].pc = "wiping" /\ request[r].left = {}
           \/ k.pc = "wiping" /\ k.left = Open
    PROVE  SessionsInv'
<1>0. SessionsTyped /\ ClosedIsRecorded /\ ClosedStaysClosed /\ OldSessionsEnd
  BY DEF SessionsInv
<1>1. /\ request' \in [Requests -> Request] /\ request'[r] = k
      /\ \A q \in Requests \ {r} : request'[q] = request[q]
  BY <1>0 DEF Becomes, SessionsTyped
<1>2. SessionsTyped' /\ ClosedIsRecorded'
  BY <1>0, <1>1 DEF SessionsTyped, ClosedIsRecorded, Deciding, OnFamily
<1>3. ClosedStaysClosed'
  BY <1>0, <1>1 DEF ClosedStaysClosed, Deciding
<1>4. OldSessionsEnd'
  <2> SUFFICES ASSUME NEW f \in Families, family[f] # 0, born[f] < password,
                      f \notin raced, ~interrupted'
               PROVE  WipeAhead(f)'
    BY DEF OldSessionsEnd
  <2>1. PICK q \in Requests : \/ request[q].pc = "towipe"
                              \/ request[q].pc = "wiping" /\ f \in request[q].left
    BY <1>0 DEF OldSessionsEnd, WipeAhead
  <2>2. CASE q = r
    <3>1. k.pc = "wiping" /\ k.left = Open
      BY <2>1, <2>2
    <3>2. f \in k.left
      BY <3>1 DEF Open
    <3> QED BY <1>1, <3>1, <3>2 DEF WipeAhead
  <2>3. CASE q # r
    BY <1>1, <2>1, <2>3 DEF WipeAhead
  <2> QED BY <2>2, <2>3
<1> QED BY <1>2, <1>3, <1>4 DEF SessionsInv

(* A free request is one of the requests.                                   *)
LEMMA NoRequestSound == NoRequestYet \in Request /\ NoRequestYet.pc = "idle"
  BY DEF NoRequestYet, Request

(* A new password, whose request goes on to wipe.                           *)
LEMMA PasswordMoves ==
    ASSUME SessionsInv, NEW r \in Requests, NEW k \in Request, Becomes(r, k),
           UNCHANGED <<family, minted, born, closed, raced, interrupted>>,
           password' = password + 1, k.pc = "towipe"
    PROVE  SessionsInv'
<1>0. SessionsTyped /\ ClosedIsRecorded /\ ClosedStaysClosed
  BY DEF SessionsInv
<1>1. /\ request' \in [Requests -> Request] /\ request'[r] = k
      /\ \A q \in Requests \ {r} : request'[q] = request[q]
  BY <1>0 DEF Becomes, SessionsTyped
<1>2. SessionsTyped' /\ ClosedIsRecorded'
  BY <1>0, <1>1 DEF SessionsTyped, ClosedIsRecorded, OnFamily, Deciding
<1>3. ClosedStaysClosed'
  BY <1>0, <1>1 DEF ClosedStaysClosed, Deciding
<1>4. OldSessionsEnd'
  BY <1>1 DEF OldSessionsEnd, WipeAhead
<1> QED BY <1>2, <1>3, <1>4 DEF SessionsInv

(* A family key is deleted.  Only requests that were not wiping may end.    *)
LEMMA DropKeeps ==
    ASSUME SessionsInv, NEW f \in Families, NEW requests \in [Requests -> Request],
           \A r \in Requests : \/ requests[r] = request[r]
                               \/ /\ requests[r].pc = "idle"
                                  /\ request[r].pc \notin {"towipe", "wiping"},
           Drop(f, requests), UNCHANGED <<minted, born, password, interrupted>>
    PROVE  SessionsInv'
<1>0. SessionsTyped /\ ClosedIsRecorded /\ ClosedStaysClosed /\ OldSessionsEnd
  BY DEF SessionsInv
<1>1. /\ family' = [family EXCEPT ![f] = 0]
      /\ closed' = IF family[f] # 0 THEN closed \cup {f} ELSE closed
      /\ raced' = IF Deciding(f) THEN raced \cup {f} ELSE raced
      /\ request' = [r \in Requests |-> [requests[r] EXCEPT !.left = requests[r].left \ {f}]]
  BY DEF Drop
<1>2. /\ request' \in [Requests -> Request]
      /\ \A r \in Requests : /\ request'[r].pc = requests[r].pc
                             /\ request'[r].f = requests[r].f
                             /\ request'[r].left = requests[r].left \ {f}
  <2>1. \A r \in Requests :
          LET k == [requests[r] EXCEPT !.left = requests[r].left \ {f}]
          IN  /\ k \in Request /\ k.pc = requests[r].pc /\ k.f = requests[r].f
              /\ k.left = requests[r].left \ {f}
    BY DEF Request
  <2> QED BY <1>1, <2>1
<1>3. SessionsTyped'
  BY <1>0, <1>1, <1>2 DEF SessionsTyped, OnFamily
<1>4. ClosedIsRecorded'
  BY <1>0, <1>1, <1>2 DEF ClosedIsRecorded, SessionsTyped, Deciding
<1>5. ClosedStaysClosed'
  <2> SUFFICES ASSUME NEW g \in closed' \ raced'
               PROVE  family'[g] = 0 /\ ~Deciding(g)'
    BY DEF ClosedStaysClosed
  <2>1. Deciding(g)' => Deciding(g)
    BY <1>2 DEF Deciding
  <2>2. CASE g = f
    BY <1>0, <1>1, <2>1, <2>2 DEF SessionsTyped
  <2>3. CASE g # f
    BY <1>0, <1>1, <2>1, <2>3 DEF ClosedStaysClosed, SessionsTyped
  <2> QED BY <2>2, <2>3
<1>6. OldSessionsEnd'
  <2> SUFFICES ASSUME NEW g \in Families, family'[g] # 0, born[g] < password,
                      g \notin raced', ~interrupted
               PROVE  WipeAhead(g)'
    BY DEF OldSessionsEnd
  <2>1. g # f /\ family[g] # 0 /\ g \notin raced
    BY <1>0, <1>1 DEF SessionsTyped
  <2>2. WipeAhead(g)
    BY <1>0, <2>1 DEF OldSessionsEnd
  <2> QED BY <1>2, <2>1, <2>2 DEF WipeAhead
<1> QED BY <1>3, <1>4, <1>5, <1>6 DEF SessionsInv

(* A login's new family is one that was never used.                         *)
LEMMA IssueKeeps ==
    ASSUME SessionsInv, NEW r \in Requests, IssueSession(r)
    PROVE  SessionsInv'
<1> DEFINE f == CHOOSE g \in Families : minted[g] = 0
           k == request[r].pw
<1>0. /\ SessionsTyped /\ ClosedIsRecorded /\ ClosedStaysClosed /\ OldSessionsEnd
      /\ k \in Nat
  BY DEF SessionsInv, SessionsTyped, Request
<1>1. /\ request[r].pc = "issuing" /\ f \in Families /\ minted[f] = 0
      /\ family' = [family EXCEPT ![f] = 1] /\ minted' = [minted EXCEPT ![f] = 1]
      /\ born' = [born EXCEPT ![f] = k]
      /\ raced' = IF k # password THEN raced \cup {f} ELSE raced
      /\ request' = [request EXCEPT ![r] = NoRequestYet]
      /\ UNCHANGED <<password, closed, interrupted>>
  BY DEF IssueSession, Becomes
<1> HIDE DEF f, k
<1>2. /\ request' \in [Requests -> Request] /\ request'[r].pc = "idle"
      /\ \A q \in Requests \ {r} : request'[q] = request[q]
  BY <1>0, <1>1, NoRequestSound DEF SessionsTyped
<1>3. SessionsTyped' /\ ClosedIsRecorded'
  BY <1>0, <1>1, <1>2 DEF SessionsTyped, ClosedIsRecorded, OnFamily, Deciding
<1>4. f \notin closed
  BY <1>0, <1>1 DEF ClosedIsRecorded
<1>5. ClosedStaysClosed'
  BY <1>0, <1>1, <1>2, <1>4 DEF ClosedStaysClosed, Deciding, SessionsTyped
<1>6. OldSessionsEnd'
  <2> SUFFICES ASSUME NEW g \in Families, family'[g] # 0, born'[g] < password,
                      g \notin raced', ~interrupted
               PROVE  WipeAhead(g)'
    BY <1>1 DEF OldSessionsEnd
  <2>1. g # f
    BY <1>0, <1>1 DEF SessionsTyped
  <2>2. WipeAhead(g)
    BY <1>0, <1>1, <2>1 DEF OldSessionsEnd, SessionsTyped
  <2> QED BY <1>1, <1>2, <2>2 DEF WipeAhead
<1> QED BY <1>3, <1>5, <1>6 DEF SessionsInv

(* A rotation writes its jti whatever the key holds by now.                 *)
LEMMA MintKeeps ==
    ASSUME SessionsInv, NEW r \in Requests, RefreshMints(r)
    PROVE  SessionsInv'
<1> DEFINE f == request[r].f
<1>0. /\ SessionsTyped /\ ClosedIsRecorded /\ ClosedStaysClosed /\ OldSessionsEnd
  BY DEF SessionsInv
<1>1. /\ request[r].pc = "rotating" /\ f \in Families /\ Deciding(f)
      /\ minted' = [minted EXCEPT ![f] = minted[f] + 1]
      /\ family' = [family EXCEPT ![f] = minted'[f]]
      /\ request' = [request EXCEPT ![r] = NoRequestYet]
      /\ UNCHANGED <<born, password, closed, raced, interrupted>>
  BY <1>0 DEF RefreshMints, Becomes, SessionsTyped, OnFamily, Deciding
<1> HIDE DEF f
<1>2. /\ request' \in [Requests -> Request] /\ request'[r].pc = "idle"
      /\ \A q \in Requests \ {r} : request'[q] = request[q]
  BY <1>0, <1>1, NoRequestSound DEF SessionsTyped
<1>3. /\ minted'[f] = minted[f] + 1 /\ family'[f] = minted[f] + 1 /\ minted[f] \in Nat
      /\ \A g \in Families \ {f} : minted'[g] = minted[g] /\ family'[g] = family[g]
  BY <1>0, <1>1 DEF SessionsTyped
<1>4. SessionsTyped'
  BY <1>0, <1>1, <1>2, <1>3 DEF SessionsTyped, OnFamily
<1>4a. ClosedIsRecorded'
  BY <1>0, <1>1, <1>2, <1>3 DEF SessionsTyped, ClosedIsRecorded, Deciding
<1>5. f \notin closed \ raced
  BY <1>0, <1>1 DEF ClosedStaysClosed
<1>6. ClosedStaysClosed'
  BY <1>0, <1>1, <1>2, <1>3, <1>5 DEF ClosedStaysClosed, Deciding, SessionsTyped
<1>7. OldSessionsEnd'
  <2> SUFFICES ASSUME NEW g \in Families, family'[g] # 0, born[g] < password,
                      g \notin raced, ~interrupted
               PROVE  WipeAhead(g)'
    BY <1>1 DEF OldSessionsEnd
  <2>1. family[g] # 0
    <3>1. CASE g = f
      <4>1. f \notin closed
        BY <1>5, <3>1
      <4>2. minted[f] # 0
        BY <1>0, <1>1 DEF ClosedIsRecorded
      <4> QED BY <1>0, <1>1, <3>1, <4>1, <4>2 DEF ClosedIsRecorded
    <3>2. CASE g # f
      BY <1>3, <3>2
    <3> QED BY <3>1, <3>2
  <2>2. WipeAhead(g)
    BY <1>0, <2>1 DEF OldSessionsEnd
  <2> QED BY <1>1, <1>2, <2>2 DEF WipeAhead
<1> QED BY <1>4, <1>4a, <1>6, <1>7 DEF SessionsInv

(* Every request that only goes on.                                         *)
LEMMA StepMovesRequest ==
    ASSUME SessionsInv, NEW r \in Requests,
           \/ LoginChecks(r) \/ RefreshChecks(r) \/ PasswordChecks(r) \/ DeleteCommits(r)
           \/ RestoreSignsIn(r) \/ LogoutAll(r) \/ WipeStarts(r) \/ WipeEnds(r)
           \/ RequestDies(r)
           \/ \E f \in Families, jti \in 1..MaxMints : RefreshReads(r, f, jti)
           \/ \E f \in Families : Logout(r, f)
           \/ \E t \in ResetTokens : ResetLoads(r, t)
    PROVE  SessionsInv'
<1>0. SessionsTyped /\ request[r] \in Request /\ password \in Nat
      /\ (request[r].pc \in OnFamily => request[r].f \in Families)
  BY DEF SessionsInv, SessionsTyped
<1>1. CASE LoginChecks(r) \/ RestoreSignsIn(r)
  <2> DEFINE k == [NoRequestYet EXCEPT !.pc = "issuing", !.pw = password]
  <2>1. k \in Request /\ k.pc = "issuing"
    BY <1>0 DEF NoRequestYet, Request
  <2>2. /\ Becomes(r, k) /\ request[r].pc = "idle"
        /\ UNCHANGED <<family, minted, born, password, closed, raced, interrupted>>
    BY <1>1 DEF LoginChecks, RestoreSignsIn, Free
  <2> HIDE DEF k
  <2> QED BY <2>1, <2>2, RequestMoves DEF OnFamily
<1>2. CASE RefreshChecks(r)
  <2>1. PICK pc \in {"rotating", "burning"} :
            request' = [request EXCEPT ![r].pc = pc]
    BY <1>2 DEF RefreshChecks
  <2> DEFINE k == [request[r] EXCEPT !.pc = pc]
  <2>2. /\ k \in Request /\ k.pc = pc /\ k.f = request[r].f
        /\ request[r].pc = "checking" /\ k.f \in Families
    BY <1>0, <1>2, <2>1 DEF Request, RefreshChecks, OnFamily
  <2>3. Becomes(r, k) /\ UNCHANGED <<family, minted, born, password, closed, raced, interrupted>>
    BY <1>2, <2>1 DEF Becomes, RefreshChecks
  <2> HIDE DEF k
  <2> QED BY <2>2, <2>3, RequestMoves
<1>3. CASE PasswordChecks(r)
  <2> DEFINE k == [NoRequestYet EXCEPT !.pc = "changing", !.then = "issuing"]
  <2>1. k \in Request /\ k.pc = "changing"
    BY <1>0 DEF NoRequestYet, Request
  <2>2. /\ Becomes(r, k) /\ request[r].pc = "idle"
        /\ UNCHANGED <<family, minted, born, password, closed, raced, interrupted>>
    BY <1>3 DEF PasswordChecks, Free
  <2> HIDE DEF k
  <2> QED BY <2>1, <2>2, RequestMoves DEF OnFamily
<1>4. CASE DeleteCommits(r) \/ LogoutAll(r)
  <2> DEFINE k == [NoRequestYet EXCEPT !.pc = "towipe"]
  <2>1. k \in Request /\ k.pc = "towipe"
    BY <1>0 DEF NoRequestYet, Request
  <2>2. /\ Becomes(r, k) /\ request[r].pc = "idle"
        /\ UNCHANGED <<family, minted, born, password, closed, raced, interrupted>>
    BY <1>4 DEF DeleteCommits, LogoutAll, Free
  <2> HIDE DEF k
  <2> QED BY <2>1, <2>2, RequestMoves DEF OnFamily
<1>5. CASE WipeStarts(r)
  <2> DEFINE k == [request[r] EXCEPT !.pc = "wiping", !.left = Open]
  <2>1. k \in Request /\ k.pc = "wiping" /\ k.left = Open
    BY <1>0 DEF Request, Open
  <2>2. Becomes(r, k)
    BY <1>5 DEF WipeStarts, Becomes
  <2> HIDE DEF k
  <2> QED BY <1>5, <2>1, <2>2, RequestMoves DEF WipeStarts, OnFamily
<1>6. CASE WipeEnds(r)
  <2> DEFINE k == [NoRequestYet EXCEPT !.pc = request[r].then, !.pw = request[r].pw]
  <2>1. k \in Request /\ k.pc \in {"idle", "issuing"}
    BY <1>0 DEF Request, NoRequestYet
  <2>2. Becomes(r, k) /\ request[r].pc = "wiping" /\ request[r].left = {}
    BY <1>6 DEF WipeEnds, ScanDone
  <2> HIDE DEF k
  <2> QED BY <1>6, <2>1, <2>2, RequestMoves DEF WipeEnds, OnFamily
<1>7. CASE RequestDies(r)
  BY <1>7, NoRequestSound, RequestMoves DEF RequestDies, OnFamily
<1>8. ASSUME NEW f \in Families, NEW jti \in 1..MaxMints, RefreshReads(r, f, jti)
      PROVE  SessionsInv'
  <2>1. PICK pc \in {"checking", "burning"} :
            Becomes(r, [NoRequestYet EXCEPT !.f = f, !.pc = pc])
    BY <1>8 DEF RefreshReads
  <2> DEFINE k == [NoRequestYet EXCEPT !.f = f, !.pc = pc]
  <2>2. k \in Request /\ k.pc = pc /\ k.f = f
    BY <1>0, <2>1 DEF NoRequestYet, Request
  <2>3. Becomes(r, k) /\ family[f] # 0
    BY <1>8, <2>1 DEF RefreshReads, KeyFound
  <2> HIDE DEF k
  <2> QED BY <1>8, <2>2, <2>3, RequestMoves DEF RefreshReads, Free
<1>9. ASSUME NEW f \in Families, Logout(r, f)
      PROVE  SessionsInv'
  <2> DEFINE k == [NoRequestYet EXCEPT !.pc = "leaving", !.f = f]
  <2>1. k \in Request /\ k.pc = "leaving" /\ k.f = f
    BY <1>0 DEF NoRequestYet, Request
  <2>2. Becomes(r, k)
    BY <1>9 DEF Logout
  <2> HIDE DEF k
  <2> QED BY <1>9, <2>1, <2>2, RequestMoves DEF Logout, Free
<1>10. ASSUME NEW t \in ResetTokens, ResetLoads(r, t)
       PROVE  SessionsInv'
  <2> DEFINE k == [NoRequestYet EXCEPT !.pc = "resetting", !.tok = t]
  <2>1. k \in Request /\ k.pc = "resetting"
    BY <1>0 DEF NoRequestYet, Request
  <2>2. Becomes(r, k)
    BY <1>10 DEF ResetLoads
  <2> HIDE DEF k
  <2> QED BY <1>10, <2>1, <2>2, RequestMoves DEF ResetLoads, Free, OnFamily
<1> QED BY <1>1, <1>2, <1>3, <1>4, <1>5, <1>6, <1>7, <1>8, <1>9, <1>10

(* reset and change of the password.                                        *)
LEMMA StepSetsPassword ==
    ASSUME SessionsInv, NEW r \in Requests, ResetCommits(r) \/ PasswordCommits(r)
    PROVE  SessionsInv'
<1>0. SessionsTyped /\ request[r] \in Request /\ password \in Nat
  BY DEF SessionsInv, SessionsTyped
<1>1. CASE ResetCommits(r)
  <2> DEFINE k == [NoRequestYet EXCEPT !.pc = "towipe"]
  <2>1. k \in Request /\ k.pc = "towipe"
    BY DEF NoRequestYet, Request
  <2>2. Becomes(r, k)
    BY <1>1 DEF ResetCommits
  <2> HIDE DEF k
  <2> QED BY <1>1, <2>1, <2>2, PasswordMoves DEF ResetCommits
<1>2. CASE PasswordCommits(r)
  <2> DEFINE k == [request[r] EXCEPT !.pc = "towipe", !.pw = password']
  <2>0. password' \in Nat
    BY <1>0, <1>2 DEF PasswordCommits
  <2>1. k \in Request /\ k.pc = "towipe"
    BY <1>0, <2>0 DEF Request
  <2>2. Becomes(r, k)
    BY <1>2 DEF PasswordCommits, Becomes
  <2> HIDE DEF k
  <2> QED BY <1>2, <2>1, <2>2, PasswordMoves DEF PasswordCommits
<1> QED BY <1>1, <1>2

(* A burnt family, a logout and the wipe's deletions.                       *)
LEMMA StepDrops ==
    ASSUME SessionsInv, NEW r \in Requests,
           RefreshBurns(r) \/ LogoutDeletes(r) \/ WipeDeletes(r)
    PROVE  SessionsInv'
<1>0. SessionsTyped /\ request \in [Requests -> Request]
  BY DEF SessionsInv, SessionsTyped
<1>1. CASE RefreshBurns(r) \/ LogoutDeletes(r)
  <2> DEFINE requests == [request EXCEPT ![r] = NoRequestYet]
  <2>1. /\ requests \in [Requests -> Request]
        /\ \A q \in Requests : \/ requests[q] = request[q]
                               \/ requests[q].pc = "idle" /\ request[q].pc \notin {"towipe", "wiping"}
    BY <1>0, <1>1, NoRequestSound DEF RefreshBurns, LogoutDeletes
  <2>2. /\ request[r].f \in Families /\ Drop(request[r].f, requests)
        /\ UNCHANGED <<minted, born, password, interrupted>>
    BY <1>0, <1>1 DEF RefreshBurns, LogoutDeletes, SessionsTyped, OnFamily
  <2> HIDE DEF requests
  <2> QED BY <2>1, <2>2, DropKeeps
<1>2. CASE WipeDeletes(r)
  <2>1. PICK f \in Families : Drop(f, request)
    BY <1>2 DEF WipeDeletes, Open
  <2>2. UNCHANGED <<minted, born, password, interrupted>>
    BY <1>2 DEF WipeDeletes
  <2> QED BY <1>0, <2>1, <2>2, DropKeeps
<1> QED BY <1>1, <1>2

(* Nobody is signed in at first.                                            *)
LEMMA SessionsStart == SessionsInit => SessionsInv
<1> SUFFICES ASSUME SessionsInit PROVE SessionsInv
  OBVIOUS
<1>1. SessionsTyped
  BY NoRequestSound DEF SessionsInit, SessionsTyped, OnFamily
<1>2. ClosedIsRecorded /\ ClosedStaysClosed /\ OldSessionsEnd
  BY NoRequestSound
  DEF SessionsInit, ClosedIsRecorded, ClosedStaysClosed, OldSessionsEnd, Deciding
<1> QED BY <1>1, <1>2 DEF SessionsInv

(* Every step keeps what was ended ended.                                   *)
LEMMA SessionsStep == SessionsInv /\ [SessionsNext]_sessionVars => SessionsInv'
<1> SUFFICES ASSUME SessionsInv, [SessionsNext]_sessionVars PROVE SessionsInv'
  OBVIOUS
<1>1. CASE \/ UNCHANGED sessionVars
           \/ \E t \in ResetTokens : ForgotPassword(t)
  <2>1. UNCHANGED <<family, minted, born, password, closed, raced, interrupted, request>>
    BY <1>1 DEF sessionVars, ForgotPassword
  <2> QED BY <2>1 DEF SessionsInv, SessionsTyped, ClosedIsRecorded, ClosedStaysClosed,
                      OldSessionsEnd, Deciding, WipeAhead
<1>2. ASSUME NEW r \in Requests,
             \/ LoginChecks(r) \/ IssueSession(r)
             \/ \E f \in Families, jti \in 1..MaxMints : RefreshReads(r, f, jti)
             \/ RefreshChecks(r) \/ RefreshBurns(r) \/ RefreshMints(r)
             \/ \E f \in Families : Logout(r, f)
             \/ LogoutDeletes(r)
             \/ \E t \in ResetTokens : ResetLoads(r, t)
             \/ ResetCommits(r) \/ PasswordChecks(r) \/ PasswordCommits(r)
             \/ DeleteCommits(r) \/ RestoreSignsIn(r)
             \/ LogoutAll(r) \/ WipeStarts(r) \/ WipeDeletes(r) \/ WipeEnds(r)
             \/ RequestDies(r)
      PROVE  SessionsInv'
  BY <1>2, StepMovesRequest, StepSetsPassword, StepDrops, IssueKeeps, MintKeeps
<1> QED BY <1>1, <1>2 DEF SessionsNext

(* "Any stolen session dies" (services/auth_service.py): a session that was *)
(* ended stays ended, and a new password leaves none of the older ones, for *)
(* any number of families, requests and refreshes, unless a login or a      *)
(* refresh had read its state before the end came, or a wipe was cut short. *)
THEOREM EndedSessionsStayEnded == SessionsSpec => []OnlyRacesOutliveRevocation
<1>1. SessionsInv => OnlyRacesOutliveRevocation
  BY DEF SessionsInv, ClosedStaysClosed, OldSessionsEnd, OnlyRacesOutliveRevocation, Open
<1> QED BY SessionsStart, SessionsStep, <1>1, PTL DEF SessionsSpec

(* The bounds on what is counted, and the types of the rest.                *)
SessionsBounded ==
    /\ \A f \in Families : /\ minted[f] <= MaxMints /\ family[f] <= minted[f]
                           /\ born[f] <= MaxPasswords
    /\ password <= MaxPasswords
    /\ \A r \in Requests : request[r].pw <= MaxPasswords

SessionsRest ==
    /\ resetToken \in [ResetTokens -> {"none", "issued", "used"}]
    /\ active \in BOOLEAN /\ interrupted \in BOOLEAN /\ blacklisted \subseteq Families

(* Deleting a key takes nothing from a request but the key it would delete. *)
LEMMA DropBounded ==
    ASSUME SessionsTyped, SessionsBounded, NEW f \in Families, NEW requests,
           requests \in [Requests -> Request], Drop(f, requests),
           \A q \in Requests : requests[q].pw <= MaxPasswords,
           UNCHANGED <<minted, born, password>>
    PROVE  SessionsBounded'
<1>1. \A q \in Requests : request'[q].pw = requests[q].pw
  BY DEF Drop, Request
<1>2. \A g \in Families : family'[g] \in {0, family[g]} /\ family[g] \in Nat /\ minted[g] \in Nat
  BY DEF Drop, SessionsTyped
<1>3. \A g \in Families : family'[g] <= minted'[g]
  BY <1>2 DEF SessionsBounded
<1> QED BY <1>1, <1>3 DEF SessionsBounded

(* The steps that delete a key.                                             *)
LEMMA DropsBounded ==
    ASSUME SessionsTyped, SessionsBounded, MaxPasswords \in Nat, NEW r \in Requests,
           RefreshBurns(r) \/ LogoutDeletes(r) \/ WipeDeletes(r)
    PROVE  SessionsBounded'
<1>0. UNCHANGED <<minted, born, password>>
  BY DEF WipeDeletes, RefreshBurns, LogoutDeletes
<1>1. CASE WipeDeletes(r)
  <2>1. PICK f \in Families : Drop(f, request)
    BY <1>1 DEF WipeDeletes, Open
  <2>2. request \in [Requests -> Request] /\ \A q \in Requests : request[q].pw <= MaxPasswords
    BY DEF SessionsTyped, SessionsBounded
  <2> QED BY <1>0, <2>1, <2>2, DropBounded
<1>2. CASE RefreshBurns(r) \/ LogoutDeletes(r)
  <2> DEFINE requests == [request EXCEPT ![r] = NoRequestYet]
  <2>1. PICK f \in Families : Drop(f, requests)
    BY <1>2 DEF RefreshBurns, LogoutDeletes, SessionsTyped, OnFamily
  <2>2. /\ requests \in [Requests -> Request]
        /\ \A q \in Requests : requests[q] \in {NoRequestYet, request[q]}
    BY NoRequestSound DEF SessionsTyped
  <2>3. \A q \in Requests : requests[q].pw <= MaxPasswords
    <3> HIDE DEF requests
    <3> QED BY <2>2 DEF SessionsBounded, NoRequestYet
  <2> HIDE DEF requests
  <2> QED BY <1>0, <2>1, <2>2, <2>3, DropBounded
<1> QED BY <1>1, <1>2

(* The steps that mint a token.                                             *)
LEMMA MintsBounded ==
    ASSUME SessionsTyped, SessionsBounded, NEW r \in Requests, IssueSession(r) \/ RefreshMints(r)
    PROVE  SessionsBounded'
<1>0. MaxMints \in Nat \ {0} /\ MaxPasswords \in Nat
  BY SessionsAssumption
<1>1. UNCHANGED password /\ \A q \in Requests : request'[q].pw <= MaxPasswords
  <2>1. request' = [request EXCEPT ![r] = NoRequestYet] /\ UNCHANGED password
    BY DEF IssueSession, RefreshMints, Becomes
  <2>2. NoRequestYet.pw = 0 /\ request \in [Requests -> Request]
    BY DEF NoRequestYet, SessionsTyped
  <2>3. \A q \in Requests : request'[q] \in {NoRequestYet, request[q]}
    BY <2>1, <2>2
  <2> QED BY <1>0, <2>1, <2>2, <2>3 DEF SessionsBounded
<1>2. CASE IssueSession(r)
  <2>1. PICK f : /\ minted' = [minted EXCEPT ![f] = 1] /\ family' = [family EXCEPT ![f] = 1]
                 /\ born' = [born EXCEPT ![f] = request[r].pw]
    BY <1>2 DEF IssueSession
  <2>2. request[r].pw \in Nat /\ request[r].pw <= MaxPasswords
    BY <1>0 DEF SessionsTyped, SessionsBounded, Request
  <2>3. \A g \in Families : /\ minted'[g] <= MaxMints /\ family'[g] <= minted'[g]
                            /\ born'[g] <= MaxPasswords
    BY <1>0, <2>1, <2>2 DEF SessionsTyped, SessionsBounded
  <2> QED BY <1>1, <2>3 DEF SessionsBounded
<1>3. CASE RefreshMints(r)
  <2>1. PICK f : /\ f = request[r].f /\ minted[f] < MaxMints
                 /\ minted' = [minted EXCEPT ![f] = minted[f] + 1]
                 /\ family' = [family EXCEPT ![f] = minted'[f]] /\ UNCHANGED born
    BY <1>3 DEF RefreshMints
  <2>2. f \in Families
    BY <1>3, <2>1 DEF RefreshMints, SessionsTyped, OnFamily
  <2>3. \A g \in Families : minted'[g] <= MaxMints /\ family'[g] <= minted'[g]
    BY <1>0, <2>1, <2>2 DEF SessionsTyped, SessionsBounded
  <2> QED BY <1>1, <2>1, <2>3 DEF SessionsBounded
<1> QED BY <1>2, <1>3

(* The others: a request takes its password version from what it read.      *)
LEMMA QuietBounded ==
    ASSUME SessionsTyped, SessionsBounded, NEW r \in Requests,
           \/ LoginChecks(r) \/ \E f \in Families, jti \in 1..MaxMints : RefreshReads(r, f, jti)
           \/ RefreshChecks(r) \/ \E f \in Families : Logout(r, f)
           \/ \E t \in ResetTokens : ResetLoads(r, t)
           \/ ResetCommits(r) \/ PasswordChecks(r) \/ PasswordCommits(r)
           \/ DeleteCommits(r) \/ RestoreSignsIn(r)
           \/ LogoutAll(r) \/ WipeStarts(r) \/ WipeEnds(r) \/ RequestDies(r)
    PROVE  SessionsBounded'
<1>0. /\ MaxPasswords \in Nat /\ password \in Nat /\ password <= MaxPasswords
      /\ request \in [Requests -> Request]
      /\ \A q \in Requests : request[q].pw \in Nat /\ request[q].pw <= MaxPasswords
  BY SessionsAssumption DEF SessionsTyped, SessionsBounded, Request
<1>1. password' = password \/ (password < MaxPasswords /\ password' = password + 1)
  BY DEF LoginChecks, RefreshReads, RefreshChecks, Logout, ResetLoads, ResetCommits,
         PasswordChecks, PasswordCommits, DeleteCommits, RestoreSignsIn, LogoutAll,
         WipeStarts, WipeEnds, RequestDies
<1>2. password' \in Nat /\ password' <= MaxPasswords
  BY <1>0, <1>1
<1>3. UNCHANGED <<family, minted, born>>
  BY DEF LoginChecks, RefreshReads, RefreshChecks, Logout, ResetLoads, ResetCommits,
         PasswordChecks, PasswordCommits, DeleteCommits, RestoreSignsIn, LogoutAll,
         WipeStarts, WipeEnds, RequestDies
<1>4. \A q \in Requests : request'[q].pw \in {0, password, password', request[q].pw}
  <2>1. CASE \/ \E f \in Families, jti \in 1..MaxMints : RefreshReads(r, f, jti)
             \/ \E f \in Families : Logout(r, f)
             \/ \E t \in ResetTokens : ResetLoads(r, t)
             \/ PasswordChecks(r) \/ LoginChecks(r) \/ RestoreSignsIn(r)
    BY <1>0, <2>1 DEF LoginChecks, RefreshReads, Logout, ResetLoads, PasswordChecks,
                      RestoreSignsIn, NoRequestYet, Becomes
  <2>2. CASE ResetCommits(r) \/ DeleteCommits(r) \/ LogoutAll(r) \/ RequestDies(r)
    BY <1>0, <2>2 DEF ResetCommits, DeleteCommits, LogoutAll, RequestDies, NoRequestYet, Becomes
  <2>3. CASE RefreshChecks(r)
    BY <1>0, <2>3 DEF RefreshChecks, Request
  <2>4. CASE WipeStarts(r)
    BY <1>0, <2>4 DEF WipeStarts, Request
  <2>5. CASE PasswordCommits(r)
    BY <1>0, <2>5 DEF PasswordCommits, Request
  <2>6. CASE WipeEnds(r)
    BY <1>0, <2>6 DEF WipeEnds, NoRequestYet, Becomes
  <2> QED BY <2>1, <2>2, <2>3, <2>4, <2>5, <2>6
<1> QED BY <1>0, <1>2, <1>3, <1>4 DEF SessionsBounded

(* The types of the rest, step by step.                                     *)
LEMMA RestKept ==
    ASSUME SessionsTyped, SessionsRest, [SessionsNext]_sessionVars
    PROVE  SessionsRest'
<1> USE DEF SessionsNext, SessionsRest, sessionVars, ForgotPassword, LoginChecks, IssueSession,
            RefreshReads, RefreshChecks, RefreshBurns, RefreshMints, Logout, LogoutDeletes,
            ResetLoads, ResetCommits, PasswordChecks, PasswordCommits, DeleteCommits,
            RestoreSignsIn, LogoutAll, WipeStarts, WipeDeletes, WipeEnds, RequestDies
<1>1. resetToken' \in [ResetTokens -> {"none", "issued", "used"}]
  OBVIOUS
<1>2. active' \in BOOLEAN
  OBVIOUS
<1>3. interrupted' \in BOOLEAN
  OBVIOUS
<1>4. blacklisted' \subseteq Families
  OBVIOUS
<1> QED BY <1>1, <1>2, <1>3, <1>4

(* The invariant with its bounds, from the start and by every step.         *)
SessionsAll == SessionsInv /\ SessionsBounded /\ SessionsRest

(* It all holds at first,                                                   *)
LEMMA SessionsAllStart == SessionsInit => SessionsAll
<1> SUFFICES ASSUME SessionsInit PROVE SessionsBounded /\ SessionsRest
  BY SessionsStart DEF SessionsAll
<1>1. NoRequestYet.pw = 0
  BY DEF NoRequestYet
<1>2. SessionsBounded
  BY <1>1, SessionsAssumption DEF SessionsInit, SessionsBounded
<1>3. SessionsRest
  BY DEF SessionsInit, SessionsRest
<1> QED BY <1>2, <1>3

(* survives every step,                                                     *)
LEMMA SessionsAllStep == SessionsAll /\ [SessionsNext]_sessionVars => SessionsAll'
<1> SUFFICES ASSUME SessionsAll, [SessionsNext]_sessionVars PROVE SessionsAll'
  OBVIOUS
<1>0. /\ SessionsInv /\ SessionsBounded /\ SessionsRest /\ SessionsTyped
      /\ MaxPasswords \in Nat
  BY SessionsAssumption DEF SessionsAll, SessionsInv
<1>1. SessionsInv'
  BY <1>0, SessionsStep
<1>2. SessionsRest'
  BY <1>0, RestKept
<1>3. SessionsBounded'
  <2>1. CASE \/ UNCHANGED sessionVars
             \/ \E t \in ResetTokens : ForgotPassword(t)
    BY <1>0, <2>1 DEF sessionVars, ForgotPassword, SessionsBounded
  <2>2. ASSUME NEW r \in Requests,
               \/ LoginChecks(r) \/ IssueSession(r)
               \/ \E f \in Families, jti \in 1..MaxMints : RefreshReads(r, f, jti)
               \/ RefreshChecks(r) \/ RefreshBurns(r) \/ RefreshMints(r)
               \/ \E f \in Families : Logout(r, f)
               \/ LogoutDeletes(r)
               \/ \E t \in ResetTokens : ResetLoads(r, t)
               \/ ResetCommits(r) \/ PasswordChecks(r) \/ PasswordCommits(r)
               \/ DeleteCommits(r) \/ RestoreSignsIn(r)
               \/ LogoutAll(r) \/ WipeStarts(r) \/ WipeDeletes(r) \/ WipeEnds(r)
               \/ RequestDies(r)
        PROVE  SessionsBounded'
    BY <1>0, <2>2, DropsBounded, MintsBounded, QuietBounded
  <2> QED BY <2>1, <2>2 DEF SessionsNext
<1> QED BY <1>1, <1>2, <1>3 DEF SessionsAll

(* and says at least what the type invariant says.                          *)
LEMMA SessionsAllTyped == SessionsAll => SessionsTypeOK
<1> SUFFICES ASSUME SessionsAll PROVE SessionsTypeOK
  OBVIOUS
<1>1. SessionsTyped /\ SessionsBounded /\ SessionsRest /\ MaxMints \in Nat /\ MaxPasswords \in Nat
  BY SessionsAssumption DEF SessionsAll, SessionsInv
<1>2. \A f \in Families : family[f] \in 0..minted[f] /\ minted[f] \in 0..MaxMints
  BY <1>1 DEF SessionsTyped, SessionsBounded
<1>3. born \in [Families -> 0..MaxPasswords] /\ password \in 0..MaxPasswords
  BY <1>1 DEF SessionsTyped, SessionsBounded
<1>4. {active, interrupted} \subseteq BOOLEAN
  BY <1>1 DEF SessionsRest
<1> QED BY <1>1, <1>2, <1>3, <1>4 DEF SessionsTypeOK, SessionsTyped, SessionsRest

(* Sessions stay well formed and within their bounds.                       *)
LEMMA SessionsTypeCorrect == SessionsSpec => []SessionsTypeOK
  BY SessionsAllStart, SessionsAllStep, SessionsAllTyped, PTL DEF SessionsSpec


-----------------------------------------------------------------------------
(* Progress streams: an end is seen, or mailed.                             *)

JobState == [run : Nat, saved : BOOLEAN,
             pc : {"idle", "sent", "running", "ended", "notified"}]
ConnState == {"new", "read", "present", "live", "told", "replayed", "left", "lost", "gone"}

ProgressTyped ==
    /\ row \in [active : BOOLEAN, status : Terminal \cup {"draft", "processing"}]
    /\ job \in JobState /\ conn \in [Conns -> ConnState]
    /\ presence \subseteq Conns /\ streamFaults \in Nat

(* Whoever waits for an end that is past came late, or it was not told.     *)
HangingIsExcused == \A c \in Conns : Hanging(c) => c \in late \/ job.run \in hushed

(* The presence set names no one who left in order, and, but for faults,    *)
(* everyone who watches.                                                    *)
PresenceIsHonest ==
    /\ \A c \in presence : Watching(c) \/ conn[c] = "lost"
    /\ streamFaults = 0 => \A c \in Conns : Watching(c) => c \in presence

ProgressInv == ProgressTyped /\ HangingIsExcused /\ PresenceIsHonest

(* The job's own steps: an announced end leaves no stream waiting.          *)
LEMMA JobKeeps ==
    ASSUME ProgressInv, JobStep
    PROVE  ProgressInv'
<1> USE DEF ProgressInv, ProgressTyped, JobState, ConnState, Terminal, Hanging, Replays
<1>1. CASE SendJob
  BY <1>1 DEF SendJob, HangingIsExcused, PresenceIsHonest, Watching
<1>2. CASE SaveTaskId
  BY <1>2 DEF SaveTaskId, HangingIsExcused, PresenceIsHonest, Watching
<1>3. CASE JobStarts
  BY <1>3 DEF JobStarts, HangingIsExcused, PresenceIsHonest, Watching
<1>4. CASE EnqueueNotice
  BY <1>4 DEF EnqueueNotice, HangingIsExcused, PresenceIsHonest, Watching
<1>5. CASE PublishEnd
  <2>1. /\ conn' = ToldTheEnd /\ conn' \in [Conns -> ConnState]
        /\ \A c \in Conns : conn'[c] = IF conn[c] = "live" THEN "told" ELSE conn[c]
    BY <1>5 DEF PublishEnd, ToldTheEnd
  <2>2. ProgressTyped'
    BY <1>5, <2>1 DEF PublishEnd
  <2>3. HangingIsExcused'
    BY <2>1 DEF HangingIsExcused
  <2>4. PresenceIsHonest'
    BY <1>5, <2>1 DEF PublishEnd, PresenceIsHonest, Watching
  <2> QED BY <2>2, <2>3, <2>4
<1>6. ASSUME NEW status \in Terminal, End(status)
      PROVE  ProgressInv'
  <2>1. job'.pc # "idle" /\ job' \in JobState
    BY <1>6 DEF End
  <2>2. ProgressTyped'
    BY <1>6, <2>1 DEF End
  <2> QED BY <1>6, <2>1, <2>2 DEF End, HangingIsExcused, PresenceIsHonest, Watching
<1>7. CASE EndUnannounced
  BY <1>7 DEF EndUnannounced, HangingIsExcused, PresenceIsHonest, Watching
<1> QED BY <1>1, <1>2, <1>3, <1>4, <1>5, <1>6, <1>7 DEF JobStep

(* The streams' steps.                                                      *)
LEMMA StreamKeeps ==
    ASSUME ProgressInv, StreamStep
    PROVE  ProgressInv'
<1> PICK c \in Conns :
        \/ ReadRow(c) \/ TouchPresence(c) \/ Subscribe(c) \/ Heartbeat(c)
        \/ Leave(c) \/ Vanish(c) \/ AgeOut(c)
  BY DEF StreamStep
<1> USE DEF ProgressInv, ProgressTyped, ConnState, Hanging, Replays
<1>1. CASE ReadRow(c)
  BY <1>1 DEF ReadRow, HangingIsExcused, PresenceIsHonest, Watching
<1>2. CASE TouchPresence(c)
  BY <1>2 DEF TouchPresence, HangingIsExcused, PresenceIsHonest, Watching
<1>3. CASE Subscribe(c)
  BY <1>3 DEF Subscribe, HangingIsExcused, PresenceIsHonest, Watching
<1>4. CASE Heartbeat(c)
  BY <1>4 DEF Heartbeat, HangingIsExcused, PresenceIsHonest, Watching
<1>5. CASE Leave(c)
  BY <1>5 DEF Leave, HangingIsExcused, PresenceIsHonest, Watching
<1>6. CASE Vanish(c)
  BY <1>6 DEF Vanish, HangingIsExcused, PresenceIsHonest, Watching
<1>7. CASE AgeOut(c)
  BY <1>7 DEF AgeOut, HangingIsExcused, PresenceIsHonest, Watching
<1> QED BY <1>1, <1>2, <1>3, <1>4, <1>5, <1>6, <1>7

(* The notice's gate reads the presence set and changes no stream.          *)
LEMMA GateKeeps ==
    ASSUME ProgressInv, CheckPresence \/ CheckFailsOpen
    PROVE  ProgressInv'
<1>1. /\ UNCHANGED <<row, job, conn, presence, hushed, late>>
      /\ streamFaults' \in Nat /\ (streamFaults' = 0 => streamFaults = 0)
  BY DEF CheckPresence, CheckFailsOpen, Gate, ProgressInv, ProgressTyped
<1> QED BY <1>1 DEF ProgressInv, ProgressTyped, HangingIsExcused, PresenceIsHonest, Hanging,
                    Replays, Watching

(* No stream is open at first.                                              *)
LEMMA ProgressStart == ProgressInit => ProgressInv
  BY DEF ProgressInit, ProgressInv, ProgressTyped, HangingIsExcused, PresenceIsHonest, JobState,
         ConnState, Terminal, Hanging, Watching

(* Every step leaves nobody hanging without an excuse.                      *)
LEMMA ProgressStep == ProgressInv /\ [ProgressNext]_progressVars => ProgressInv'
<1>1. ProgressInv /\ ProgressNext => ProgressInv'
  BY JobKeeps, StreamKeeps, GateKeeps DEF ProgressNext
<1>2. ProgressInv /\ UNCHANGED progressVars => ProgressInv'
  BY DEF ProgressInv, ProgressTyped, HangingIsExcused, PresenceIsHonest, Hanging, Replays,
         Watching, progressVars
<1> QED BY <1>1, <1>2

(* The invariant holds from the start, whatever the task and the tabs do.   *)
LEMMA ProgressInvariant == ProgressSpec => []ProgressInv
  BY ProgressStart, ProgressStep, PTL DEF ProgressSpec

(* No stream waits for an end that was announced while it was listening,    *)
(* no notice is dropped but for someone who is or was watching, and while   *)
(* Redis answers none is mailed to somebody who is                          *)
(* (routers/lessons.py:741-887, tasks/video_pipeline.py:686-693).           *)
THEOREM EndReachesOwner == ProgressSpec => EndSeenOrMailed
<1> DEFINE Step == /\ \A c \in Conns : Hanging(c)' => c \in late' \/ job'.run \in hushed'
                   /\ noticeDropped' # noticeDropped =>
                        \E c \in Conns : Watching(c) \/ conn[c] = "lost"
                   /\ noticeSent' # noticeSent /\ streamFaults' = 0 =>
                        ~\E c \in Conns : Watching(c)
<1>1. ProgressInv /\ ProgressInv' /\ [ProgressNext]_progressVars => [Step]_progressVars
  <2> SUFFICES ASSUME ProgressInv, ProgressInv', ProgressNext
               PROVE  Step
    OBVIOUS
  <2>1. \A c \in Conns : Hanging(c)' => c \in late' \/ job'.run \in hushed'
    BY DEF ProgressInv, HangingIsExcused
  <2>2. CASE JobStep \/ StreamStep
    <3>1. UNCHANGED <<noticeDropped, noticeSent>>
      BY <2>2 DEF JobStep, StreamStep, SendJob, SaveTaskId, JobStarts, EnqueueNotice,
                  PublishEnd, End, EndUnannounced, ReadRow, TouchPresence, Subscribe,
                  Heartbeat, Leave, Vanish, AgeOut
    <3> QED BY <2>1, <3>1
  <2>3. CASE CheckPresence \/ CheckFailsOpen
    <3>1. noticeDropped' # noticeDropped => presence # {}
      BY <2>3 DEF CheckPresence, CheckFailsOpen, Gate
    <3>2. noticeSent' # noticeSent /\ streamFaults' = 0 => presence = {} /\ streamFaults = 0
      BY <2>3 DEF CheckPresence, CheckFailsOpen, Gate, ProgressInv, ProgressTyped
    <3>3. presence \subseteq Conns
      BY DEF ProgressInv, ProgressTyped
    <3> QED BY <2>1, <3>1, <3>2, <3>3 DEF ProgressInv, PresenceIsHonest
  <2> QED BY <2>2, <2>3 DEF ProgressNext
<1> QED BY <1>1, ProgressInvariant, PTL DEF ProgressSpec, EndSeenOrMailed

(* A run is counted before it is announced, noticed or hushed.              *)
RunsCounted ==
    /\ job.run <= MaxRuns /\ (job.pc # "idle" => job.run > 0)
    /\ notices \cup noticeSent \cup noticeDropped \cup hushed \subseteq Runs
    /\ late \subseteq Conns /\ streamFaults <= MaxStreamFaults

ProgressAll == ProgressInv /\ RunsCounted

(* At first no run was counted.                                             *)
LEMMA ProgressAllStart == ProgressInit => ProgressAll
<1> SUFFICES ASSUME ProgressInit PROVE RunsCounted
  BY ProgressStart DEF ProgressAll
<1> QED BY ProgressAssumption DEF ProgressInit, RunsCounted

(* A run is counted when it starts, and announced only afterwards.          *)
LEMMA ProgressAllStep == ProgressAll /\ [ProgressNext]_progressVars => ProgressAll'
<1> SUFFICES ASSUME ProgressAll, [ProgressNext]_progressVars PROVE ProgressAll'
  OBVIOUS
<1>0. /\ ProgressInv /\ RunsCounted /\ job \in JobState /\ job.run \in Nat /\ streamFaults \in Nat
      /\ MaxRuns \in Nat /\ MaxStreamFaults \in Nat
  BY ProgressAssumption DEF ProgressAll, ProgressInv, ProgressTyped, JobState
<1>1. ProgressInv'
  BY <1>0, ProgressStep
<1>2. RunsCounted'
  <2>1. CASE JobStep
    <3>1. /\ job'.run <= MaxRuns /\ (job'.pc # "idle" => job'.run > 0)
      BY <1>0, <2>1
      DEF JobStep, SendJob, SaveTaskId, JobStarts, EnqueueNotice, PublishEnd, End, EndUnannounced,
          JobState, RunsCounted
    <3>2. notices' \cup noticeSent' \cup noticeDropped' \cup hushed' \subseteq Runs
      BY <1>0, <2>1
      DEF JobStep, SendJob, SaveTaskId, JobStarts, EnqueueNotice, PublishEnd, End, EndUnannounced,
          JobState, RunsCounted, Runs
    <3>3. late' \subseteq Conns /\ streamFaults' <= MaxStreamFaults
      BY <1>0, <2>1
      DEF JobStep, SendJob, SaveTaskId, JobStarts, EnqueueNotice, PublishEnd, End, EndUnannounced,
          RunsCounted
    <3> QED BY <3>1, <3>2, <3>3 DEF RunsCounted, Runs
  <2>2. CASE StreamStep
    BY <1>0, <2>2
    DEF StreamStep, ReadRow, TouchPresence, Subscribe, Heartbeat, Leave, Vanish, AgeOut,
        RunsCounted, Runs
  <2>3. CASE CheckPresence \/ CheckFailsOpen
    BY <1>0, <2>3 DEF CheckPresence, CheckFailsOpen, Gate, RunsCounted, Runs
  <2>4. CASE UNCHANGED progressVars
    BY <1>0, <2>4 DEF progressVars, RunsCounted, Runs
  <2> QED BY <2>1, <2>2, <2>3, <2>4 DEF ProgressNext
<1> QED BY <1>1, <1>2 DEF ProgressAll

(* Together they type the stream.                                           *)
LEMMA ProgressAllTyped == ProgressAll => ProgressTypeOK
<1> SUFFICES ASSUME ProgressAll PROVE ProgressTypeOK
  OBVIOUS
<1>1. /\ ProgressTyped /\ RunsCounted /\ MaxRuns \in Nat /\ MaxStreamFaults \in Nat
  BY ProgressAssumption DEF ProgressAll, ProgressInv
<1>2. job.run \in 0..MaxRuns /\ streamFaults \in 0..MaxStreamFaults
  BY <1>1 DEF ProgressTyped, JobState, RunsCounted
<1> QED BY <1>1, <1>2 DEF ProgressTyped, JobState, ConnState, RunsCounted, ProgressTypeOK

(* A progress stream stays well formed and within its bounds.               *)
LEMMA ProgressTypeCorrect == ProgressSpec => []ProgressTypeOK
  BY ProgressAllStart, ProgressAllStep, ProgressAllTyped, PTL DEF ProgressSpec


-----------------------------------------------------------------------------
(* Course streams: a cabinet is out of date only while a message is on its  *)
(* way to it or one went past it.                                           *)

(* The type invariant in pieces.  That no more is waiting to be published   *)
(* than was changed bounds the one by the other.                            *)
ChangesTyped ==
    /\ granted \in 0..MaxAccessChanges /\ publishing \in 0..granted
    /\ hiccups \in 0..MaxHiccups
TabsTyped ==
    /\ tab \in [Tabs -> [pc : {"closed", "waiting", "open"},
                         shown : 0..MaxAccessChanges, owed : BOOLEAN]]
    /\ deaf \subseteq Tabs
QueuesTyped ==
    /\ Registered \subseteq Tabs /\ queues \in [Registered -> 0..QueueMax]
    /\ reader \in {"none", "connecting", "live", "waiting"}

(* The two halves of StaleOnlyIfDeaf.                                       *)
Reached(t) ==
    \/ publishing > 0 \/ tab[t].owed \/ t \in deaf
    \/ t \in Registered /\ queues[t] > 0
StaleReached == \A t \in Tabs : tab[t].shown < granted => Reached(t)
ReaderKept == (reader = "none") <=> (Registered = {})

(* Strengthening: a closed stream has left the registry, so that opening it *)
(* again discards no message.                                               *)
ClosedGone == \A t \in Registered : tab[t].pc # "closed"

StreamsInv ==
    /\ ChangesTyped /\ TabsTyped /\ QueuesTyped
    /\ StaleReached /\ ReaderKept /\ ClosedGone

(* A process that has just started keeps the registry in order.            *)
LEMMA StreamsInit == CourseStreamInit => StreamsInv
  BY CourseStreamAssumption
  DEF CourseStreamInit, StreamsInv, ChangesTyped, TabsTyped, QueuesTyped, StaleReached, ReaderKept,
      ClosedGone, Reached, Registered

(* Changes, publications and outages stay within their bounds.              *)
LEMMA CountsPreserved ==
    StreamsInv /\ [CourseStreamNext]_courseStreamVars => ChangesTyped'
  <1> SUFFICES ASSUME StreamsInv, [CourseStreamNext]_courseStreamVars
               PROVE  ChangesTyped'
    OBVIOUS
  <1>1. CASE ChangeAccess
    BY <1>1, CourseStreamAssumption DEF ChangeAccess, StreamsInv, ChangesTyped
  <1>2. CASE Publish
    BY <1>2, CourseStreamAssumption DEF Publish, StreamsInv, ChangesTyped
  <1>3. CASE ReaderSubscribes \/ ReaderLosesRedis \/ ReaderRetries \/ Shutdown
    BY <1>3, CourseStreamAssumption
    DEF ReaderSubscribes, ReaderLosesRedis, ReaderRetries, Shutdown, StreamsInv, ChangesTyped
  <1>4. CASE \E t \in Tabs : OpenStream(t) \/ Yields(t) \/ Relay(t) \/ Fetch(t)
                             \/ CloseStream(t)
    BY <1>4 DEF OpenStream, Yields, Relay, Fetch, CloseStream, StreamsInv, ChangesTyped
  <1>5. CASE UNCHANGED courseStreamVars
    BY <1>5 DEF courseStreamVars, StreamsInv, ChangesTyped
  <1>. QED
    BY <1>1, <1>2, <1>3, <1>4, <1>5 DEF CourseStreamNext

(* Tabs keep their shape, and only tabs are deaf.                           *)
LEMMA TabsPreserved ==
    StreamsInv /\ [CourseStreamNext]_courseStreamVars => TabsTyped'
  <1> SUFFICES ASSUME StreamsInv, [CourseStreamNext]_courseStreamVars
               PROVE  TabsTyped'
    OBVIOUS
  <1>1. CASE Publish
    BY <1>1 DEF Publish, StreamsInv, TabsTyped
  <1>2. CASE Shutdown
    BY <1>2 DEF Shutdown, StreamsInv, TabsTyped, QueuesTyped, Unread
  <1>3. CASE ChangeAccess \/ ReaderSubscribes \/ ReaderLosesRedis \/ ReaderRetries
    BY <1>3 DEF ChangeAccess, ReaderSubscribes, ReaderLosesRedis, ReaderRetries, StreamsInv,
                TabsTyped
  <1>4. ASSUME NEW t \in Tabs, OpenStream(t) \/ Yields(t) \/ Relay(t) \/ CloseStream(t)
        PROVE  TabsTyped'
    <2>1. CASE OpenStream(t)
      BY <2>1 DEF OpenStream, StreamsInv, TabsTyped
    <2>2. CASE Yields(t)
      BY <2>2 DEF Yields, StreamsInv, TabsTyped
    <2>3. CASE Relay(t)
      BY <2>3 DEF Relay, StreamsInv, TabsTyped
    <2>4. CASE CloseStream(t)
      BY <2>4 DEF CloseStream, StreamsInv, TabsTyped
    <2>. QED
      BY <1>4, <2>1, <2>2, <2>3, <2>4
  <1>5. ASSUME NEW t \in Tabs, Fetch(t)
        PROVE  TabsTyped'
    BY <1>5 DEF Fetch, StreamsInv, TabsTyped, ChangesTyped
  <1>6. CASE UNCHANGED courseStreamVars
    BY <1>6 DEF courseStreamVars, StreamsInv, TabsTyped
  <1>. QED
    BY <1>1, <1>2, <1>3, <1>4, <1>5, <1>6 DEF CourseStreamNext

(* The registry holds tabs and queues within their size.                    *)
LEMMA QueuesPreserved ==
    StreamsInv /\ [CourseStreamNext]_courseStreamVars => QueuesTyped'
  <1> SUFFICES ASSUME StreamsInv, [CourseStreamNext]_courseStreamVars
               PROVE  QueuesTyped'
    OBVIOUS
  <1>0. QueueMax \in Nat \ {0}
    BY CourseStreamAssumption
  <1>1. CASE Publish
    <2>1. CASE queues' = Dispatched
      BY <1>0, <1>1, <2>1 DEF Publish, Dispatched, StreamsInv, QueuesTyped, Registered
    <2>2. CASE queues' = queues
      BY <1>1, <2>2 DEF Publish, StreamsInv, QueuesTyped, Registered
    <2>. QED
      BY <1>1, <2>1, <2>2 DEF Publish
  <1>2. CASE ChangeAccess \/ ReaderSubscribes \/ ReaderLosesRedis \/ ReaderRetries
    BY <1>2 DEF ChangeAccess, ReaderSubscribes, ReaderLosesRedis, ReaderRetries, StreamsInv,
                QueuesTyped, Registered
  <1>3. CASE Shutdown
    BY <1>3 DEF Shutdown, StreamsInv, QueuesTyped, Registered
  <1>4. ASSUME NEW t \in Tabs, OpenStream(t)
        PROVE  QueuesTyped'
    BY <1>0, <1>4 DEF OpenStream, StreamsInv, QueuesTyped, Registered
  <1>5. ASSUME NEW t \in Tabs, Yields(t) \/ Fetch(t)
        PROVE  QueuesTyped'
    BY <1>5 DEF Yields, Fetch, StreamsInv, QueuesTyped, Registered
  <1>6. ASSUME NEW t \in Tabs, Relay(t)
        PROVE  QueuesTyped'
    <2>1. queues[t] - 1 \in 0..QueueMax
      BY <1>0, <1>6 DEF Relay, StreamsInv, QueuesTyped
    <2>. QED
      BY <1>6, <2>1 DEF Relay, StreamsInv, QueuesTyped, Registered
  <1>7. ASSUME NEW t \in Tabs, CloseStream(t)
        PROVE  QueuesTyped'
    BY <1>7 DEF CloseStream, Unregistered, StreamsInv, QueuesTyped, Registered
  <1>8. CASE UNCHANGED courseStreamVars
    BY <1>8 DEF courseStreamVars, StreamsInv, QueuesTyped, Registered
  <1>. QED
    BY <1>1, <1>2, <1>3, <1>4, <1>5, <1>6, <1>7, <1>8 DEF CourseStreamNext

(* Only opening registers a stream, and closing takes it out.               *)
LEMMA ClosedGonePreserved ==
    StreamsInv /\ [CourseStreamNext]_courseStreamVars => ClosedGone'
  <1> SUFFICES ASSUME StreamsInv, [CourseStreamNext]_courseStreamVars
               PROVE  ClosedGone'
    OBVIOUS
  <1>1. CASE Publish
    BY <1>1 DEF Publish, Dispatched, StreamsInv, ClosedGone, Registered
  <1>2. CASE ChangeAccess \/ ReaderSubscribes \/ ReaderLosesRedis \/ ReaderRetries
    BY <1>2 DEF ChangeAccess, ReaderSubscribes, ReaderLosesRedis, ReaderRetries, StreamsInv,
                ClosedGone, Registered
  <1>3. CASE Shutdown
    BY <1>3 DEF Shutdown, ClosedGone, Registered
  <1>4. ASSUME NEW t \in Tabs, OpenStream(t) \/ Yields(t)
        PROVE  ClosedGone'
    BY <1>4 DEF OpenStream, Yields, StreamsInv, ClosedGone, TabsTyped, QueuesTyped, Registered
  <1>5. ASSUME NEW t \in Tabs, Relay(t) \/ Fetch(t)
        PROVE  ClosedGone'
    BY <1>5 DEF Relay, Fetch, StreamsInv, ClosedGone, TabsTyped, QueuesTyped, Registered
  <1>6. ASSUME NEW t \in Tabs, CloseStream(t)
        PROVE  ClosedGone'
    BY <1>6 DEF CloseStream, Unregistered, StreamsInv, ClosedGone, TabsTyped, QueuesTyped,
                Registered
  <1>7. CASE UNCHANGED courseStreamVars
    BY <1>7 DEF courseStreamVars, StreamsInv, ClosedGone, Registered
  <1>. QED
    BY <1>1, <1>2, <1>3, <1>4, <1>5, <1>6, <1>7 DEF CourseStreamNext

(* The reader lives exactly as long as somebody is registered.              *)
LEMMA ReaderKeptPreserved ==
    StreamsInv /\ [CourseStreamNext]_courseStreamVars => ReaderKept'
  <1> SUFFICES ASSUME StreamsInv, [CourseStreamNext]_courseStreamVars
               PROVE  ReaderKept'
    OBVIOUS
  <1>1. CASE Publish
    BY <1>1 DEF Publish, Dispatched, StreamsInv, ReaderKept, Registered
  <1>2. CASE ChangeAccess \/ ReaderSubscribes \/ ReaderLosesRedis \/ ReaderRetries
    BY <1>2 DEF ChangeAccess, ReaderSubscribes, ReaderLosesRedis, ReaderRetries, StreamsInv,
                ReaderKept, Registered
  <1>3. CASE Shutdown
    BY <1>3 DEF Shutdown, ReaderKept, Registered
  <1>4. ASSUME NEW t \in Tabs, OpenStream(t)
        PROVE  ReaderKept'
    BY <1>4 DEF OpenStream, StreamsInv, ReaderKept, Registered
  <1>5. ASSUME NEW t \in Tabs, Yields(t) \/ Relay(t) \/ Fetch(t)
        PROVE  ReaderKept'
    BY <1>5 DEF Yields, Relay, Fetch, StreamsInv, ReaderKept, Registered
  <1>6. ASSUME NEW t \in Tabs, CloseStream(t)
        PROVE  ReaderKept'
    BY <1>6 DEF CloseStream, Unregistered, StreamsInv, ReaderKept, Registered
  <1>7. CASE UNCHANGED courseStreamVars
    BY <1>7 DEF courseStreamVars, StreamsInv, ReaderKept, Registered
  <1>. QED
    BY <1>1, <1>2, <1>3, <1>4, <1>5, <1>6, <1>7 DEF CourseStreamNext

(* Every way a message leaves the pipe puts the tab into `deaf`, or the     *)
(* list on the screen.                                                      *)
LEMMA StaleReachedPreserved ==
    StreamsInv /\ [CourseStreamNext]_courseStreamVars => StaleReached'
  <1> SUFFICES ASSUME StreamsInv, [CourseStreamNext]_courseStreamVars,
                      NEW u \in Tabs, (tab[u].shown < granted)'
               PROVE  Reached(u)'
    BY DEF StaleReached
  <1>0. QueueMax \in Nat \ {0} /\ publishing \in Nat
    BY CourseStreamAssumption DEF StreamsInv, ChangesTyped
  <1>1. CASE ChangeAccess
    BY <1>0, <1>1 DEF ChangeAccess, Reached
  <1>2. CASE Publish
    <2>1. CASE queues' = Dispatched /\ deaf' = deaf \cup (Tabs \ Registered)
      <3>1. CASE u \in Registered
        <4>1. queues[u] \in Nat
          BY <1>0, <3>1 DEF StreamsInv, QueuesTyped
        <4>. QED
          BY <1>0, <2>1, <3>1, <4>1 DEF Dispatched, Reached, Registered
      <3>. QED
        BY <2>1, <3>1 DEF Reached
    <2>2. CASE deaf' = Tabs
      BY <2>2 DEF Reached
    <2>. QED
      BY <1>2, <2>1, <2>2 DEF Publish
  <1>3. CASE ReaderSubscribes \/ ReaderLosesRedis \/ ReaderRetries
    BY <1>3 DEF ReaderSubscribes, ReaderLosesRedis, ReaderRetries, StreamsInv, StaleReached,
                Reached, Registered
  <1>4. CASE Shutdown
    BY <1>4 DEF Shutdown, Unread, StreamsInv, StaleReached, Reached, Registered
  <1>5. ASSUME NEW t \in Tabs, OpenStream(t)
        PROVE  Reached(u)'
    <2>1. /\ tab'[u].shown = tab[u].shown /\ tab'[u].owed = tab[u].owed
          /\ t \notin Registered
      BY <1>5 DEF OpenStream, StreamsInv, TabsTyped, ClosedGone
    <2>2. Reached(u)
      BY <1>5, <2>1 DEF OpenStream, StreamsInv, StaleReached
    <2>. QED
      BY <1>5, <2>1, <2>2 DEF OpenStream, Reached, Registered
  <1>6. ASSUME NEW t \in Tabs, Yields(t)
        PROVE  Reached(u)'
    BY <1>6 DEF Yields, StreamsInv, TabsTyped, StaleReached, Reached, Registered
  <1>7. ASSUME NEW t \in Tabs, Relay(t)
        PROVE  Reached(u)'
    <2>1. CASE u = t
      BY <1>7, <2>1 DEF Relay, StreamsInv, TabsTyped, Reached
    <2>2. CASE u # t
      BY <1>7, <2>2 DEF Relay, StreamsInv, TabsTyped, StaleReached, Reached, Registered
    <2>. QED
      BY <2>1, <2>2
  <1>8. ASSUME NEW t \in Tabs, Fetch(t)
        PROVE  Reached(u)'
    <2>1. u # t
      BY <1>8 DEF Fetch, StreamsInv, TabsTyped, ChangesTyped
    <2>. QED
      BY <1>8, <2>1 DEF Fetch, StreamsInv, TabsTyped, StaleReached, Reached, Registered
  <1>9. ASSUME NEW t \in Tabs, CloseStream(t)
        PROVE  Reached(u)'
    <2>1. tab'[u].shown = tab[u].shown /\ tab'[u].owed = tab[u].owed
      BY <1>9 DEF CloseStream, StreamsInv, TabsTyped
    <2>2. Reached(u)
      BY <1>9, <2>1 DEF CloseStream, StreamsInv, StaleReached
    <2>. QED
      BY <1>9, <2>1, <2>2 DEF CloseStream, Unregistered, Unread, Reached, Registered
  <1>10. CASE UNCHANGED courseStreamVars
    BY <1>10 DEF courseStreamVars, StreamsInv, StaleReached, Reached, Registered
  <1>. QED
    BY <1>1, <1>2, <1>3, <1>4, <1>5, <1>6, <1>7, <1>8, <1>9, <1>10 DEF CourseStreamNext

(* Every step keeps the registry in order.                                  *)
LEMMA StreamsStep == StreamsInv /\ [CourseStreamNext]_courseStreamVars => StreamsInv'
  BY CountsPreserved, TabsPreserved, QueuesPreserved, StaleReachedPreserved,
     ReaderKeptPreserved, ClosedGonePreserved DEF StreamsInv

(* The registry is in order for ever.                                       *)
LEMMA StreamsInvariant == CourseStreamSpec => []StreamsInv
  BY StreamsInit, StreamsStep, PTL DEF CourseStreamSpec

(* A cabinet whose list is out of date is about to hear of it, unless a     *)
(* change went past while it had no queue or the reader no subscription, or *)
(* its stream ended unread; and the reader lives exactly as long as a       *)
(* stream is registered (services/course_stream.py:50-150) - for every      *)
(* number of tabs, every queue size, every order of outages and shutdowns.  *)
THEOREM NobodyForgotten == CourseStreamSpec => []StaleOnlyIfDeaf
  <1>1. StreamsInv => StaleOnlyIfDeaf
    BY DEF StreamsInv, StaleReached, Reached, ReaderKept, StaleOnlyIfDeaf, Unread
  <1>. QED
    BY StreamsInvariant, <1>1, PTL

(* So is what the registry of streams keeps.                                *)
LEMMA StreamsAllTyped == StreamsInv => CourseStreamTypeOK
<1> SUFFICES ASSUME StreamsInv PROVE CourseStreamTypeOK
  OBVIOUS
<1>1. publishing \in 0..MaxAccessChanges
  BY CourseStreamAssumption DEF StreamsInv, ChangesTyped
<1> QED BY <1>1 DEF StreamsInv, ChangesTyped, TabsTyped, QueuesTyped, CourseStreamTypeOK

(* The course streams stay well formed.                                     *)
LEMMA StreamsTypeCorrect == CourseStreamSpec => []CourseStreamTypeOK
  BY StreamsInit, StreamsStep, StreamsAllTyped, PTL DEF CourseStreamSpec


-----------------------------------------------------------------------------
(* Mail: what the broker took is mailed or dropped for a reason, and mailed *)
(* once.                                                                    *)

TaskPcs == {"none", "queued", "wanted", "urgent", "digest", "marking", "done"}
TaskState == [pc : TaskPcs, about : Notices, tries : Nat]
MailState == [pc : {"none", "queued", "checked", "done"}, items : SUBSET Notices, tries : Nat]
FlushState == [pc : {"idle", "popped", "mailing"}, items : SUBSET Notices]

MailTyped ==
    /\ task \in [Tasks -> TaskState] /\ mail \in [Mails -> MailState]
    /\ \A m \in Mails : mail[m].pc = "none" => mail[m].items = {}
    /\ flush \in FlushState /\ (flush.pc = "idle" => flush.items = {})
    /\ digest \in Seq(Notices) /\ Len(digest) <= MaxItems
    /\ copies \in [Notices -> Nat]

InDigest(n) == n \in ToSet(digest)
InFlush(n) == n \in flush.items
InMail(m, n) == n \in mail[m].items /\ mail[m].pc # "done"
Carried(n) == InDigest(n) \/ InFlush(n) \/ \E m \in Mails : InMail(m, n)
Active(t, n) == task[t].about = n /\ task[t].pc \notin {"none", "done"}
At(t, n, pcs) == task[t].about = n /\ task[t].pc \in pcs

(* What is marked, or whose task is over, is on its way or accounted for.   *)
Delivered ==
    \A n \in Notices :
        n \in marks \/ (\E t \in Tasks : At(t, n, {"marking", "done"})) =>
            Carried(n) \/ copies[n] > 0 \/ n \in excused

(* Of an unshaken notice there is one task, and once it was handed on only  *)
(* the mark or the task that is about to set it; a task past the gate is    *)
(* therefore the first.                                                     *)
FirstOnly ==
    \A n \in Notices \ shaken :
        /\ \A t, u \in Tasks : Active(t, n) /\ Active(u, n) => t = u
        /\ Carried(n) \/ copies[n] > 0 =>
             n \in marks \/ \E t \in Tasks : At(t, n, {"marking"})
        /\ \A t \in Tasks : At(t, n, {"urgent", "digest"}) => n \notin marks

(* And it is in one place only.                                             *)
OnePlace ==
    \A n \in Notices \ shaken :
        /\ copies[n] > 0 => copies[n] = 1 /\ ~Carried(n)
        /\ InDigest(n) => ~InFlush(n)
        /\ InDigest(n) \/ InFlush(n) => \A m \in Mails : ~InMail(m, n)
        /\ \A m, o \in Mails : InMail(m, n) /\ InMail(o, n) => m = o

NoticesInv == MailTyped /\ Delivered /\ FirstOnly /\ OnePlace

(* An event is applied between its mark and its end, by one who saw no mark. *)
EventsInv ==
    /\ event \in [Events -> {"none", "due", "queued", "marked", "clearing", "unflagging", "done"}]
    /\ applied \in Seq(Events) /\ IsInjective(applied)
    /\ \A i \in 1..Len(applied) : applied[i] \in seen /\ event[applied[i]] # "marked"
    /\ \A e \in Events : event[e] = "marked" => e \in seen
    /\ ~crossing => flag = suppression

MailInv == NoticesInv /\ EventsInv

(* The invariant is what is promised.                                       *)
LEMMA MailInvSuffices == MailInv => MailAccountedFor
<1> SUFFICES ASSUME MailInv
             PROVE  MailAccountedFor
  OBVIOUS
<1>1. ASSUME NEW n \in Notices
      PROVE  /\ (\E t \in Tasks : task[t].about = n /\ task[t].pc # "none")
                   => Held(n) \/ copies[n] > 0 \/ n \in excused
             /\ copies[n] > 1 => n \in shaken
  <2>1. Carried(n) => Held(n)
    BY DEF Carried, Held, InDigest, InFlush, InMail
  <2>2. ASSUME NEW t \in Tasks, task[t].about = n, task[t].pc # "none"
        PROVE  Held(n) \/ copies[n] > 0 \/ n \in excused
    BY <2>1, <2>2 DEF MailInv, NoticesInv, Delivered, At, Held
  <2>3. copies[n] > 1 => n \in shaken
    BY DEF MailInv, NoticesInv, MailTyped, OnePlace
  <2> QED BY <2>2, <2>3
<1>2. NoticesAccountedFor
  BY <1>1 DEF NoticesAccountedFor
<1>3. BouncesCountOnce
  BY DEF MailInv, EventsInv, BouncesCountOnce
<1> QED BY <1>2, <1>3 DEF MailAccountedFor

-----------------------------------------------------------------------------
(* A task's step that hands nothing on.                                     *)
LEMMA TaskMoves ==
    ASSUME NoticesInv, NEW t \in Tasks, NEW k \in TaskState,
           task' = [task EXCEPT ![t] = k],
           UNCHANGED <<digest, flush, mail, copies>>,
           marks \subseteq marks', excused \subseteq excused', shaken \subseteq shaken',
           marks' \subseteq marks \cup {k.about},
           k.pc \in {"marking", "done"} =>
               \/ At(t, k.about, {"marking", "done"}) \/ k.about \in marks \cup excused',
           k.about \in marks' \ marks => At(t, k.about, {"marking"}),
           k.pc \notin {"none", "done"} =>
               \/ Active(t, k.about) \/ k.about \in shaken'
               \/ \A u \in Tasks : ~Active(u, k.about),
           task[t].pc = "marking" =>
               \/ k.pc = "marking" /\ k.about = task[t].about
               \/ task[t].about \in marks' \cup shaken',
           k.pc \in {"urgent", "digest"} => k.about \notin marks' \/ k.about \in shaken'
    PROVE  NoticesInv'
<1>0. MailTyped /\ Delivered /\ FirstOnly /\ OnePlace
  BY DEF NoticesInv
<1>1. /\ task' \in [Tasks -> TaskState] /\ task'[t] = k
      /\ \A u \in Tasks \ {t} : task'[u] = task[u]
  BY <1>0 DEF MailTyped
<1>2. MailTyped' /\ (\A n : Carried(n)' <=> Carried(n)) /\ OnePlace'
  BY <1>0, <1>1 DEF MailTyped, OnePlace, Carried, InDigest, InFlush, InMail
<1>3. Delivered'
  <2> SUFFICES ASSUME NEW n \in Notices,
                      n \in marks' \/ \E u \in Tasks : At(u, n, {"marking", "done"})'
               PROVE  Carried(n) \/ copies[n] > 0 \/ n \in excused'
    BY <1>2 DEF Delivered
  <2>1. CASE n \in excused'
    BY <2>1
  <2>2. CASE n \notin excused'
    <3>1. n \in marks \/ \E u \in Tasks : At(u, n, {"marking", "done"})
      BY <1>1, <2>2 DEF At
    <3> QED BY <1>0, <3>1 DEF Delivered
  <2> QED BY <2>1, <2>2
<1>4. FirstOnly'
  <2> SUFFICES ASSUME NEW n \in Notices \ shaken'
               PROVE  /\ \A v, u \in Tasks : Active(v, n)' /\ Active(u, n)' => v = u
                      /\ Carried(n)' \/ copies'[n] > 0 =>
                           n \in marks' \/ \E u \in Tasks : At(u, n, {"marking"})'
                      /\ \A u \in Tasks : At(u, n, {"urgent", "digest"})' => n \notin marks'
    BY DEF FirstOnly
  <2>0. n \in Notices \ shaken
    OBVIOUS
  <2>1. \A v, u \in Tasks : Active(v, n)' /\ Active(u, n)' => v = u
    BY <1>0, <1>1, <2>0 DEF FirstOnly, Active
  <2>2. Carried(n)' \/ copies'[n] > 0 => n \in marks' \/ \E u \in Tasks : At(u, n, {"marking"})'
    <3> SUFFICES ASSUME Carried(n) \/ copies[n] > 0, n \notin marks'
                 PROVE  \E u \in Tasks : At(u, n, {"marking"})'
      BY <1>2
    <3>1. PICK u \in Tasks : At(u, n, {"marking"})
      BY <1>0, <2>0 DEF FirstOnly
    <3> QED BY <1>1, <3>1 DEF At
  <2>3. ASSUME NEW u \in Tasks, At(u, n, {"urgent", "digest"})', n \in marks'
        PROVE  FALSE
    <3>1. u # t
      BY <1>1, <2>3 DEF At
    <3>2. At(u, n, {"urgent", "digest"}) /\ Active(u, n)
      BY <1>1, <2>3, <3>1 DEF At, Active
    <3>3. n \notin marks
      BY <1>0, <2>0, <3>2 DEF FirstOnly
    <3>4. n = k.about /\ At(t, n, {"marking"}) /\ Active(t, n)
      BY <2>3, <3>3 DEF At, Active
    <3> QED BY <1>0, <2>0, <3>1, <3>2, <3>4 DEF FirstOnly
  <2> QED BY <2>1, <2>2, <2>3
<1> QED BY <1>2, <1>3, <1>4 DEF NoticesInv

(* The steps of that kind.                                                  *)
LEMMA NotifyKeeps ==
    ASSUME NoticesInv, NEW t \in Tasks, NEW n \in Notices, Notify(t, n)
    PROVE  NoticesInv'
<1> DEFINE k == [NoTask EXCEPT !.pc = "queued", !.about = n]
<1>1. k \in TaskState /\ k.pc = "queued" /\ k.about = n
  <2>1. NoTask.tries = 0
    BY DEF NoTask
  <2> QED BY <2>1 DEF NoTask, TaskState, TaskPcs
<1>2. /\ task' = [task EXCEPT ![t] = k] /\ task[t].pc = "none"
      /\ UNCHANGED <<digest, flush, mail, copies, marks, excused>>
      /\ shaken' = IF \E u \in Tasks : Active(u, n) THEN shaken \cup {n} ELSE shaken
  BY DEF Notify, noticeVars, Active
<1> HIDE DEF k
<1> QED BY <1>1, <1>2, TaskMoves

(* A task looks up its recipient, and stops if no letter is wanted.         *)
LEMMA LooksUpKeeps ==
    ASSUME NoticesInv, NEW t \in Tasks, LooksUp(t)
    PROVE  NoticesInv'
<1> DEFINE n == task[t].about
           wanted == account.live /\ n.category \in account.wants
           k == [task[t] EXCEPT !.pc = IF wanted THEN "wanted" ELSE "done"]
<1>1. k \in TaskState /\ k.pc = (IF wanted THEN "wanted" ELSE "done") /\ k.about = n
  BY DEF NoticesInv, MailTyped, TaskState, TaskPcs
<1>2. /\ task' = [task EXCEPT ![t] = k] /\ task[t].pc = "queued"
      /\ UNCHANGED <<digest, flush, mail, copies, marks, shaken>>
      /\ excused' = IF wanted THEN excused ELSE excused \cup {n}
  BY DEF LooksUp
<1> HIDE DEF k, wanted
<1> QED BY <1>1, <1>2, TaskMoves DEF Active

(* The presence gate and the dedup check: on, or no letter.                  *)
LEMMA GatesKeeps ==
    ASSUME NoticesInv, NEW t \in Tasks, Gates(t)
    PROVE  NoticesInv'
<1> DEFINE n == task[t].about
           watched == redisUp /\ n.gated /\ account.watching
           again == redisUp /\ n \in marks
           k == [task[t] EXCEPT !.pc = IF watched \/ again THEN "done" ELSE n.kind]
<1>0. n \in Notices /\ n.kind \in {"urgent", "digest"}
  BY MailAssumption DEF NoticesInv, MailTyped, TaskState
<1>1. k \in TaskState /\ k.pc = (IF watched \/ again THEN "done" ELSE n.kind) /\ k.about = n
  BY <1>0 DEF NoticesInv, MailTyped, TaskState, TaskPcs
<1>2. /\ task' = [task EXCEPT ![t] = k] /\ task[t].pc = "wanted"
      /\ UNCHANGED <<digest, flush, mail, copies, marks>>
      /\ excused' = IF watched THEN excused \cup {n} ELSE excused
      /\ shaken' = IF redisUp THEN shaken ELSE shaken \cup {n}
  BY DEF Gates
<1>3. again => redisUp /\ n \in marks
  OBVIOUS
<1>4. ~again => ~redisUp \/ n \notin marks
  OBVIOUS
<1> HIDE DEF k, watched, again
<1> QED BY <1>0, <1>1, <1>2, <1>3, <1>4, TaskMoves DEF Active

(* The task marks its notice as sent, if Redis is up.                        *)
LEMMA MarksSentKeeps ==
    ASSUME NoticesInv, NEW t \in Tasks, MarksSent(t)
    PROVE  NoticesInv'
<1> DEFINE n == task[t].about
           k == [task[t] EXCEPT !.pc = "done"]
<1>1. k \in TaskState /\ k.pc = "done" /\ k.about = n
  BY DEF NoticesInv, MailTyped, TaskState, TaskPcs
<1>2. /\ task' = [task EXCEPT ![t] = k] /\ task[t].pc = "marking"
      /\ UNCHANGED <<digest, flush, mail, copies, excused>>
      /\ marks' = IF redisUp THEN marks \cup {n} ELSE marks
      /\ shaken' = IF redisUp THEN shaken ELSE shaken \cup {n}
  BY DEF MarksSent
<1> HIDE DEF k
<1> QED BY <1>1, <1>2, TaskMoves DEF Active, At

(* A task dies with its worker, and its message is delivered again.         *)
LEMMA TaskDiesKeeps ==
    ASSUME NoticesInv, NEW t \in Tasks, TaskDies(t)
    PROVE  NoticesInv'
<1> DEFINE n == task[t].about
           k == [task[t] EXCEPT !.pc = "queued"]
<1>1. k \in TaskState /\ k.pc = "queued" /\ k.about = n
  BY DEF NoticesInv, MailTyped, TaskState, TaskPcs
<1>2. /\ task' = [task EXCEPT ![t] = k]
      /\ task[t].pc \in {"wanted", "urgent", "digest", "marking"}
      /\ UNCHANGED <<digest, flush, mail, copies, excused, marks>>
      /\ shaken' = IF task[t].pc = "marking" THEN shaken \cup {n} ELSE shaken
  BY DEF TaskDies
<1> HIDE DEF k
<1> QED BY <1>1, <1>2, TaskMoves DEF Active, At

-----------------------------------------------------------------------------
(* What the provider took is counted.                                       *)
LEMMA CountsAdd ==
    ASSUME NEW items, copies \in [Notices -> Nat], Counts(items)
    PROVE  /\ copies' \in [Notices -> Nat]
           /\ \A n \in Notices : /\ copies'[n] >= copies[n]
                                 /\ n \in items => copies'[n] > 0
                                 /\ n \in items /\ copies[n] = 0 => copies'[n] = 1
                                 /\ n \notin items => copies'[n] = copies[n]
  BY DEF Counts

(* What a send comes to, for the notices it carries and for the others.     *)
LEMMA ProviderCounts ==
    ASSUME NEW items, copies \in [Notices -> Nat], NEW outcome \in Outcomes,
           ProviderTakes(outcome, items)
    PROVE  /\ copies' \in [Notices -> Nat] /\ shaken \subseteq shaken'
           /\ \A n \in Notices : /\ copies'[n] >= copies[n]
                                 /\ n \notin items => copies'[n] = copies[n]
                                 /\ n \notin shaken' /\ copies'[n] # copies[n] =>
                                      outcome = "accepted"
           /\ outcome = "accepted" =>
                \A n \in Notices \cap items : /\ copies'[n] > 0
                                              /\ copies[n] = 0 => copies'[n] = 1
<1>1. CASE outcome \in {"accepted", "unanswered"}
  <2>1. Counts(items) /\ shaken' = IF outcome = "unanswered" THEN shaken \cup items ELSE shaken
    BY <1>1 DEF ProviderTakes
  <2> QED BY <1>1, <2>1, CountsAdd
<1>2. CASE outcome \notin {"accepted", "unanswered"}
  BY <1>2 DEF ProviderTakes, Outcomes
<1> QED BY <1>1, <1>2

(* An urgent notice goes to the provider.                                   *)
LEMMA SendsNowKeeps ==
    ASSUME NoticesInv, NEW t \in Tasks, NEW outcome \in Outcomes, SendsNow(t, outcome)
    PROVE  NoticesInv'
<1> DEFINE n == task[t].about
           failed == GivesUp(outcome, task[t].tries)
           k == [task[t] EXCEPT !.pc = IF outcome = "accepted" THEN "marking"
                                       ELSE IF failed THEN "done" ELSE "queued",
                                !.tries = IF outcome = "accepted" THEN @ ELSE @ + 1]
<1>0. MailTyped /\ Delivered /\ FirstOnly /\ OnePlace /\ task[t] \in TaskState
  BY DEF NoticesInv, MailTyped
<1>1. /\ k \in TaskState /\ k.about = n
      /\ k.pc = (IF outcome = "accepted" THEN "marking" ELSE IF failed THEN "done" ELSE "queued")
  <2>1. task[t].tries + 1 \in Nat
    BY <1>0 DEF TaskState
  <2> QED BY <1>0, <2>1 DEF TaskState, TaskPcs
<1>2. /\ task' = [task EXCEPT ![t] = k] /\ task[t].pc = "urgent"
      /\ ProviderTakes(outcome, {n})
      /\ excused' = IF failed THEN excused \cup {n} ELSE excused
      /\ UNCHANGED <<digest, flush, mail, marks>>
  BY DEF SendsNow
<1> HIDE DEF k, failed
<1>3. /\ task' \in [Tasks -> TaskState] /\ task'[t] = k
      /\ \A u \in Tasks \ {t} : task'[u] = task[u]
  BY <1>0, <1>1, <1>2 DEF MailTyped
<1>4. /\ copies' \in [Notices -> Nat] /\ shaken \subseteq shaken' /\ n \in Notices
      /\ \A m \in Notices : /\ copies'[m] >= copies[m]
                            /\ m # n => copies'[m] = copies[m]
                            /\ m \notin shaken' /\ copies'[m] # copies[m] =>
                                 outcome = "accepted"
      /\ outcome = "accepted" => copies'[n] > 0 /\ (copies[n] = 0 => copies'[n] = 1)
  <2> DEFINE items == {n}
  <2>1. copies \in [Notices -> Nat] /\ n \in Notices /\ ProviderTakes(outcome, items)
    BY <1>0, <1>2 DEF MailTyped, TaskState
  <2>2. n \in items /\ \A m : m # n => m \notin items
    OBVIOUS
  <2> HIDE DEF items, n
  <2>3. /\ copies' \in [Notices -> Nat] /\ shaken \subseteq shaken'
        /\ \A m \in Notices : /\ copies'[m] >= copies[m]
                              /\ m \notin items => copies'[m] = copies[m]
                              /\ m \notin shaken' /\ copies'[m] # copies[m] =>
                                   outcome = "accepted"
        /\ outcome = "accepted" =>
             \A m \in Notices \cap items : /\ copies'[m] > 0
                                           /\ copies[m] = 0 => copies'[m] = 1
    BY <2>1, ProviderCounts
  <2> QED BY <2>1, <2>2, <2>3
<1>5. MailTyped' /\ (\A m : Carried(m)' <=> Carried(m))
  BY <1>0, <1>2, <1>3, <1>4 DEF MailTyped, Carried, InDigest, InFlush, InMail
<1>6. Delivered'
  BY <1>0, <1>1, <1>2, <1>3, <1>4, <1>5 DEF Delivered, At, MailTyped
<1>7. n \notin shaken => ~Carried(n) /\ copies[n] = 0
  <2> SUFFICES ASSUME n \notin shaken
               PROVE  ~Carried(n) /\ copies[n] = 0
    OBVIOUS
  <2>1. At(t, n, {"urgent", "digest"}) /\ Active(t, n) /\ n \in Notices \ shaken
    BY <1>2, <1>4 DEF At, Active
  <2>2. n \notin marks /\ \A u \in Tasks : ~At(u, n, {"marking"})
    BY <1>0, <1>2, <2>1 DEF FirstOnly, At, Active
  <2>3. ~Carried(n) /\ ~(copies[n] > 0)
    BY <1>0, <2>1, <2>2 DEF FirstOnly
  <2> QED BY <1>0, <1>4, <2>3 DEF MailTyped
<1>8. FirstOnly'
  <2> SUFFICES ASSUME NEW m \in Notices \ shaken'
               PROVE  /\ \A v, u \in Tasks : Active(v, m)' /\ Active(u, m)' => v = u
                      /\ Carried(m)' \/ copies'[m] > 0 =>
                           m \in marks' \/ \E u \in Tasks : At(u, m, {"marking"})'
                      /\ \A u \in Tasks : At(u, m, {"urgent", "digest"})' => m \notin marks'
    BY DEF FirstOnly
  <2>0. m \in Notices \ shaken
    BY <1>4
  <2>1. \A v \in Tasks : Active(v, m)' => Active(v, m)
    BY <1>1, <1>2, <1>3 DEF Active
  <2>2. \A u \in Tasks : At(u, m, {"urgent", "digest"})' => At(u, m, {"urgent", "digest"})
    BY <1>1, <1>3 DEF At
  <2>3. ASSUME Carried(m)' \/ copies'[m] > 0, m \notin marks
        PROVE  \E u \in Tasks : At(u, m, {"marking"})'
    <3>1. CASE m = n
      <4>1. outcome = "accepted"
        BY <1>0, <1>4, <1>5, <1>7, <2>0, <2>3, <3>1 DEF MailTyped
      <4> QED BY <1>1, <1>3, <3>1, <4>1 DEF At
    <3>2. CASE m # n
      <4>1. PICK u \in Tasks : At(u, m, {"marking"})
        BY <1>0, <1>4, <1>5, <2>0, <2>3, <3>2 DEF FirstOnly
      <4> QED BY <1>2, <1>3, <4>1 DEF At
    <3> QED BY <3>1, <3>2
  <2> QED BY <1>0, <1>2, <2>0, <2>1, <2>2, <2>3 DEF FirstOnly
<1>9. OnePlace'
  <2>1. \A m \in Notices \ shaken' : copies'[m] > 0 => copies'[m] = 1 /\ ~Carried(m)
    BY <1>0, <1>4, <1>7 DEF OnePlace, MailTyped
  <2> QED BY <1>0, <1>2, <1>4, <1>5, <2>1 DEF OnePlace, InDigest, InFlush, InMail
<1> QED BY <1>5, <1>6, <1>8, <1>9 DEF NoticesInv

(* The accumulator holds its first entries: nothing that is in it leaves    *)
(* it, and the new one comes in if there is room.                           *)
LEMMA DigestGrows ==
    ASSUME digest \in Seq(Notices), Len(digest) <= MaxItems, NEW n \in Notices,
           digest' = SubSeq(Append(digest, n), 1, IF Len(Append(digest, n)) < MaxItems
                                                  THEN Len(Append(digest, n)) ELSE MaxItems)
    PROVE  /\ digest' \in Seq(Notices) /\ Len(digest') <= MaxItems
           /\ \A m : InDigest(m)' <=> InDigest(m) \/ (m = n /\ Len(digest) < MaxItems)
<1> DEFINE longer == Append(digest, n)
           room == IF Len(longer) < MaxItems THEN Len(longer) ELSE MaxItems
<1>1. /\ longer \in Seq(Notices) /\ Len(longer) = Len(digest) + 1
      /\ \A i \in 1..Len(digest) : longer[i] = digest[i]
      /\ longer[Len(digest) + 1] = n /\ Len(digest) \in Nat
  OBVIOUS
<1>2. room \in Nat /\ room <= Len(longer) /\ digest' = SubSeq(longer, 1, room)
      /\ room = IF Len(digest) < MaxItems THEN Len(digest) + 1 ELSE Len(digest)
  BY <1>1, MailAssumption
<1> HIDE DEF longer, room
<1>3. /\ digest' \in Seq(Notices) /\ Len(digest') = room
      /\ \A i \in 1..room : digest'[i] = longer[i]
  <2>1. 1 \in Int /\ room \in Int /\ \A i \in 1..room : longer[i] \in Notices
    BY <1>1, <1>2
  <2>2. /\ SubSeq(longer, 1, room) \in Seq(Notices)
        /\ Len(SubSeq(longer, 1, room)) = IF 1 <= room THEN room - 1 + 1 ELSE 0
        /\ \A i \in 1..(room - 1 + 1) : SubSeq(longer, 1, room)[i] = longer[1 + i - 1]
    BY <2>1, SubSeqProperties
  <2>3. /\ (IF 1 <= room THEN room - 1 + 1 ELSE 0) = room /\ room - 1 + 1 = room
        /\ \A i \in 1..room : 1 + i - 1 = i
    BY <1>2
  <2> QED BY <1>2, <2>2, <2>3
<1>4. Len(digest') <= MaxItems
  BY <1>1, <1>2, <1>3, MailAssumption
<1>5. /\ \A m : InDigest(m) <=> \E i \in 1..Len(digest) : digest[i] = m
      /\ \A m : InDigest(m)' <=> \E i \in 1..room : digest'[i] = m
  <2>1. DOMAIN digest = 1..Len(digest) /\ DOMAIN digest' = 1..room
    BY <1>3
  <2>2. ToSet(digest) = {digest[i] : i \in 1..Len(digest)}
    BY <2>1 DEF ToSet
  <2>3. ToSet(digest)' = {digest'[i] : i \in 1..room}
    BY <2>1 DEF ToSet
  <2>4. \A m : m \in ToSet(digest) <=> \E i \in 1..Len(digest) : digest[i] = m
    BY <2>2
  <2>5. \A m : m \in ToSet(digest)' <=> \E i \in 1..room : digest'[i] = m
    BY <2>3
  <2> QED BY <2>4, <2>5 DEF InDigest
<1>6. CASE Len(digest) < MaxItems
  <2>1. room = Len(digest) + 1 /\ room \in 1..room
    BY <1>1, <1>2, <1>6
  <2>2. digest'[room] = n /\ \A i \in 1..Len(digest) : i \in 1..room /\ digest'[i] = digest[i]
    BY <1>1, <1>3, <2>1
  <2>3. \A i \in 1..room : i = room \/ i \in 1..Len(digest)
    BY <1>1, <2>1
  <2>4. \A m : InDigest(m)' <=> InDigest(m) \/ m = n
    BY <1>5, <2>1, <2>2, <2>3
  <2> QED BY <1>3, <1>4, <1>6, <2>4
<1>7. CASE ~(Len(digest) < MaxItems)
  <2>1. room = Len(digest) /\ \A i \in 1..room : digest'[i] = digest[i]
    BY <1>1, <1>2, <1>3, <1>7
  <2>2. \A m : InDigest(m)' <=> InDigest(m)
    BY <1>5, <2>1
  <2> QED BY <1>3, <1>4, <1>7, <2>2
<1> QED BY <1>6, <1>7

(* A digest notice goes into the accumulator.                               *)
LEMMA PushesDigestKeeps ==
    ASSUME NoticesInv, NEW t \in Tasks, PushesDigest(t)
    PROVE  NoticesInv'
<1> DEFINE k == [task[t] EXCEPT !.pc = IF redisUp THEN "marking" ELSE "done"]
<1>0. MailTyped /\ Delivered /\ FirstOnly /\ OnePlace /\ task[t] \in TaskState
  BY DEF NoticesInv, MailTyped
<1> PICK n \in Notices : n = task[t].about
  BY <1>0 DEF TaskState
<1>1. k \in TaskState /\ k.about = n /\ k.pc = (IF redisUp THEN "marking" ELSE "done")
  BY <1>0 DEF TaskState, TaskPcs
<1>2. /\ task' = [task EXCEPT ![t] = k] /\ task[t].pc = "digest" /\ n \in Notices
      /\ UNCHANGED <<flush, mail, copies, marks, shaken>>
  BY <1>0 DEF PushesDigest, TaskState
<1>3. CASE ~redisUp
  <2>1. digest' = digest /\ excused' = excused \cup {n}
    BY <1>3 DEF PushesDigest
  <2> HIDE DEF k
  <2> QED BY <1>1, <1>2, <1>3, <2>1, TaskMoves
<1>4. CASE redisUp
  <2>1. /\ digest' = SubSeq(Append(digest, n), 1, IF Len(Append(digest, n)) < MaxItems
                                                  THEN Len(Append(digest, n)) ELSE MaxItems)
        /\ excused' = IF Len(Append(digest, n)) > MaxItems THEN excused \cup {n} ELSE excused
    BY <1>4 DEF PushesDigest
  <2> HIDE DEF k
  <2>2. /\ digest' \in Seq(Notices) /\ Len(digest') <= MaxItems
        /\ \A m : InDigest(m)' <=> InDigest(m) \/ (m = n /\ Len(digest) < MaxItems)
    BY <1>0, <1>2, <2>1, DigestGrows DEF MailTyped
  <2>3. InDigest(n)' \/ n \in excused'
    <3>1. Len(Append(digest, n)) = Len(digest) + 1 /\ Len(digest) \in Nat
      BY <1>0, <1>2 DEF MailTyped
    <3>2. InDigest(n)' \/ ~(Len(digest) < MaxItems)
      BY <2>2
    <3> QED BY <2>1, <3>1, <3>2, MailAssumption
  <2>4. /\ task' \in [Tasks -> TaskState] /\ task'[t] = k
        /\ \A u \in Tasks \ {t} : task'[u] = task[u]
    BY <1>0, <1>1, <1>2 DEF MailTyped
  <2>5. k.pc = "marking" /\ k.about = n /\ task[t].about = n
    BY <1>1, <1>4
  <2>6. MailTyped'
    BY <1>0, <1>2, <2>2, <2>4 DEF MailTyped
  <2>7. \A m : Carried(m) => Carried(m)'
    BY <1>2, <2>2 DEF Carried, InFlush, InMail
  <2>8. \A m : m # n => (Carried(m)' <=> Carried(m))
    BY <1>2, <2>2 DEF Carried, InFlush, InMail
  <2>9. Delivered'
    <3> SUFFICES ASSUME NEW m \in Notices,
                        m \in marks \/ \E u \in Tasks : At(u, m, {"marking", "done"})'
                 PROVE  Carried(m)' \/ copies[m] > 0 \/ m \in excused'
      BY <1>2 DEF Delivered
    <3>1. CASE m = n
      BY <2>3, <3>1 DEF Carried, InDigest
    <3>2. CASE m # n
      <4>1. m \in marks \/ \E u \in Tasks : At(u, m, {"marking", "done"})
        BY <2>4, <2>5, <3>2 DEF At
      <4>2. excused \subseteq excused'
        BY <2>1
      <4> QED BY <1>0, <2>7, <4>1, <4>2 DEF Delivered
    <3> QED BY <3>1, <3>2
  <2>10. n \notin shaken => ~Carried(n) /\ copies[n] = 0
    <3> SUFFICES ASSUME n \notin shaken
                 PROVE  ~Carried(n) /\ copies[n] = 0
      OBVIOUS
    <3>1. At(t, n, {"urgent", "digest"}) /\ Active(t, n) /\ n \in Notices \ shaken
      BY <1>2, <2>5 DEF At, Active
    <3>2. n \notin marks /\ \A u \in Tasks : ~At(u, n, {"marking"})
      BY <1>0, <1>2, <3>1 DEF FirstOnly, At, Active
    <3>3. ~Carried(n) /\ ~(copies[n] > 0)
      BY <1>0, <3>1, <3>2 DEF FirstOnly
    <3> QED BY <1>0, <1>2, <3>3 DEF MailTyped
  <2>11. FirstOnly'
    <3> SUFFICES ASSUME NEW m \in Notices \ shaken
                 PROVE  /\ \A v, u \in Tasks : Active(v, m)' /\ Active(u, m)' => v = u
                        /\ Carried(m)' \/ copies'[m] > 0 =>
                             m \in marks' \/ \E u \in Tasks : At(u, m, {"marking"})'
                        /\ \A u \in Tasks : At(u, m, {"urgent", "digest"})' => m \notin marks'
      BY <1>2 DEF FirstOnly
    <3>1. \A v \in Tasks : Active(v, m)' => Active(v, m)
      BY <1>2, <2>4, <2>5 DEF Active
    <3>2. \A u \in Tasks : At(u, m, {"urgent", "digest"})' => At(u, m, {"urgent", "digest"})
      BY <2>4, <2>5 DEF At
    <3>3. ASSUME Carried(m)' \/ copies[m] > 0, m \notin marks
          PROVE  \E u \in Tasks : At(u, m, {"marking"})'
      <4>1. CASE m = n
        BY <2>4, <2>5, <4>1 DEF At
      <4>2. CASE m # n
        <5>1. PICK u \in Tasks : At(u, m, {"marking"})
          BY <1>0, <2>8, <3>3, <4>2 DEF FirstOnly
        <5>2. u # t
          BY <1>2, <5>1 DEF At
        <5> QED BY <2>4, <5>1, <5>2 DEF At
      <4> QED BY <4>1, <4>2
    <3> QED BY <1>0, <1>2, <3>1, <3>2, <3>3 DEF FirstOnly
  <2>12. OnePlace'
    <3> SUFFICES ASSUME NEW m \in Notices \ shaken
                 PROVE  /\ copies[m] > 0 => copies[m] = 1 /\ ~Carried(m)'
                        /\ InDigest(m)' => ~InFlush(m)
                        /\ InDigest(m)' \/ InFlush(m) => \A o \in Mails : ~InMail(o, m)
                        /\ \A o, q \in Mails : InMail(o, m) /\ InMail(q, m) => o = q
      BY <1>2 DEF OnePlace, InFlush, InMail
    <3>1. CASE m = n
      BY <1>0, <1>2, <2>10, <3>1 DEF Carried, MailTyped
    <3>2. CASE m # n
      BY <1>0, <2>2, <2>8, <3>2 DEF OnePlace
    <3> QED BY <3>1, <3>2
  <2> QED BY <2>6, <2>9, <2>11, <2>12 DEF NoticesInv
<1> QED BY <1>3, <1>4

-----------------------------------------------------------------------------
(* A notice goes from one carrier to the next; no task moves.               *)
LEMMA CarriersMove ==
    ASSUME NoticesInv, UNCHANGED <<task, marks>>, shaken \subseteq shaken',
           MailTyped', OnePlace',
           \A n \in Notices : Carried(n) \/ copies[n] > 0 \/ n \in excused =>
                                Carried(n)' \/ copies'[n] > 0 \/ n \in excused',
           \A n \in Notices \ shaken' : Carried(n)' \/ copies'[n] > 0 =>
                                          Carried(n) \/ copies[n] > 0
    PROVE  NoticesInv'
<1>1. Delivered'
  BY DEF NoticesInv, Delivered, At
<1>2. FirstOnly'
  BY DEF NoticesInv, FirstOnly, At, Active
<1> QED BY <1>1, <1>2 DEF NoticesInv

(* The flush: the pop, the look-up, one mail per category, or nothing.      *)
LEMMA FlushKeeps ==
    ASSUME NoticesInv, FlushPops \/ FlushLooksUp \/ FlushMails \/ FlushFails
    PROVE  NoticesInv'
<1>0. MailTyped /\ OnePlace /\ copies \in [Notices -> Nat]
  BY DEF NoticesInv, MailTyped
<1>a. NoFlush \in FlushState /\ NoFlush.pc = "idle" /\ NoFlush.items = {}
  BY DEF NoFlush, FlushState
<1>1. CASE FlushPops
  <2> DEFINE k == [NoFlush EXCEPT !.pc = "popped", !.items = ToSet(digest)]
  <2>1. ToSet(digest) \subseteq Notices
    BY <1>0 DEF MailTyped, ToSet
  <2>2. k \in FlushState /\ k.pc = "popped" /\ k.items = ToSet(digest)
    BY <2>1 DEF NoFlush, FlushState
  <2>3. /\ flush' = k /\ flush.pc = "idle" /\ digest' = <<>>
        /\ UNCHANGED <<task, marks, excused, mail, copies, shaken>>
    BY <1>1 DEF FlushPops
  <2> HIDE DEF k
  <2>4. MailTyped'
    BY <1>0, <2>2, <2>3, MailAssumption DEF MailTyped
  <2>5. \A n : ~InDigest(n)' /\ (InFlush(n)' <=> InDigest(n)) /\ ~InFlush(n)
    BY <1>0, <2>2, <2>3 DEF InDigest, InFlush, ToSet, MailTyped
  <2>6. \A n : Carried(n)' <=> Carried(n)
    BY <2>3, <2>5 DEF Carried, InMail
  <2>7. OnePlace'
    BY <1>0, <2>3, <2>5, <2>6 DEF OnePlace, InMail
  <2> QED BY <2>3, <2>4, <2>6, <2>7, CarriersMove
<1>2. CASE FlushLooksUp
  <2>1. PICK kept \in SUBSET flush.items :
           /\ flush' = IF kept = {} THEN NoFlush
                       ELSE [flush EXCEPT !.pc = "mailing", !.items = kept]
           /\ excused' = excused \cup (flush.items \ kept)
    BY <1>2 DEF FlushLooksUp
  <2>2. UNCHANGED <<task, marks, digest, mail, copies, shaken>>
    BY <1>2 DEF FlushLooksUp
  <2>3. flush' \in FlushState /\ (flush'.pc = "idle" => flush'.items = {}) /\ flush'.items = kept
    <3>1. CASE kept = {}
      BY <1>a, <2>1, <3>1
    <3>2. CASE kept # {}
      BY <1>0, <2>1, <3>2 DEF MailTyped, FlushState
    <3> QED BY <3>1, <3>2
  <2>4. MailTyped'
    BY <1>0, <2>2, <2>3 DEF MailTyped
  <2>5. OnePlace'
    BY <1>0, <2>2, <2>3 DEF OnePlace, Carried, InDigest, InFlush, InMail
  <2> QED BY <2>1, <2>2, <2>3, <2>4, <2>5, CarriersMove DEF Carried, InDigest, InFlush, InMail
<1>3. CASE FlushMails
  <2>1. PICK grouped \in SUBSET flush.items, m \in Mails :
           /\ mail[m].pc = "none"
           /\ mail' = [mail EXCEPT ![m] = [NoMail EXCEPT !.pc = "queued", !.items = grouped]]
           /\ flush' = IF flush.items \ grouped = {} THEN NoFlush
                       ELSE [flush EXCEPT !.items = flush.items \ grouped]
    BY <1>3 DEF FlushMails
  <2>2. /\ UNCHANGED <<task, marks, excused, digest, copies, shaken>>
        /\ flush.pc = "mailing"
    BY <1>3 DEF FlushMails
  <2> DEFINE k == [NoMail EXCEPT !.pc = "queued", !.items = grouped]
  <2>3. k \in MailState /\ k.pc = "queued" /\ k.items = grouped
    BY <1>0 DEF NoMail, MailState, MailTyped, FlushState
  <2> HIDE DEF k
  <2>4. /\ mail' \in [Mails -> MailState] /\ mail'[m] = k
        /\ \A o \in Mails \ {m} : mail'[o] = mail[o]
    BY <1>0, <2>1, <2>3 DEF MailTyped, k
  <2>5. /\ flush' \in FlushState /\ (flush'.pc = "idle" => flush'.items = {})
        /\ flush'.items = flush.items \ grouped
    <3>1. CASE flush.items \ grouped = {}
      BY <1>a, <2>1, <3>1
    <3>2. CASE flush.items \ grouped # {}
      BY <1>0, <2>1, <2>2, <3>2 DEF MailTyped, FlushState
    <3> QED BY <3>1, <3>2
  <2>6. MailTyped'
    BY <1>0, <2>2, <2>3, <2>4, <2>5 DEF MailTyped
  <2>7. \A n : /\ InDigest(n)' <=> InDigest(n)
               /\ InFlush(n)' <=> InFlush(n) /\ n \notin grouped
               /\ InMail(m, n)' <=> n \in grouped
               /\ ~InMail(m, n) /\ (n \in grouped => InFlush(n))
    BY <1>0, <2>1, <2>2, <2>3, <2>4, <2>5 DEF InDigest, InFlush, InMail, MailTyped
  <2>8. \A n : \A o \in Mails \ {m} : InMail(o, n)' <=> InMail(o, n)
    BY <2>4 DEF InMail
  <2>9. \A n : Carried(n)' <=> Carried(n)
    BY <2>7, <2>8 DEF Carried
  <2>10. OnePlace'
    BY <1>0, <2>2, <2>7, <2>8, <2>9 DEF OnePlace
  <2> QED BY <2>2, <2>6, <2>9, <2>10, CarriersMove
<1>4. CASE FlushFails
  <2>1. /\ excused' = excused \cup flush.items /\ flush' = NoFlush
        /\ UNCHANGED <<task, marks, digest, mail, copies, shaken>>
    BY <1>4 DEF FlushFails
  <2>2. MailTyped'
    BY <1>0, <1>a, <2>1 DEF MailTyped
  <2>3. OnePlace'
    BY <1>0, <1>a, <2>1 DEF OnePlace, Carried, InDigest, InFlush, InMail
  <2> QED BY <1>a, <2>1, <2>2, <2>3, CarriersMove DEF Carried, InDigest, InFlush, InMail
<1> QED BY <1>1, <1>2, <1>3, <1>4

(* A mail of another kind, or one that waits: no notice moves.              *)
LEMMA MailKeeps ==
    ASSUME NoticesInv, NEW m \in Mails,
           \/ AccountMail(m) \/ MailChecks(m)
           \/ \E outcome \in Outcomes : MailSends(m, outcome)
    PROVE  NoticesInv'
<1> DEFINE old == mail[m]
<1>0. MailTyped /\ OnePlace /\ copies \in [Notices -> Nat] /\ old \in MailState
  BY DEF NoticesInv, MailTyped
<1>1. CASE AccountMail(m)
  <2> DEFINE k == [NoMail EXCEPT !.pc = "queued"]
  <2>1. k \in MailState /\ k.pc = "queued" /\ k.items = {}
    BY DEF NoMail, MailState
  <2>2. /\ mail' = [mail EXCEPT ![m] = k] /\ old.pc = "none"
        /\ UNCHANGED <<task, marks, digest, flush, excused, copies, shaken>>
    BY <1>1 DEF AccountMail, noticeVars
  <2> HIDE DEF k
  <2>3. /\ mail' \in [Mails -> MailState] /\ mail'[m] = k
        /\ \A o \in Mails \ {m} : mail'[o] = mail[o]
    BY <1>0, <2>1, <2>2 DEF MailTyped
  <2>4. MailTyped'
    BY <1>0, <2>1, <2>2, <2>3 DEF MailTyped
  <2>5. \A n : \A o \in Mails : InMail(o, n)' <=> InMail(o, n)
    BY <1>0, <2>1, <2>2, <2>3 DEF InMail, MailTyped
  <2>6. OnePlace' /\ \A n : Carried(n)' <=> Carried(n)
    BY <1>0, <2>2, <2>5 DEF OnePlace, Carried, InDigest, InFlush
  <2> QED BY <2>2, <2>4, <2>6, CarriersMove
<1>2. CASE MailChecks(m)
  <2> DEFINE barred == suppression # "none"
             k == [old EXCEPT !.pc = IF barred THEN "done" ELSE "checked"]
  <2>1. k \in MailState /\ k.pc = (IF barred THEN "done" ELSE "checked") /\ k.items = old.items
    BY <1>0 DEF MailState
  <2>2. /\ mail' = [mail EXCEPT ![m] = k] /\ old.pc = "queued"
        /\ excused' = IF barred THEN excused \cup old.items ELSE excused
        /\ UNCHANGED <<task, marks, digest, flush, copies, shaken>>
    BY <1>2 DEF MailChecks
  <2> HIDE DEF k, barred
  <2>3. /\ mail' \in [Mails -> MailState] /\ mail'[m] = k
        /\ \A o \in Mails \ {m} : mail'[o] = mail[o]
    BY <1>0, <2>1, <2>2 DEF MailTyped
  <2>4. MailTyped'
    BY <1>0, <2>1, <2>2, <2>3 DEF MailTyped
  <2>5. /\ \A n : \A o \in Mails \ {m} : InMail(o, n)' <=> InMail(o, n)
        /\ \A n : InMail(m, n)' <=> InMail(m, n) /\ ~barred
        /\ \A n : InMail(m, n) /\ barred => n \in excused'
    BY <2>1, <2>2, <2>3 DEF InMail
  <2>6. OnePlace'
    BY <1>0, <2>2, <2>5 DEF OnePlace, Carried, InDigest, InFlush
  <2>7. \A n : (InDigest(n)' <=> InDigest(n)) /\ (InFlush(n)' <=> InFlush(n))
    BY <2>2 DEF InDigest, InFlush
  <2>8. \A n : /\ Carried(n)' => Carried(n)
               /\ Carried(n) => Carried(n)' \/ n \in excused'
    BY <2>5, <2>7 DEF Carried
  <2> QED BY <2>2, <2>4, <2>6, <2>8, CarriersMove
<1>3. ASSUME NEW outcome \in Outcomes, MailSends(m, outcome)
      PROVE  NoticesInv'
  <2> DEFINE failed == GivesUp(outcome, old.tries)
             ended == outcome = "accepted" \/ failed
             k == [old EXCEPT !.pc = IF ended THEN "done" ELSE "queued",
                              !.tries = IF outcome = "accepted" THEN @ ELSE @ + 1]
  <2>1. k \in MailState /\ k.pc = (IF ended THEN "done" ELSE "queued") /\ k.items = old.items
    <3>1. old.tries + 1 \in Nat
      BY <1>0 DEF MailState
    <3> QED BY <1>0, <3>1 DEF MailState
  <2>2. /\ mail' = [mail EXCEPT ![m] = k] /\ old.pc = "checked"
        /\ ProviderTakes(outcome, old.items)
        /\ excused' = IF failed THEN excused \cup old.items ELSE excused
        /\ UNCHANGED <<task, marks, digest, flush>>
    BY <1>3 DEF MailSends
  <2>3. ended <=> outcome = "accepted" \/ failed
    OBVIOUS
  <2> HIDE DEF k, failed, ended
  <2>4. /\ mail' \in [Mails -> MailState] /\ mail'[m] = k
        /\ \A o \in Mails \ {m} : mail'[o] = mail[o]
    BY <1>0, <2>1, <2>2 DEF MailTyped
  <2> DEFINE items == old.items
  <2>5. items \subseteq Notices /\ ProviderTakes(outcome, items)
    BY <1>0, <2>2 DEF MailState
  <2> HIDE DEF items
  <2>6. /\ copies' \in [Notices -> Nat] /\ shaken \subseteq shaken'
        /\ \A n \in Notices : /\ copies'[n] >= copies[n]
                              /\ n \notin items => copies'[n] = copies[n]
                              /\ n \notin shaken' /\ copies'[n] # copies[n] =>
                                   outcome = "accepted"
        /\ outcome = "accepted" =>
             \A n \in Notices \cap items : /\ copies'[n] > 0
                                           /\ copies[n] = 0 => copies'[n] = 1
    BY <1>0, <1>3, <2>5, ProviderCounts
  <2>7. MailTyped'
    BY <1>0, <2>1, <2>2, <2>4, <2>6 DEF MailTyped
  <2>8. /\ \A n : \A o \in Mails \ {m} : InMail(o, n)' <=> InMail(o, n)
        /\ \A n : InMail(m, n)' <=> n \in items /\ ~ended
        /\ \A n : InMail(m, n) <=> n \in items
    BY <2>1, <2>2, <2>4 DEF InMail, items
  <2>9. \A n : (InDigest(n)' <=> InDigest(n)) /\ (InFlush(n)' <=> InFlush(n))
    BY <2>2 DEF InDigest, InFlush
  <2>10. \A n : Carried(n)' => Carried(n)
    BY <2>8, <2>9 DEF Carried
  <2>11. ASSUME NEW n \in Notices, Carried(n) \/ copies[n] > 0 \/ n \in excused
         PROVE  Carried(n)' \/ copies'[n] > 0 \/ n \in excused'
    <3>1. CASE n \in excused
      BY <2>2, <3>1
    <3>2. CASE copies[n] > 0
      BY <1>0, <2>6, <3>2
    <3>3. CASE Carried(n) /\ ~(InMail(m, n) /\ ended)
      BY <2>8, <2>9, <3>3 DEF Carried
    <3>4. CASE InMail(m, n) /\ ended
      <4>1. n \in items
        BY <2>8, <3>4
      <4>2. CASE outcome = "accepted"
        BY <2>6, <4>1, <4>2
      <4>3. CASE failed
        BY <2>2, <4>1, <4>3 DEF items
      <4> QED BY <2>3, <3>4, <4>2, <4>3
    <3> QED BY <2>11, <3>1, <3>2, <3>3, <3>4
  <2>12. ASSUME NEW n \in Notices \ shaken', Carried(n)' \/ copies'[n] > 0
         PROVE  Carried(n) \/ copies[n] > 0
    <3>1. CASE n \in items
      BY <2>8, <3>1 DEF Carried
    <3>2. CASE n \notin items
      BY <2>6, <2>10, <2>12, <3>2
    <3> QED BY <3>1, <3>2
  <2>13. OnePlace'
    <3> SUFFICES ASSUME NEW n \in Notices \ shaken'
                 PROVE  /\ copies'[n] > 0 => copies'[n] = 1 /\ ~Carried(n)'
                        /\ InDigest(n)' => ~InFlush(n)'
                        /\ InDigest(n)' \/ InFlush(n)' => \A o \in Mails : ~InMail(o, n)'
                        /\ \A o, q \in Mails : InMail(o, n)' /\ InMail(q, n)' => o = q
      BY DEF OnePlace
    <3>0. n \in Notices \ shaken
      BY <2>6
    <3>1. \A o \in Mails : InMail(o, n)' => InMail(o, n)
      BY <2>8
    <3>2. ASSUME copies'[n] > 0
          PROVE  copies'[n] = 1 /\ ~Carried(n)'
      <4>1. CASE copies'[n] = copies[n]
        BY <1>0, <2>10, <3>0, <3>2, <4>1 DEF OnePlace
      <4>2. CASE copies'[n] # copies[n]
        <5>1. n \in items /\ outcome = "accepted" /\ ended
          BY <2>3, <2>6, <4>2
        <5>2. Carried(n) /\ InMail(m, n)
          BY <2>8, <5>1 DEF Carried
        <5>3. copies[n] = 0 /\ copies'[n] = 1
          BY <1>0, <2>6, <3>0, <5>1, <5>2 DEF OnePlace
        <5>4. ~InDigest(n) /\ ~InFlush(n) /\ \A o \in Mails \ {m} : ~InMail(o, n)
          BY <1>0, <3>0, <5>2 DEF OnePlace
        <5>5. ~Carried(n)'
          BY <2>8, <2>9, <5>1, <5>4 DEF Carried
        <5> QED BY <5>3, <5>5
      <4> QED BY <4>1, <4>2
    <3> QED BY <1>0, <2>9, <3>0, <3>1, <3>2 DEF OnePlace
  <2> QED BY <2>2, <2>6, <2>7, <2>11, <2>12, <2>13, CarriersMove
<1> QED BY <1>1, <1>2, <1>3

-----------------------------------------------------------------------------
(* The provider's events: each is applied at most once, after its mark.     *)
LEMMA EventsKeep ==
    ASSUME EventsInv, NEW e \in Events,
           \/ ProviderReports(e) \/ Webhook(e) \/ EventMarks(e) \/ RecordEvent(e)
           \/ ClearReads(e) \/ ClearWrites(e) \/ EventDies(e)
    PROVE  EventsInv'
<1>0. /\ event \in [Events -> {"none", "due", "queued", "marked", "clearing", "unflagging",
                               "done"}]
      /\ applied \in Seq(Events) /\ IsInjective(applied)
      /\ \A i \in 1..Len(applied) : applied[i] \in seen /\ event[applied[i]] # "marked"
      /\ \A d \in Events : event[d] = "marked" => d \in seen
      /\ ~crossing => flag = suppression
  BY DEF EventsInv
<1>1. CASE RecordEvent(e)
  <2>1. /\ event[e] = "marked" /\ event' = [event EXCEPT ![e] = "done"]
        /\ applied' = Append(applied, e) /\ suppression' = flag' /\ seen' = seen
    BY <1>1 DEF RecordEvent
  <2>2. /\ applied' \in Seq(Events) /\ Len(applied') = Len(applied) + 1
        /\ \A i \in 1..Len(applied) : applied'[i] = applied[i]
        /\ applied'[Len(applied) + 1] = e /\ Len(applied) \in Nat
    BY <1>0, <2>1
  <2>3. DOMAIN applied' = 1..(Len(applied) + 1) /\ DOMAIN applied = 1..Len(applied)
    BY <1>0, <2>2
  <2>4. \A i \in 1..Len(applied) : applied[i] # e
    BY <1>0, <2>1
  <2>5. IsInjective(applied')
    BY <1>0, <2>2, <2>3, <2>4 DEF IsInjective
  <2>6. e \in seen /\ \A i \in 1..Len(applied') : applied'[i] \in seen' /\ event'[applied'[i]] # "marked"
    <3> SUFFICES ASSUME NEW i \in 1..(Len(applied) + 1)
                 PROVE  e \in seen /\ applied'[i] \in seen' /\ event'[applied'[i]] # "marked"
      BY <2>2
    <3>1. e \in seen
      BY <1>0, <2>1
    <3>2. CASE i = Len(applied) + 1
      BY <1>0, <2>1, <2>2, <3>1, <3>2
    <3>3. CASE i \in 1..Len(applied)
      BY <1>0, <2>1, <2>2, <3>1, <3>3
    <3> QED BY <2>2, <3>1, <3>2, <3>3
  <2> QED BY <1>0, <2>1, <2>2, <2>5, <2>6 DEF EventsInv
<1>2. CASE EventMarks(e)
  <2>1. /\ seen \subseteq seen' /\ UNCHANGED <<applied, suppression, flag, crossing>>
        /\ \A d \in Events \ {e} : event'[d] = event[d]
        /\ event'[e] = "done" \/ (event'[e] = "marked" /\ e \notin seen /\ e \in seen')
        /\ event' \in [Events -> {"none", "due", "queued", "marked", "clearing", "unflagging",
                                  "done"}]
    BY <1>0, <1>2 DEF EventMarks
  <2>2. \A i \in 1..Len(applied) : applied[i] \in Events
    BY <1>0
  <2> QED BY <1>0, <2>1, <2>2 DEF EventsInv
<1>3. CASE ClearWrites(e)
  <2>1. /\ event' = [event EXCEPT ![e] = "done"] /\ flag' = "none"
        /\ crossing' = (crossing \/ suppression' # "none") /\ UNCHANGED <<applied, seen>>
    BY <1>3 DEF ClearWrites
  <2>2. \A i \in 1..Len(applied) : applied[i] \in Events
    BY <1>0
  <2> QED BY <1>0, <2>1, <2>2 DEF EventsInv
<1>4. CASE ProviderReports(e) \/ Webhook(e) \/ ClearReads(e) \/ EventDies(e)
  <2>1. PICK pc \in {"due", "queued", "done", "clearing", "unflagging"} :
            event' = [event EXCEPT ![e] = pc]
    BY <1>4 DEF ProviderReports, Webhook, ClearReads, EventDies
  <2>2. UNCHANGED <<applied, seen, suppression, flag, crossing>>
    BY <1>4 DEF ProviderReports, Webhook, ClearReads, EventDies
  <2>3. \A i \in 1..Len(applied) : applied[i] \in Events
    BY <1>0
  <2> QED BY <1>0, <2>1, <2>2, <2>3 DEF EventsInv
<1> QED BY <1>1, <1>2, <1>3, <1>4

(* There is no notice and no mail at first.                                 *)
LEMMA MailStart == MailInit => MailInv
<1> SUFFICES ASSUME MailInit
             PROVE  MailInv
  OBVIOUS
<1>1. NoMail \in MailState /\ NoMail.pc = "none" /\ NoMail.items = {}
  BY DEF NoMail, MailState
<1>2. NoFlush \in FlushState /\ NoFlush.pc = "idle" /\ NoFlush.items = {}
  BY DEF NoFlush, FlushState
<1>3. NoTask \in TaskState /\ NoTask.pc = "none"
  BY MailAssumption DEF NoTask, TaskState, TaskPcs
<1>4. MailTyped
  BY <1>1, <1>2, <1>3, MailAssumption DEF MailInit, MailTyped
<1>5. /\ \A n : ~Carried(n) /\ ~InDigest(n) /\ ~InFlush(n)
      /\ \A n, m : m \in Mails => ~InMail(m, n)
  BY <1>1, <1>2 DEF MailInit, Carried, InDigest, InFlush, InMail, ToSet
<1>6. Delivered /\ FirstOnly /\ OnePlace
  BY <1>3, <1>5 DEF MailInit, Delivered, FirstOnly, OnePlace, At, Active
<1>7. EventsInv
  BY DEF MailInit, EventsInv, IsInjective
<1> QED BY <1>4, <1>6, <1>7 DEF MailInv, NoticesInv

(* Every step keeps track of every notice.                                  *)
LEMMA MailStep == MailInv /\ [NoticeNext \/ FeedbackNext]_mailVars => MailInv'
<1> SUFFICES ASSUME MailInv, [NoticeNext \/ FeedbackNext]_mailVars
             PROVE  MailInv'
  OBVIOUS
<1>0. NoticesInv /\ EventsInv
  BY DEF MailInv
<1>1. ASSUME NEW t \in Tasks,
             \/ \E n \in Notices : Notify(t, n)
             \/ LooksUp(t) \/ Gates(t) \/ PushesDigest(t)
             \/ \E o \in Outcomes : SendsNow(t, o)
             \/ MarksSent(t) \/ TaskDies(t)
      PROVE  MailInv'
  <2>1. NoticesInv'
    BY <1>0, <1>1, NotifyKeeps, LooksUpKeeps, GatesKeeps, PushesDigestKeeps, SendsNowKeeps,
       MarksSentKeeps, TaskDiesKeeps
  <2>2. UNCHANGED eventVars
    BY <1>1 DEF Notify, LooksUp, Gates, PushesDigest, SendsNow, MarksSent, TaskDies
  <2> QED BY <1>0, <2>1, <2>2 DEF MailInv, EventsInv, eventVars
<1>2. CASE FlushPops \/ FlushLooksUp \/ FlushMails \/ FlushFails
  <2>1. UNCHANGED eventVars
    BY <1>2 DEF FlushPops, FlushLooksUp, FlushMails, FlushFails
  <2> QED BY <1>0, <1>2, <2>1, FlushKeeps DEF MailInv, EventsInv, eventVars
<1>3. ASSUME NEW m \in Mails,
             \/ AccountMail(m) \/ MailChecks(m)
             \/ \E outcome \in Outcomes : MailSends(m, outcome)
      PROVE  MailInv'
  <2>1. UNCHANGED eventVars
    BY <1>3 DEF AccountMail, MailChecks, MailSends
  <2> QED BY <1>0, <1>3, <2>1, MailKeeps DEF MailInv, EventsInv, eventVars
<1>4. ASSUME NEW e \in Events,
             \/ ProviderReports(e) \/ Webhook(e) \/ EventMarks(e) \/ RecordEvent(e)
             \/ ClearReads(e) \/ ClearWrites(e) \/ EventDies(e)
      PROVE  MailInv'
  <2>1. UNCHANGED <<noticeVars, mail, copies, shaken>>
    BY <1>4 DEF ProviderReports, Webhook, EventMarks, RecordEvent, ClearReads, ClearWrites,
                EventDies
  <2>2. NoticesInv'
    BY <1>0, <2>1 DEF noticeVars, NoticesInv, MailTyped, Delivered, FirstOnly, OnePlace, At,
                      Active, Carried, InDigest, InFlush, InMail
  <2> QED BY <1>0, <1>4, <2>2, EventsKeep DEF MailInv
<1>5. CASE \/ UpdateSettings \/ AccountChanges \/ RedisTurns
           \/ \E n \in Notices : Unsubscribe(n)
           \/ UNCHANGED mailVars
  <2>1. UNCHANGED <<noticeVars, mail, copies, shaken, eventVars>>
    BY <1>5 DEF UpdateSettings, AccountChanges, RedisTurns, Unsubscribe, mailVars
  <2>2. NoticesInv'
    BY <1>0, <2>1 DEF noticeVars, NoticesInv, MailTyped, Delivered, FirstOnly, OnePlace, At,
                      Active, Carried, InDigest, InFlush, InMail
  <2> QED BY <1>0, <2>1, <2>2 DEF MailInv, EventsInv, eventVars
<1> QED BY <1>1, <1>2, <1>3, <1>4, <1>5 DEF NoticeNext, FeedbackNext, SendingNext

(* The invariant holds from the start, whatever tasks, flushes and mails do. *)
LEMMA MailInvariant == MailSpec => []MailInv
  BY MailStart, MailStep, PTL DEF MailSpec

(* Every notice the broker took is on its way, mailed, or dropped for a     *)
(* reason the code knows, and it is mailed twice only after overlapping     *)
(* calls or a fault; every bounce counts once, and the warning agrees with  *)
(* the do-not-send list but for a clear and a bounce that crossed           *)
(* (services/notification_service.py, tasks/notification_pipeline.py,       *)
(* services/email_suppression_service.py).                                  *)
THEOREM NoticesReachTheirOwner == MailSpec => []MailAccountedFor
  BY MailInvariant, MailInvSuffices, PTL

(* Bounds and types: tries, copies, the counter beside the list, the rest.  *)
TriesBounded(tries, pc) ==
    tries <= MaxRetries \/ (pc = "done" /\ tries = MaxRetries + 1)
TriesCapped ==
    /\ \A t \in Tasks : TriesBounded(task[t].tries, task[t].pc)
    /\ \A m \in Mails : TriesBounded(mail[m].tries, mail[m].pc)

CountersKept ==
    /\ pushed \in Nat /\ pushed >= Len(digest) /\ messages \in Nat
    /\ \A n \in Notices : copies[n] <= 2

HistoryKnown ==
    /\ marks \subseteq Notices /\ excused \subseteq Notices /\ shaken \subseteq Notices
    /\ seen \subseteq Events
    /\ suppression \in {"none", "hard_bounce", "complaint"}
    /\ flag \in {"none", "hard_bounce", "complaint"}

Switches ==
    /\ redisUp \in BOOLEAN /\ complained \in BOOLEAN /\ crossing \in BOOLEAN
Budget == faults \in 0..MaxFaults /\ changes \in 0..MaxChanges

AccountTyped == account \in [live : BOOLEAN, watching : BOOLEAN, wants : SUBSET Categories]

MailBounded ==
    /\ TriesCapped /\ CountersKept /\ HistoryKnown /\ Switches /\ Budget /\ AccountTyped

MailNext == NoticeNext \/ FeedbackNext

(* The user's settings change switch by switch and category by category.    *)
LEMMA AccountKept == AccountTyped /\ [MailNext]_mailVars => AccountTyped'
<1> SUFFICES ASSUME AccountTyped, [MailNext]_mailVars PROVE AccountTyped'
  OBVIOUS
<1>1. CASE UpdateSettings
  BY <1>1 DEF UpdateSettings, AccountTyped
<1>2. ASSUME NEW n \in Notices, Unsubscribe(n) PROVE AccountTyped'
  BY <1>2 DEF Unsubscribe, AccountTyped
<1>3. CASE AccountChanges
  BY <1>3 DEF AccountChanges, AccountTyped
<1>4. CASE UNCHANGED account
  BY <1>4 DEF AccountTyped
<1>5. UpdateSettings \/ (\E n \in Notices : Unsubscribe(n)) \/ AccountChanges \/ UNCHANGED account
  BY DEF MailNext, NoticeNext, FeedbackNext, SendingNext, mailVars, Notify, LooksUp, Gates,
         PushesDigest, SendsNow, MarksSent, TaskDies, FlushPops, FlushLooksUp, FlushMails,
         FlushFails, AccountMail, MailChecks, MailSends, RedisTurns, ProviderReports, Webhook,
         EventMarks, RecordEvent, ClearReads, ClearWrites, EventDies
<1> QED BY <1>1, <1>2, <1>3, <1>4, <1>5

(* A fault or a change is counted where it happens.                         *)
LEMMA BudgetKept == Budget /\ [MailNext]_mailVars => Budget'
<1> SUFFICES ASSUME Budget, [MailNext]_mailVars PROVE Budget'
  OBVIOUS
<1>1. /\ Fault \/ UNCHANGED faults
      /\ Change \/ UNCHANGED changes
  BY DEF MailNext, NoticeNext, FeedbackNext, SendingNext, mailVars, Notify, LooksUp, Gates,
         PushesDigest, SendsNow, MarksSent, TaskDies, FlushPops, FlushLooksUp, FlushMails,
         FlushFails, AccountMail, MailChecks, MailSends, RedisTurns, ProviderReports, Webhook,
         EventMarks, RecordEvent, ClearReads, ClearWrites, EventDies, UpdateSettings,
         Unsubscribe, AccountChanges, ProviderTakes
<1> QED BY <1>1, MailAssumption DEF Fault, Change, Budget

(* What is switched stays a switch.                                         *)
LEMMA SwitchesKept == Switches /\ [MailNext]_mailVars => Switches'
<1> SUFFICES ASSUME Switches, [MailNext]_mailVars PROVE Switches'
  OBVIOUS
<1> USE DEF MailNext, NoticeNext, FeedbackNext, SendingNext, mailVars, Notify, LooksUp, Gates,
         PushesDigest, SendsNow, MarksSent, TaskDies, FlushPops, FlushLooksUp, FlushMails,
         FlushFails, AccountMail, MailChecks, MailSends, RedisTurns, ProviderReports, Webhook,
         EventMarks, RecordEvent, ClearReads, ClearWrites, EventDies, UpdateSettings,
         Unsubscribe, AccountChanges, Switches, eventVars
<1>1. redisUp' \in BOOLEAN
  OBVIOUS
<1>2. complained' \in BOOLEAN
  OBVIOUS
<1>3. crossing' \in BOOLEAN
  OBVIOUS
<1> QED BY <1>1, <1>2, <1>3

(* Only the task's own notice, and what a mail carries, enters the history; *)
(* only a bounce or a complaint enters the list.                            *)
LEMMA HistoryStays ==
    MailTyped /\ EventsInv /\ HistoryKnown /\ [MailNext]_mailVars => HistoryKnown'
<1> SUFFICES ASSUME MailTyped, EventsInv, HistoryKnown, [MailNext]_mailVars PROVE HistoryKnown'
  OBVIOUS
<1>0. /\ \A t \in Tasks : task[t].about \in Notices
      /\ \A m \in Mails : mail[m].items \subseteq Notices
      /\ flush.items \subseteq Notices
      /\ \A e \in Events : RecordEvent(e) => Reason[e[2]] \in {"hard_bounce", "complaint"}
  BY DEF MailTyped, TaskState, MailState, FlushState, RecordEvent, Events, Reason
<1> DEFINE Quiet == UNCHANGED <<marks, excused, shaken>>
<1>1. ASSUME NEW t \in Tasks,
             \/ \E n \in Notices : Notify(t, n)
             \/ LooksUp(t) \/ Gates(t) \/ PushesDigest(t)
             \/ \E o \in Outcomes : SendsNow(t, o)
             \/ MarksSent(t) \/ TaskDies(t)
      PROVE  HistoryKnown'
  <2>1. task[t].about \in Notices
    BY <1>0
  <2> QED
    BY <1>1, <2>1
    DEF Notify, LooksUp, Gates, PushesDigest, SendsNow, MarksSent, TaskDies, ProviderTakes, eventVars,
        HistoryKnown
<1>2. CASE FlushPops \/ FlushMails \/ FlushFails
  BY <1>0, <1>2 DEF FlushPops, FlushMails, FlushFails, eventVars, HistoryKnown
<1>3. CASE FlushLooksUp
  <2>1. PICK kept : excused' = excused \cup (flush.items \ kept)
    BY <1>3 DEF FlushLooksUp
  <2>2. excused' \subseteq Notices
    BY <1>0, <2>1 DEF HistoryKnown
  <2> QED BY <1>3, <2>2 DEF FlushLooksUp, eventVars, HistoryKnown
<1>4. ASSUME NEW m \in Mails,
             \/ AccountMail(m) \/ MailChecks(m)
             \/ \E outcome \in Outcomes : MailSends(m, outcome)
      PROVE  HistoryKnown'
  <2>1. mail[m].items \subseteq Notices
    BY <1>0
  <2> QED
    BY <1>4, <2>1
    DEF AccountMail, MailChecks, MailSends, ProviderTakes, eventVars, noticeVars, HistoryKnown
<1>5. ASSUME NEW e \in Events,
             \/ ProviderReports(e) \/ Webhook(e) \/ EventMarks(e) \/ RecordEvent(e)
             \/ ClearReads(e) \/ ClearWrites(e) \/ EventDies(e)
      PROVE  HistoryKnown'
  <2> HIDE DEF Events, Reason
  <2>1. CASE RecordEvent(e)
    <3>1. Reason[e[2]] \in {"hard_bounce", "complaint"}
      BY <1>0, <2>1
    <3> QED BY <2>1, <3>1 DEF RecordEvent, noticeVars, HistoryKnown, Events
  <2>2. CASE EventMarks(e)
    <3>1. seen' \subseteq Events
      BY <2>2 DEF EventMarks, HistoryKnown
    <3> QED BY <2>2, <3>1 DEF EventMarks, noticeVars, HistoryKnown, Events
  <2> QED
    BY <1>5, <2>1, <2>2
    DEF ProviderReports, Webhook, ClearReads, ClearWrites, EventDies, noticeVars, HistoryKnown,
        Events
<1>6. CASE \/ UpdateSettings \/ AccountChanges \/ RedisTurns
           \/ \E n \in Notices : Unsubscribe(n)
           \/ UNCHANGED mailVars
  BY <1>6 DEF UpdateSettings, AccountChanges, RedisTurns, Unsubscribe, mailVars, noticeVars,
              eventVars, HistoryKnown, Events
<1> QED BY <1>1, <1>2, <1>3, <1>4, <1>5, <1>6 DEF MailNext, NoticeNext, FeedbackNext, SendingNext

(* A task or mail that has used its retries is done.                        *)
LEMMA TriesStay == MailTyped /\ TriesCapped /\ [MailNext]_mailVars => TriesCapped'
<1> SUFFICES ASSUME MailTyped, TriesCapped, [MailNext]_mailVars PROVE TriesCapped'
  OBVIOUS
<1>0. /\ MaxRetries \in Nat /\ task \in [Tasks -> TaskState] /\ mail \in [Mails -> MailState]
      /\ \A t \in Tasks : task[t].tries \in Nat
      /\ \A m \in Mails : mail[m].tries \in Nat
  BY MailAssumption DEF MailTyped, TaskState, MailState
<1>1. ASSUME NEW t \in Tasks,
             \/ \E n \in Notices : Notify(t, n)
             \/ LooksUp(t) \/ Gates(t) \/ PushesDigest(t)
             \/ \E o \in Outcomes : SendsNow(t, o)
             \/ MarksSent(t) \/ TaskDies(t)
      PROVE  TriesCapped'
  <2>1. /\ UNCHANGED mail /\ \A u \in Tasks \ {t} : task'[u] = task[u]
    BY <1>0, <1>1
    DEF Notify, LooksUp, Gates, PushesDigest, SendsNow, MarksSent, TaskDies
  <2>2. TriesBounded(task'[t].tries, task'[t].pc)
    <3>0. task[t].pc # "done" => task[t].tries <= MaxRetries
      BY DEF TriesCapped, TriesBounded
    <3>1. CASE \E n \in Notices : Notify(t, n)
      BY <1>0, <3>1 DEF Notify, NoTask, TriesBounded
    <3>2. CASE LooksUp(t) \/ Gates(t) \/ PushesDigest(t) \/ MarksSent(t) \/ TaskDies(t)
      <4>1. task'[t].tries = task[t].tries /\ task[t].pc # "done"
        BY <1>0, <3>2 DEF LooksUp, Gates, PushesDigest, MarksSent, TaskDies, TaskState
      <4> QED BY <3>0, <4>1 DEF TriesBounded
    <3>3. ASSUME NEW o \in Outcomes, SendsNow(t, o) PROVE TriesBounded(task'[t].tries, task'[t].pc)
      <4>1. /\ task[t].pc = "urgent"
            /\ task'[t].tries = IF o = "accepted" THEN task[t].tries ELSE task[t].tries + 1
            /\ task'[t].pc = IF o = "accepted" THEN "marking"
                              ELSE IF GivesUp(o, task[t].tries) THEN "done" ELSE "queued"
        BY <1>0, <3>3 DEF SendsNow, TaskState
      <4> QED BY <1>0, <3>0, <4>1 DEF GivesUp, TriesBounded
    <3> QED BY <1>1, <3>1, <3>2, <3>3
  <2> QED BY <2>1, <2>2 DEF TriesCapped
<1>4. ASSUME NEW m \in Mails,
             \/ AccountMail(m) \/ MailChecks(m)
             \/ \E outcome \in Outcomes : MailSends(m, outcome)
      PROVE  TriesCapped'
  <2>1. /\ UNCHANGED task /\ \A o \in Mails \ {m} : mail'[o] = mail[o]
    BY <1>0, <1>4 DEF AccountMail, MailChecks, MailSends, noticeVars
  <2>2. TriesBounded(mail'[m].tries, mail'[m].pc)
    <3>0. mail[m].pc # "done" => mail[m].tries <= MaxRetries
      BY DEF TriesCapped, TriesBounded
    <3>1. CASE AccountMail(m)
      BY <1>0, <3>1 DEF AccountMail, NoMail, TriesBounded
    <3>2. CASE MailChecks(m)
      <4>1. mail'[m].tries = mail[m].tries /\ mail[m].pc # "done"
        BY <1>0, <3>2 DEF MailChecks, MailState
      <4> QED BY <3>0, <4>1 DEF TriesBounded
    <3>3. ASSUME NEW o \in Outcomes, MailSends(m, o) PROVE TriesBounded(mail'[m].tries, mail'[m].pc)
      <4>1. /\ mail[m].pc = "checked"
            /\ mail'[m].tries = IF o = "accepted" THEN mail[m].tries ELSE mail[m].tries + 1
            /\ mail'[m].pc = IF o = "accepted" \/ GivesUp(o, mail[m].tries) THEN "done" ELSE "queued"
        BY <1>0, <3>3 DEF MailSends, MailState
      <4> QED BY <1>0, <3>0, <4>1 DEF GivesUp, TriesBounded
    <3> QED BY <1>4, <3>1, <3>2, <3>3
  <2> QED BY <2>1, <2>2 DEF TriesCapped
<1>5. CASE FlushMails
  <2>1. PICK m \in Mails : \E items : mail' = [mail EXCEPT ![m] = [NoMail EXCEPT !.pc = "queued",
                                                                            !.items = items]]
    BY <1>5 DEF FlushMails
  <2>2. UNCHANGED task
    BY <1>5 DEF FlushMails
  <2>3. /\ \A o \in Mails \ {m} : mail'[o] = mail[o]
        /\ mail'[m].tries = 0
    BY <1>0, <2>1 DEF NoMail
  <2> QED BY <1>0, <2>2, <2>3 DEF TriesCapped, TriesBounded
<1>6. CASE UNCHANGED <<task, mail>>
  BY <1>6 DEF TriesCapped
<1>7. \/ \E t \in Tasks : \/ \E n \in Notices : Notify(t, n)
                          \/ LooksUp(t) \/ Gates(t) \/ PushesDigest(t)
                          \/ \E o \in Outcomes : SendsNow(t, o)
                          \/ MarksSent(t) \/ TaskDies(t)
      \/ \E m \in Mails : \/ AccountMail(m) \/ MailChecks(m)
                          \/ \E outcome \in Outcomes : MailSends(m, outcome)
      \/ FlushMails \/ UNCHANGED <<task, mail>>
  BY DEF MailNext, NoticeNext, FeedbackNext, SendingNext, mailVars, noticeVars, FlushPops,
         FlushLooksUp, FlushFails, RedisTurns, ProviderReports, Webhook, EventMarks, RecordEvent,
         ClearReads, ClearWrites, EventDies, UpdateSettings, Unsubscribe, AccountChanges
<1> QED BY <1>1, <1>4, <1>5, <1>6, <1>7

(* A full accumulator drops the entry and counts it all the same.           *)
LEMMA CountersStay == MailTyped /\ CountersKept /\ [MailNext]_mailVars => CountersKept'
<1> SUFFICES ASSUME MailTyped, CountersKept, [MailNext]_mailVars PROVE CountersKept'
  OBVIOUS
<1>1. \/ UNCHANGED <<digest, pushed>>
      \/ digest' = <<>> /\ pushed' = 0
      \/ pushed' = pushed + 1 /\ \E n \in Notices : digest' = SubSeq(Append(digest, n), 1,
             IF Len(Append(digest, n)) < MaxItems THEN Len(Append(digest, n)) ELSE MaxItems)
  <2>1. ASSUME NEW t \in Tasks, PushesDigest(t)
        PROVE  \/ UNCHANGED <<digest, pushed>>
               \/ pushed' = pushed + 1 /\ \E n \in Notices : digest' = SubSeq(Append(digest, n), 1,
                    IF Len(Append(digest, n)) < MaxItems THEN Len(Append(digest, n)) ELSE MaxItems)
    <3>1. task[t].about \in Notices
      BY DEF MailTyped, TaskState
    <3> QED BY <2>1, <3>1 DEF PushesDigest
  <2>2. CASE FlushPops
    BY <2>2 DEF FlushPops
  <2>3. (\E t \in Tasks : PushesDigest(t)) \/ FlushPops \/ UNCHANGED <<digest, pushed>>
    BY DEF MailNext, NoticeNext, FeedbackNext, SendingNext, mailVars, noticeVars, Notify, LooksUp,
           Gates, SendsNow, MarksSent, TaskDies, FlushLooksUp, FlushMails, FlushFails, AccountMail,
           MailChecks, MailSends, RedisTurns, ProviderReports, Webhook, EventMarks, RecordEvent,
           ClearReads, ClearWrites, EventDies, UpdateSettings, Unsubscribe, AccountChanges
  <2> QED BY <2>1, <2>2, <2>3
<1>2. /\ messages' = messages \/ messages' = messages + 1
      /\ copies' = copies \/ \E items : Counts(items)
  BY DEF MailNext, NoticeNext, FeedbackNext, SendingNext, mailVars, noticeVars, Notify, LooksUp,
         Gates, PushesDigest, SendsNow, MarksSent, TaskDies, FlushPops, FlushLooksUp, FlushMails,
         FlushFails, AccountMail, MailChecks, MailSends, RedisTurns, ProviderReports, Webhook,
         EventMarks, RecordEvent, ClearReads, ClearWrites, EventDies, UpdateSettings,
         Unsubscribe, AccountChanges, ProviderTakes
<1>3. pushed' \in Nat /\ pushed' >= Len(digest')
  <2>1. CASE UNCHANGED <<digest, pushed>>
    BY <2>1 DEF CountersKept
  <2>2. CASE digest' = <<>> /\ pushed' = 0
    BY <2>2
  <2>3. ASSUME pushed' = pushed + 1, NEW n \in Notices, digest' = SubSeq(Append(digest, n), 1,
             IF Len(Append(digest, n)) < MaxItems THEN Len(Append(digest, n)) ELSE MaxItems)
        PROVE  pushed' \in Nat /\ pushed' >= Len(digest')
    <3>1. /\ digest \in Seq(Notices) /\ Append(digest, n) \in Seq(Notices)
          /\ Len(digest) \in Nat /\ Len(Append(digest, n)) = Len(digest) + 1
      BY DEF MailTyped
    <3>2. PICK k \in 0..Len(Append(digest, n)) : digest' = SubSeq(Append(digest, n), 1, k)
      BY <2>3, <3>1, MailAssumption
    <3>3. Len(digest') = k
      BY <3>1, <3>2
    <3>4. k <= Len(digest) + 1 /\ pushed \in Nat /\ pushed >= Len(digest)
      BY <3>1, <3>2 DEF CountersKept
    <3>5. pushed' = pushed + 1 /\ k \in Nat /\ Len(digest) \in Nat
      BY <2>3, <3>1, <3>2
    <3> QED BY <3>3, <3>4, <3>5
  <2> QED BY <1>1, <2>1, <2>2, <2>3
<1>4. \A n \in Notices : copies'[n] <= 2
  BY <1>2 DEF Counts, CountersKept, MailTyped
<1>5. messages' \in Nat
  BY <1>2 DEF CountersKept
<1> QED BY <1>3, <1>4, <1>5 DEF CountersKept

MailAll == MailInv /\ MailBounded

(* All of it holds before the first notice,                                 *)
LEMMA MailAllStart == MailInit => MailAll
<1> SUFFICES ASSUME MailInit PROVE MailBounded
  BY MailStart DEF MailAll
<1>1. TriesCapped
  BY MailAssumption DEF MailInit, TriesCapped, TriesBounded, NoTask, NoMail
<1>2. CountersKept
  BY DEF MailInit, CountersKept
<1>3. HistoryKnown /\ Switches /\ AccountTyped
  BY DEF MailInit, HistoryKnown, Switches, AccountTyped
<1>4. Budget
  BY MailAssumption DEF MailInit, Budget
<1> QED BY <1>1, <1>2, <1>3, <1>4 DEF MailBounded

(* through every step of either direction,                                  *)
LEMMA MailAllStep == MailAll /\ [MailNext]_mailVars => MailAll'
<1> SUFFICES ASSUME MailAll, [MailNext]_mailVars PROVE MailAll'
  OBVIOUS
<1>1. MailInv'
  BY MailStep DEF MailAll, MailNext
<1>2. MailTyped
  BY DEF MailAll, MailInv, NoticesInv
<1>3. MailBounded'
  BY <1>2, TriesStay, CountersStay, HistoryStays, SwitchesKept, BudgetKept, AccountKept
  DEF MailAll, MailInv, MailBounded
<1> QED BY <1>1, <1>3 DEF MailAll

(* and types every record.                                                  *)
LEMMA MailAllTyped == MailAll => MailTypeOK
<1> SUFFICES ASSUME MailAll PROVE MailTypeOK
  OBVIOUS
<1>0. MailTyped /\ EventsInv
  BY DEF MailAll, MailInv, NoticesInv
<1>1. task \in [Tasks -> [pc : {"none", "queued", "wanted", "urgent", "digest", "marking", "done"},
                          about : Notices, tries : 0..MaxRetries + 1]]
  <2> SUFFICES ASSUME NEW t \in Tasks
               PROVE  task[t] \in [pc : {"none", "queued", "wanted", "urgent", "digest", "marking",
                                         "done"}, about : Notices, tries : 0..MaxRetries + 1]
    BY <1>0 DEF MailTyped
  <2>1. task[t] \in TaskState /\ TriesBounded(task[t].tries, task[t].pc)
    BY <1>0 DEF MailTyped, MailAll, MailBounded, TriesCapped
  <2>2. task[t].tries \in 0..MaxRetries + 1
    BY <2>1, MailAssumption DEF TaskState, TriesBounded
  <2> QED BY <2>1, <2>2 DEF TaskState, TaskPcs
<1>2. mail \in [Mails -> [pc : {"none", "queued", "checked", "done"}, items : SUBSET Notices,
                          tries : 0..MaxRetries + 1]]
  <2> SUFFICES ASSUME NEW m \in Mails
               PROVE  mail[m] \in [pc : {"none", "queued", "checked", "done"},
                                   items : SUBSET Notices, tries : 0..MaxRetries + 1]
    BY <1>0 DEF MailTyped
  <2>1. mail[m] \in MailState /\ TriesBounded(mail[m].tries, mail[m].pc)
    BY <1>0 DEF MailTyped, MailAll, MailBounded, TriesCapped
  <2>2. mail[m].tries \in 0..MaxRetries + 1
    BY <2>1, MailAssumption DEF MailState, TriesBounded
  <2> QED BY <2>1, <2>2 DEF MailState
<1>3. copies \in [Notices -> 0..2]
  BY <1>0 DEF MailTyped, MailAll, MailBounded, CountersKept
<1>4. /\ digest \in Seq(Notices) /\ Len(digest) <= MaxItems /\ pushed >= Len(digest)
      /\ flush \in [pc : {"idle", "popped", "mailing"}, items : SUBSET Notices] /\ messages \in Nat
  BY <1>0 DEF MailTyped, MailAll, MailBounded, CountersKept, FlushState
<1>5. /\ account \in [live : BOOLEAN, watching : BOOLEAN, wants : SUBSET Categories]
      /\ faults \in 0..MaxFaults /\ changes \in 0..MaxChanges
      /\ redisUp \in BOOLEAN /\ complained \in BOOLEAN /\ crossing \in BOOLEAN
  BY DEF MailAll, MailBounded, AccountTyped, Budget, Switches
<1>6. /\ marks \subseteq Notices /\ seen \subseteq Events /\ excused \subseteq Notices
      /\ shaken \subseteq Notices
      /\ {suppression, flag} \subseteq {"none", "hard_bounce", "complaint"}
  BY DEF MailAll, MailBounded, HistoryKnown
<1>7. /\ event \in [Events -> {"none", "due", "queued", "marked", "clearing", "unflagging", "done"}]
      /\ applied \in Seq(Events)
  BY <1>0 DEF EventsInv
<1> QED BY <1>1, <1>2, <1>3, <1>4, <1>5, <1>6, <1>7 DEF MailTypeOK

(* Notices, mails and delivery events stay well formed.                     *)
LEMMA MailTypeCorrect == MailSpec => []MailTypeOK
  BY MailAllStart, MailAllStep, MailAllTyped, PTL DEF MailSpec, MailNext

-----------------------------------------------------------------------------
(* All of it together: the instance that is model-checked plays one scenario*)
(* of one component at a time, so it runs every component's specification.  *)

(* A step of the whole is a step of one component or leaves it alone.       *)
LEMMA EveryStepIsAComponents ==
    ASSUME [Next]_allVars
    PROVE  /\ [SessionsNext]_sessionVars /\ [AccountsNext]_accountVars
           /\ [NoticeNext \/ FeedbackNext]_mailVars
           /\ [VideoNext \/ TextNext]_mediaVars /\ [ProgressNext]_progressVars
           /\ [CourseStreamNext]_courseStreamVars /\ [RenderNext]_renderVars
           /\ [SpeechNext]_speechVars
<1>1. CASE Peopled
  BY <1>1 DEF Peopled, SessionsScenario, AccountsNext
<1>2. CASE Made
  BY <1>2 DEF Made, RenderingScenario
<1>3. CASE UNCHANGED allVars
  BY <1>3 DEF allVars
<1> QED BY <1>1, <1>2, <1>3 DEF Next

(* The account a lifecycle starts with is a live one.                       *)
LEMMA LifecycleStarts == AccountsInScenario => AccountsInv
<1> SUFFICES ASSUME AccountsInScenario, scenario = "lifecycle" PROVE AccountsInv
  BY AccountsStart DEF AccountsInScenario
<1> DEFINE living == [exists |-> TRUE, email |-> x, verified |-> TRUE, deleted |-> FALSE,
                      active |-> TRUE]
<1>1. /\ NoUser \in UserRow /\ ~NoUser.exists /\ living \in UserRow
      /\ living.exists /\ ~living.deleted /\ ~Anonymized(living) /\ living.active
  BY InstanceAssumption, AccountsAssumption DEF NoUser, UserRow, Anonymized
<1> HIDE DEF living
<1>2. /\ user = [u \in Accounts |-> IF u = u1 THEN living ELSE NoUser]
      /\ identity = [i \in Identities |-> u1] /\ u1 \in Accounts
      /\ elapsed = {} /\ mails = {} /\ inFlight = {} /\ learning = {}
      /\ overlapped = {} /\ caller = [c \in Callers |-> NoCall]
  BY InstanceAssumption DEF AccountsInScenario, living
<1>3. AccountsTyped
  BY <1>1, <1>2 DEF AccountsTyped
<1>4. CallsSound /\ OneHand /\ StillLoaded
  BY <1>2, NoCallSound DEF CallsSound, OneHand, StillLoaded, Has
<1>5. LiveKept
  BY <1>1, <1>2 DEF LiveKept, Harmless
<1> QED BY <1>3, <1>4, <1>5 DEF AccountsInv

(* The whole therefore runs every component's specification.                *)
LEMMA PlatformRunsComponents ==
    Spec => /\ SessionsSpec /\ MailSpec /\ MediaSpec /\ ProgressSpec /\ CourseStreamSpec
            /\ RenderSpec /\ SpeechSpec
<1>1. Init => /\ SessionsInit /\ MailInit /\ MediaInit /\ ProgressInit /\ CourseStreamInit
              /\ RenderInit /\ SpeechInit
  BY DEF Init
<1>2. [Next]_allVars =>
           /\ [SessionsNext]_sessionVars /\ [NoticeNext \/ FeedbackNext]_mailVars
           /\ [VideoNext \/ TextNext]_mediaVars /\ [ProgressNext]_progressVars
           /\ [CourseStreamNext]_courseStreamVars /\ [RenderNext]_renderVars
           /\ [SpeechNext]_speechVars
  BY EveryStepIsAComponents
<1> QED
  BY <1>1, <1>2, PTL
  DEF Spec, SessionsSpec, MailSpec, MediaSpec, ProgressSpec, CourseStreamSpec, RenderSpec, SpeechSpec

(* Accounts start from either of two states.                                *)
LEMMA PlatformKeepsAccounts == Spec => []AccountsInv
<1>1. Init => AccountsInv
  BY LifecycleStarts DEF Init
<1>2. AccountsInv /\ [Next]_allVars => AccountsInv'
  BY EveryStepIsAComponents, AccountsStep
<1> QED BY <1>1, <1>2, PTL DEF Spec

(* Media have as many names as versions can be made.                        *)
LEMMA MediaTypeCorrect == MediaSpec => []MediaTypeOK
<1>1. MediaAll => MediaTypeOK
  BY MediaAllTyped, InstanceAssumption
<1> QED BY <1>1, MediaAllStart, MediaAllStep, PTL DEF MediaSpec

(* The instance's state is well formed in every scenario, for every value   *)
(* of the constants: every record, every program counter, every bound on    *)
(* what is counted.                                                         *)
THEOREM PlatformTypeCorrect == Spec => []TypeOK
<1>1. Spec => [](scenario \in Scenarios)
  <2>1. Init => scenario \in Scenarios
    BY DEF Init
  <2>2. scenario \in Scenarios /\ [Next]_allVars => (scenario \in Scenarios)'
    BY DEF Next, allVars
  <2> QED BY <2>1, <2>2, PTL DEF Spec
<1>2. /\ scenario \in Scenarios /\ SessionsTypeOK /\ AccountsTypeOK /\ MailTypeOK /\ MediaTypeOK
      /\ ProgressTypeOK /\ CourseStreamTypeOK /\ RenderTypeOK /\ SpeechTypeOK
      => TypeOK
  BY DEF TypeOK
<1> QED
  BY <1>1, <1>2, PlatformRunsComponents, PlatformKeepsAccounts, AccountsAllTyped,
     SessionsTypeCorrect, MailTypeCorrect, MediaTypeCorrect, ProgressTypeCorrect,
     StreamsTypeCorrect, RenderTypeCorrect, SpeechTypeCorrect, PTL

(* What the run checks of the instance holds of it for every value of the   *)
(* constants: the promises of the components outlive their composition.     *)
THEOREM PlatformKeepsItsPromises ==
    Spec => /\ []OnlyRacesOutliveRevocation /\ []OnlyOverlapsHarmLive
            /\ []MailAccountedFor /\ []MediaIntact
            /\ []StaleOnlyIfDeaf /\ []SpokenAsWritten
            /\ EndSeenOrMailed /\ OnlyLeftoversSpoilVideos
<1>1. AccountsInv => OnlyOverlapsHarmLive
  BY DEF AccountsInv, LiveKept, Harmless, OnlyOverlapsHarmLive, Live
<1> QED
  BY <1>1, PlatformRunsComponents, PlatformKeepsAccounts, EndedSessionsStayEnded,
     NoticesReachTheirOwner, MediaStaysIntact, NobodyForgotten, SpeechIsTheText, EndReachesOwner,
     VideosShowTheLesson, PTL
=============================================================================
