------------------------------ MODULE Accounts ------------------------------
(***************************************************************************)
(* The users table over an account's life: registration and social         *)
(* sign-in, deletion by mailed link, restore, early release of the address,*)
(* change of the address and the daily purge.  A request loads a row,      *)
(* decides, and commits the columns it changed; only the purge locks.      *)
(***************************************************************************)
EXTENDS Naturals, FiniteSets

CONSTANTS
    Accounts,   \* users rows that may come to exist
    Addresses,  \* mailboxes
    Identities, \* provider accounts, each with a fixed mailbox
    Callers,    \* requests in flight at a time
    Nobody,     \* no account
    Tombstone   \* deleted+<id>@<reserved domain>

ASSUME AccountsAssumption == Nobody \notin Accounts /\ Tombstone \notin Addresses

VARIABLES
    user,      \* users
    elapsed,   \* accounts deleted longer ago than SOFT_DELETE_PURGE_DAYS
    identity,  \* oauth_accounts: provider subject -> user
    mails,     \* signed links that were mailed and are not spent
    inFlight,  \* owners of a lesson that is being generated
    learning,  \* accounts with enrolments of their own or of their students
    caller,
    overlapped    \* history: accounts two requests had in hand at once

accountVars == <<user, elapsed, identity, mails, inFlight, learning, caller, overlapped>>

UserRow == [exists : BOOLEAN, email : Addresses \cup {Tombstone}, verified : BOOLEAN,
            deleted : BOOLEAN, active : BOOLEAN]
NoUser == [exists |-> FALSE, email |-> Tombstone, verified |-> FALSE,
           deleted |-> FALSE, active |-> FALSE]
Anonymized(row) == row.email = Tombstone
Live(u) == user[u].exists /\ ~user[u].deleted
Usable(row) == row.exists /\ ~row.deleted /\ row.active

Mail(kind, u, old, new) == [kind |-> kind, u |-> u, old |-> old, new |-> new]
Doing(pc, u, addr, id) ==
    [pc |-> pc, u |-> u, row |-> IF u = Nobody THEN NoUser ELSE user[u],
     addr |-> addr, id |-> id]
NoCall == [pc |-> "idle", u |-> Nobody, row |-> NoUser, addr |-> Tombstone, id |-> Nobody]

(* c goes on with `call`; two requests may now have one account in hand.   *)
InHand(u) == \E c \in Callers : caller[c].u = u /\ caller[c].row.exists
Turns(c, call) ==
    /\ caller' = [caller EXCEPT ![c] = call]
    /\ overlapped' = overlapped \cup
          {u \in Accounts : call.u = u /\ call.row.exists /\
               \E d \in Callers \ {c} : caller[d].u = u /\ caller[d].row.exists}

Holders(a) == {u \in Accounts : user[u].exists /\ user[u].email = a}

(* The changed columns of a loaded row are written over the current one.   *)
Merge(loaded, new, current) ==
    [f \in DOMAIN new |-> IF new[f] # loaded[f] THEN new[f] ELSE current[f]]

Writes(c, new) ==
    LET me == caller[c] IN user' = [user EXCEPT ![me.u] = Merge(me.row, new, @)]

Gone(c) == ~user[caller[c].u].exists
Fails(c) == Turns(c, NoCall) /\ UNCHANGED <<user, elapsed, identity, mails, inFlight, learning>>

(* anonymize_user_fields.                                                  *)
Anonymous(row) == [row EXCEPT !.email = Tombstone, !.active = FALSE]

-----------------------------------------------------------------------------
(* register: nobody holds the address, deleted accounts included; the      *)
(* insert meets UNIQUE (email).                                            *)
RegisterChecks(c, a) ==
    /\ caller[c].pc = "idle" /\ Holders(a) = {}
    /\ Turns(c, Doing("registering", Nobody, a, Nobody))
    /\ UNCHANGED <<user, elapsed, identity, mails, inFlight, learning>>

NewUser(c, verified) ==
    LET u == CHOOSE x \in Accounts : ~user[x].exists IN
    user' = [user EXCEPT ![u] = [exists |-> TRUE, email |-> caller[c].addr,
                 verified |-> verified, deleted |-> FALSE, active |-> TRUE]]

RegisterInserts(c) ==
    /\ caller[c].pc = "registering"
    /\ IF Holders(caller[c].addr) # {} THEN Fails(c)
       ELSE /\ \E x \in Accounts : ~user[x].exists
            /\ NewUser(c, FALSE)
            /\ Turns(c, NoCall)
            /\ UNCHANGED <<elapsed, identity, mails, inFlight, learning>>

(* A social sign-in of provider account i with mailbox a: a linked user, a *)
(* user with this mailbox, or a one-shot ticket for the sign-up page.      *)
OAuthResolves(c, i, a) ==
    LET known == IF identity[i] # Nobody THEN {identity[i]} ELSE Holders(a) IN
    /\ caller[c].pc = "idle"
    /\ \/ \E u \in known : /\ Usable(user[u])
                           /\ Turns(c, Doing(IF identity[i] # Nobody THEN "signing"
                                             ELSE "linking", u, a, i))
       \/ known = {} /\ Turns(c, Doing("ticket", Nobody, a, i))
    /\ UNCHANGED <<user, elapsed, identity, mails, inFlight, learning>>

(* Branch A only refreshes the picture; B links and proves the mailbox;    *)
(* the insert meets UNIQUE (provider, provider_user_id).                   *)
OAuthLinks(c) ==
    LET me == caller[c] IN
    /\ me.pc \in {"signing", "linking"}
    /\ IF Gone(c) \/ (me.pc = "linking" /\ identity[me.id] # Nobody) THEN Fails(c)
       ELSE /\ Writes(c, IF me.pc = "linking" THEN [me.row EXCEPT !.verified = TRUE]
                         ELSE me.row)
            /\ identity' = [identity EXCEPT ![me.id] = me.u]
            /\ Turns(c, NoCall)
            /\ UNCHANGED <<elapsed, mails, inFlight, learning>>

(* complete: the ticket is taken once; a mailbox registered meanwhile is   *)
(* linked instead of created.                                              *)
OAuthCompletes(c) ==
    LET me == caller[c] IN
    /\ me.pc = "ticket"
    /\ IF Holders(me.addr) # {}
       THEN \E u \in Holders(me.addr) :
              /\ Turns(c, IF Usable(user[u]) THEN Doing("linking", u, me.addr, me.id)
                          ELSE NoCall)
              /\ UNCHANGED <<user, identity>>
       ELSE IF identity[me.id] # Nobody
       THEN Turns(c, NoCall) /\ UNCHANGED <<user, identity>>
       ELSE /\ \E x \in Accounts : ~user[x].exists
            /\ NewUser(c, TRUE)
            /\ identity' = [identity EXCEPT ![me.id] = CHOOSE x \in Accounts : ~user[x].exists]
            /\ Turns(c, NoCall)
    /\ UNCHANGED <<elapsed, mails, inFlight, learning>>

-----------------------------------------------------------------------------
(* A lesson of a signed-in teacher is launched, and ends.                  *)
LaunchLoads(c, u) ==
    /\ caller[c].pc = "idle" /\ Usable(user[u])
    /\ Turns(c, Doing("launching", u, Tombstone, Nobody))
    /\ UNCHANGED <<user, elapsed, identity, mails, inFlight, learning>>

LaunchCommits(c) ==
    /\ caller[c].pc = "launching"
    /\ inFlight' = IF Gone(c) THEN inFlight ELSE inFlight \cup {caller[c].u}
    /\ Turns(c, NoCall)
    /\ UNCHANGED <<user, elapsed, identity, mails, learning>>

LessonEnds(u) ==
    /\ u \in inFlight
    /\ inFlight' = inFlight \ {u}
    /\ UNCHANGED <<user, elapsed, identity, mails, learning, caller, overlapped>>

Enrols(u) ==
    /\ Usable(user[u]) /\ learning' = learning \cup {u}
    /\ UNCHANGED <<user, elapsed, identity, mails, inFlight, caller, overlapped>>

-----------------------------------------------------------------------------
RequestDeletion(u) ==
    /\ Usable(user[u]) /\ u \notin inFlight
    /\ mails' = mails \cup {Mail("delete", u, Tombstone, Tombstone)}
    /\ UNCHANGED <<user, elapsed, identity, inFlight, learning, caller, overlapped>>

(* Every confirmation burns its link first (SET NX) and only then looks at *)
(* the account.                                                            *)
Burns(c, link, pc) ==
    /\ caller[c].pc = "idle" /\ link \in mails
    /\ mails' = mails \ {link}
    /\ Turns(c, [NoCall EXCEPT !.pc = pc, !.u = link.u, !.addr = link.new, !.row.email = link.old])
    /\ UNCHANGED <<user, elapsed, identity, inFlight, learning>>

DeletionLoads(c) ==
    LET u == caller[c].u IN
    /\ caller[c].pc = "deleting?"
    /\ Turns(c, IF Live(u) /\ u \notin inFlight THEN Doing("deleting", u, Tombstone, Nobody)
                ELSE NoCall)
    /\ UNCHANGED <<user, elapsed, identity, mails, inFlight, learning>>

DeletionCommits(c) ==
    LET me == caller[c] IN
    /\ me.pc = "deleting"
    /\ IF Gone(c) THEN Fails(c)
       ELSE /\ Writes(c, [me.row EXCEPT !.deleted = TRUE, !.active = FALSE])
            /\ elapsed' = elapsed \ {me.u}
            /\ mails' = mails \cup {Mail("restore", me.u, Tombstone, Tombstone)}
            /\ Turns(c, NoCall)
            /\ UNCHANGED <<identity, inFlight, learning>>

(* The restore link can be used again and again within the window.         *)
RestoreLoads(c, u) ==
    /\ caller[c].pc = "idle"
    /\ Mail("restore", u, Tombstone, Tombstone) \in mails
    /\ user[u].exists /\ user[u].deleted /\ ~Anonymized(user[u]) /\ u \notin elapsed
    /\ Turns(c, Doing("restoring", u, Tombstone, Nobody))
    /\ UNCHANGED <<user, elapsed, identity, mails, inFlight, learning>>

RestoreCommits(c) ==
    LET me == caller[c] IN
    /\ me.pc = "restoring"
    /\ IF Gone(c) THEN Fails(c)
       ELSE /\ Writes(c, [me.row EXCEPT !.deleted = FALSE, !.active = TRUE])
            /\ Turns(c, NoCall)
            /\ UNCHANGED <<elapsed, identity, mails, inFlight, learning>>

RequestRelease(u) ==
    /\ user[u].exists /\ user[u].deleted /\ ~Anonymized(user[u]) /\ u \notin elapsed
    /\ mails' = mails \cup {Mail("release", u, Tombstone, Tombstone)}
    /\ UNCHANGED <<user, elapsed, identity, inFlight, learning, caller, overlapped>>

Releasable_AtMailTime(u) == user[u].exists
Releasable(u) == user[u].exists /\ user[u].deleted /\ ~Anonymized(user[u])

ReleaseLoads(c) ==
    LET u == caller[c].u IN
    /\ caller[c].pc = "releasing?"
    /\ Turns(c, IF Releasable(u) THEN Doing("releasing", u, Tombstone, Nobody) ELSE NoCall)
    /\ UNCHANGED <<user, elapsed, identity, mails, inFlight, learning>>

ReleaseCommits(c) ==
    LET me == caller[c] IN
    /\ me.pc = "releasing"
    /\ IF Gone(c) THEN Fails(c)
       ELSE /\ Writes(c, Anonymous(me.row))
            /\ Turns(c, NoCall)
            /\ UNCHANGED <<elapsed, identity, mails, inFlight, learning>>

RequestChange(u, new) ==
    /\ Usable(user[u]) /\ new # user[u].email /\ Holders(new) = {}
    /\ mails' = mails \cup {Mail("change", u, user[u].email, new)}
    /\ UNCHANGED <<user, elapsed, identity, inFlight, learning, caller, overlapped>>

(* The link is pinned to the address the account had when it was mailed.   *)
ChangeLoads(c) ==
    LET me == caller[c] IN
    /\ me.pc = "changing?"
    /\ Turns(c, IF /\ Live(me.u) /\ user[me.u].email = me.row.email
                   /\ Holders(me.addr) = {}
                THEN Doing("changing", me.u, me.addr, Nobody) ELSE NoCall)
    /\ UNCHANGED <<user, elapsed, identity, mails, inFlight, learning>>

ChangeCommits(c) ==
    LET me == caller[c] IN
    /\ me.pc = "changing"
    /\ IF Gone(c) \/ Holders(me.addr) # {} THEN Fails(c)
       ELSE /\ Writes(c, [me.row EXCEPT !.email = me.addr, !.verified = TRUE])
            /\ Turns(c, NoCall)
            /\ UNCHANGED <<elapsed, identity, mails, inFlight, learning>>

-----------------------------------------------------------------------------
WindowElapses(u) ==
    /\ user[u].exists /\ user[u].deleted
    /\ elapsed' = elapsed \cup {u}
    /\ UNCHANGED <<user, identity, mails, inFlight, learning, caller, overlapped>>

(* _user_purge_guard under FOR UPDATE: deleted and old are read again; an  *)
(* account with learning data is anonymized and kept.                      *)
StillDue_AsScanned(u) == u \in elapsed
StillDue(u) == user[u].deleted /\ u \in elapsed

PurgeUser(u) ==
    /\ user[u].exists /\ StillDue(u)
    /\ IF u \in learning
       THEN user' = [user EXCEPT ![u] = Anonymous(@)] /\ UNCHANGED <<identity, inFlight>>
       ELSE /\ user' = [user EXCEPT ![u] = NoUser]
            /\ identity' = [i \in Identities |-> IF identity[i] = u THEN Nobody ELSE identity[i]]
            /\ inFlight' = inFlight \ {u}
    /\ overlapped' = IF InHand(u) THEN overlapped \cup {u} ELSE overlapped
    /\ UNCHANGED <<elapsed, mails, learning, caller>>

SignInNext ==
    \/ \E c \in Callers :
        \/ \E a \in Addresses : RegisterChecks(c, a)
        \/ RegisterInserts(c)
        \/ \E i \in Identities, a \in Addresses : OAuthResolves(c, i, a)
        \/ OAuthLinks(c) \/ OAuthCompletes(c)
        \/ \E link \in mails : link.kind = "change" /\ Burns(c, link, "changing?")
        \/ ChangeLoads(c) \/ ChangeCommits(c)
    \/ \E u \in Accounts, new \in Addresses : RequestChange(u, new)

LifecycleNext ==
    \/ \E c \in Callers :
        \/ \E u \in Accounts : LaunchLoads(c, u) \/ RestoreLoads(c, u)
        \/ LaunchCommits(c) \/ RestoreCommits(c)
        \/ \E link \in mails :
              \/ link.kind = "delete" /\ Burns(c, link, "deleting?")
              \/ link.kind = "release" /\ Burns(c, link, "releasing?")
        \/ DeletionLoads(c) \/ DeletionCommits(c)
        \/ ReleaseLoads(c) \/ ReleaseCommits(c)
    \/ \E u \in Accounts :
        \/ LessonEnds(u) \/ Enrols(u) \/ RequestDeletion(u) \/ RequestRelease(u)
        \/ WindowElapses(u) \/ PurgeUser(u)

AccountsNext == SignInNext \/ LifecycleNext

AccountsInit ==
    /\ user = [u \in Accounts |-> NoUser]
    /\ identity = [i \in Identities |-> Nobody]
    /\ elapsed = {} /\ mails = {} /\ inFlight = {} /\ learning = {} /\ overlapped = {}
    /\ caller = [c \in Callers |-> NoCall]

AccountsSpec == AccountsInit /\ [][AccountsNext]_accountVars

-----------------------------------------------------------------------------
AccountsTypeOK ==
    /\ user \in [Accounts -> UserRow]
    /\ identity \in [Identities -> Accounts \cup {Nobody}]
    /\ {elapsed, inFlight, learning, overlapped} \subseteq SUBSET Accounts

(* "a live account must never be anonymized by a link that predates the    *)
(* restore", and nothing is generated for a deleted account: both hold     *)
(* unless two requests had the same account in hand at once.               *)
OnlyOverlapsHarmLive ==
    \A u \in Accounts \ overlapped :
        /\ Live(u) => ~Anonymized(user[u]) /\ user[u].active
        /\ user[u].exists /\ user[u].deleted => u \notin inFlight

=============================================================================
