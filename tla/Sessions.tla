------------------------------ MODULE Sessions ------------------------------
(***************************************************************************)
(* One user's sessions.  A login mints a family of rotating refresh tokens *)
(* whose current jti is one Redis key; refresh reads the key, looks at the *)
(* user and overwrites it; logout deletes it; logout-all, a new password   *)
(* and an account deletion scan for all of them.  Every Redis call is a    *)
(* step of its own: nothing ties a read to the write that follows it.      *)
(***************************************************************************)
EXTENDS Naturals, FiniteSets

CONSTANTS
    Families,     \* family ids; each is used once
    Requests,     \* requests in flight at a time
    ResetTokens,  \* rows of password_reset_tokens
    NoFamily, NoToken,
    MaxMints,     \* bound on the tokens of one family (exploration only)
    MaxPasswords  \* bound on password changes (exploration only)

ASSUME SessionsAssumption == MaxMints \in Nat \ {0} /\ MaxPasswords \in Nat

VARIABLES
    family,       \* refresh:{user}:{family}: the current jti, 0 without key
    minted,       \* the number of refresh tokens minted for a family
    born,         \* the password a family was opened under
    password,     \* version of users.hashed_password
    active,       \* users.is_active, not soft-deleted
    resetToken,   \* password_reset_tokens
    blacklisted,  \* families whose access token is on the blacklist
    request,
    closed,       \* history: families whose key was deleted
    raced,        \* history: families some request was already deciding on
    interrupted   \* history: a request died between its commit and its wipe

sessionVars == <<family, minted, born, password, active, resetToken,
                 blacklisted, request, closed, raced, interrupted>>

Request == [pc : {"idle", "issuing", "burning", "checking", "rotating", "leaving",
                  "resetting", "changing", "towipe", "wiping"},
            f : Families \cup {NoFamily}, tok : ResetTokens \cup {NoToken},
            pw : Nat, left : SUBSET Families, then : {"idle", "issuing"}]
NoRequestYet == [pc |-> "idle", f |-> NoFamily, tok |-> NoToken, pw |-> 0,
                 left |-> {}, then |-> "idle"]

Open == {f \in Families : family[f] # 0}
Free(r) == request[r].pc = "idle"
Becomes(r, rec) == request' = [request EXCEPT ![r] = rec]

Deciding(f) == \E r \in Requests : request[r].f = f /\ request[r].pc \in {"checking", "rotating"}

(* redis.delete of one family key.                                         *)
Drop(f, requests) ==
    /\ family' = [family EXCEPT ![f] = 0]
    /\ closed' = IF family[f] # 0 THEN closed \cup {f} ELSE closed
    /\ raced' = IF Deciding(f) THEN raced \cup {f} ELSE raced
    /\ request' = [r \in Requests |-> [requests[r] EXCEPT !.left = @ \ {f}]]

-----------------------------------------------------------------------------
(* login: the password is checked, then issue_session starts a family.     *)
LoginChecks(r) ==
    /\ Free(r) /\ active
    /\ Becomes(r, [NoRequestYet EXCEPT !.pc = "issuing", !.pw = password])
    /\ UNCHANGED <<family, minted, born, password, active, resetToken, blacklisted,
                   closed, raced, interrupted>>

IssueSession(r) ==
    LET f == CHOOSE x \in Families : minted[x] = 0 IN
    /\ request[r].pc = "issuing"
    /\ \E x \in Families : minted[x] = 0
    /\ family' = [family EXCEPT ![f] = 1]
    /\ minted' = [minted EXCEPT ![f] = 1]
    /\ born' = [born EXCEPT ![f] = request[r].pw]
    /\ raced' = IF request[r].pw # password THEN raced \cup {f} ELSE raced
    /\ Becomes(r, NoRequestYet)
    /\ UNCHANGED <<password, active, resetToken, blacklisted, closed, interrupted>>

(* refresh with any token of the family that was ever handed out: the key  *)
(* is missing (401), holds another jti (reuse: the family is burnt) or     *)
(* this one.                                                               *)
KeyFound_Assumed(f) == minted[f] # 0
KeyFound(f) == family[f] # 0

RefreshReads(r, f, jti) ==
    /\ Free(r) /\ KeyFound(f) /\ jti \in 1..minted[f]
    /\ Becomes(r, [NoRequestYet EXCEPT !.f = f,
                    !.pc = IF family[f] \in {0, jti} THEN "checking" ELSE "burning"])
    /\ UNCHANGED <<family, minted, born, password, active, resetToken, blacklisted,
                   closed, raced, interrupted>>

(* The absolute deadline may have passed; the user may be gone.            *)
RefreshChecks(r) ==
    /\ request[r].pc = "checking"
    /\ \/ active /\ request' = [request EXCEPT ![r].pc = "rotating"]
       \/ request' = [request EXCEPT ![r].pc = "burning"]
    /\ UNCHANGED <<family, minted, born, password, active, resetToken, blacklisted,
                   closed, raced, interrupted>>

RefreshBurns(r) ==
    /\ request[r].pc = "burning"
    /\ Drop(request[r].f, [request EXCEPT ![r] = NoRequestYet])
    /\ UNCHANGED <<minted, born, password, active, resetToken, blacklisted, interrupted>>

(* _mint_pair: the new jti under the same key, whatever the key holds now. *)
RefreshMints(r) ==
    LET f == request[r].f IN
    /\ request[r].pc = "rotating"
    /\ minted[f] < MaxMints
    /\ minted' = [minted EXCEPT ![f] = @ + 1]
    /\ family' = [family EXCEPT ![f] = minted'[f]]
    /\ Becomes(r, NoRequestYet)
    /\ UNCHANGED <<born, password, active, resetToken, blacklisted, closed, raced,
                   interrupted>>

(* logout: the access jti goes on the blacklist, then the key is deleted;  *)
(* an exception in between is swallowed.                                   *)
Logout(r, f) ==
    /\ Free(r) /\ minted[f] # 0
    /\ blacklisted' = blacklisted \cup {f}
    /\ Becomes(r, [NoRequestYet EXCEPT !.pc = "leaving", !.f = f])
    /\ UNCHANGED <<family, minted, born, password, active, resetToken, closed, raced,
                   interrupted>>

LogoutDeletes(r) ==
    /\ request[r].pc = "leaving"
    /\ Drop(request[r].f, [request EXCEPT ![r] = NoRequestYet])
    /\ UNCHANGED <<minted, born, password, active, resetToken, blacklisted, interrupted>>

-----------------------------------------------------------------------------
(* forgot_password commits a token row.                                    *)
ForgotPassword(t) ==
    /\ active /\ resetToken[t] = "none"
    /\ resetToken' = [resetToken EXCEPT ![t] = "issued"]
    /\ UNCHANGED <<family, minted, born, password, active, blacklisted, request,
                   closed, raced, interrupted>>

(* consume reads the row without a lock; the burn is committed with the    *)
(* new hash.                                                               *)
ResetLoads(r, t) ==
    /\ Free(r) /\ active /\ resetToken[t] = "issued"
    /\ Becomes(r, [NoRequestYet EXCEPT !.pc = "resetting", !.tok = t])
    /\ UNCHANGED <<family, minted, born, password, active, resetToken, blacklisted,
                   closed, raced, interrupted>>

ResetCommits(r) ==
    /\ request[r].pc = "resetting"
    /\ password < MaxPasswords
    /\ password' = password + 1
    /\ resetToken' = [resetToken EXCEPT ![request[r].tok] = "used"]
    /\ Becomes(r, [NoRequestYet EXCEPT !.pc = "towipe"])
    /\ UNCHANGED <<family, minted, born, active, blacklisted, closed, raced, interrupted>>

(* change_password: the old hash is verified, the new one committed, every *)
(* family wiped and one opened for the caller.                             *)
PasswordChecks(r) ==
    /\ Free(r) /\ active
    /\ Becomes(r, [NoRequestYet EXCEPT !.pc = "changing", !.then = "issuing"])
    /\ UNCHANGED <<family, minted, born, password, active, resetToken, blacklisted,
                   closed, raced, interrupted>>

PasswordCommits(r) ==
    /\ request[r].pc = "changing"
    /\ password < MaxPasswords
    /\ password' = password + 1
    /\ request' = [request EXCEPT ![r].pc = "towipe", ![r].pw = password']
    /\ UNCHANGED <<family, minted, born, active, resetToken, blacklisted, closed,
                   raced, interrupted>>

(* The soft delete commits, then the sessions are wiped; a restore opens   *)
(* one again.                                                              *)
DeleteCommits(r) ==
    /\ Free(r) /\ active
    /\ active' = FALSE
    /\ Becomes(r, [NoRequestYet EXCEPT !.pc = "towipe"])
    /\ UNCHANGED <<family, minted, born, password, resetToken, blacklisted, closed,
                   raced, interrupted>>

RestoreSignsIn(r) ==
    /\ Free(r) /\ ~active
    /\ active' = TRUE
    /\ Becomes(r, [NoRequestYet EXCEPT !.pc = "issuing", !.pw = password])
    /\ UNCHANGED <<family, minted, born, password, resetToken, blacklisted, closed,
                   raced, interrupted>>

LogoutAll(r) ==
    /\ Free(r) /\ active
    /\ Becomes(r, [NoRequestYet EXCEPT !.pc = "towipe"])
    /\ UNCHANGED <<family, minted, born, password, active, resetToken, blacklisted,
                   closed, raced, interrupted>>

(* logout_all_sessions: SCAN returns every key that is there all the time, *)
(* and possibly one that came meanwhile.                                   *)
WipeStarts(r) ==
    /\ request[r].pc = "towipe"
    /\ request' = [request EXCEPT ![r].pc = "wiping", ![r].left = Open]
    /\ UNCHANGED <<family, minted, born, password, active, resetToken, blacklisted,
                   closed, raced, interrupted>>

WipeDeletes(r) ==
    /\ request[r].pc = "wiping"
    /\ \E f \in Open : Drop(f, request)
    /\ UNCHANGED <<minted, born, password, active, resetToken, blacklisted, interrupted>>

ScanDone_FirstBatch(r) == request[r].left # Open
ScanDone(r) == request[r].left = {}

WipeEnds(r) ==
    /\ request[r].pc = "wiping"
    /\ ScanDone(r)
    /\ Becomes(r, [NoRequestYet EXCEPT !.pc = request[r].then, !.pw = request[r].pw])
    /\ UNCHANGED <<family, minted, born, password, active, resetToken, blacklisted,
                   closed, raced, interrupted>>

(* The process dies, or Redis does not answer.                             *)
RequestDies(r) ==
    /\ ~Free(r)
    /\ interrupted' = (interrupted \/ request[r].pc \in {"towipe", "wiping"})
    /\ Becomes(r, NoRequestYet)
    /\ UNCHANGED <<family, minted, born, password, active, resetToken, blacklisted,
                   closed, raced>>

SessionsNext ==
    \/ \E t \in ResetTokens : ForgotPassword(t)
    \/ \E r \in Requests :
        \/ LoginChecks(r) \/ IssueSession(r)
        \/ \E f \in Families, jti \in 1..MaxMints : RefreshReads(r, f, jti)
        \/ RefreshChecks(r) \/ RefreshBurns(r) \/ RefreshMints(r)
        \/ \E f \in Families : Logout(r, f)
        \/ LogoutDeletes(r)
        \/ \E t \in ResetTokens : ResetLoads(r, t)
        \/ ResetCommits(r) \/ PasswordChecks(r) \/ PasswordCommits(r)
        \/ DeleteCommits(r) \/ RestoreSignsIn(r)
        \/ LogoutAll(r) \/ WipeStarts(r) \/ WipeDeletes(r) \/ WipeEnds(r)
        \/ RequestDies(r)

SessionsInit ==
    /\ family = [f \in Families |-> 0]
    /\ minted = [f \in Families |-> 0]
    /\ born = [f \in Families |-> 0]
    /\ password = 0 /\ active = TRUE
    /\ resetToken = [t \in ResetTokens |-> "none"]
    /\ blacklisted = {} /\ closed = {} /\ raced = {} /\ interrupted = FALSE
    /\ request = [r \in Requests |-> NoRequestYet]

SessionsSpec == SessionsInit /\ [][SessionsNext]_sessionVars

-----------------------------------------------------------------------------
SessionsTypeOK ==
    /\ \A f \in Families : family[f] \in 0..minted[f] /\ minted[f] \in 0..MaxMints
    /\ born \in [Families -> 0..MaxPasswords] /\ password \in 0..MaxPasswords
    /\ resetToken \in [ResetTokens -> {"none", "issued", "used"}]
    /\ request \in [Requests -> Request]
    /\ {active, interrupted} \subseteq BOOLEAN
    /\ blacklisted \subseteq Families /\ closed \subseteq Families /\ raced \subseteq Families

WipeAhead(f) ==
    \E r \in Requests : \/ request[r].pc = "towipe"
                        \/ request[r].pc = "wiping" /\ f \in request[r].left

(* A session that was ended stays ended, and a password change leaves none *)
(* of the older sessions, unless a login or refresh had read its state     *)
(* before the end came and wrote afterwards, or the wipe itself was cut    *)
(* short: "any stolen session dies".                                       *)
OnlyRacesOutliveRevocation ==
    \A f \in Open :
        /\ f \in closed => f \in raced
        /\ born[f] < password => f \in raced \/ interrupted \/ WipeAhead(f)

=============================================================================
