-------------------------------- MODULE Auth --------------------------------
(***************************************************************************)
(* The session of one account: passwords, the lock and the rotated refresh *)
(* token on the server (auth.service.ts and the two JWT strategies), the   *)
(* API client of each tab that refreshes and tries again (api-client.ts),  *)
(* and the role that an admin changes (user.controller.ts).                *)
(*                                                                         *)
(* The tabs of a device share its cookies.  A request carries the cookies  *)
(* there are when it is sent.  On the server every read and every write of *)
(* the account is a step of its own.                                       *)
(***************************************************************************)
EXTENDS Naturals, FiniteSets

CONSTANTS
    Tabs, Devices,  \* the tabs, and the devices they are on
    DeviceOf,       \* the device of each tab
    Home,           \* the device that is logged in at first
    Admins,         \* the accounts that are admins at first
    Me,             \* the account this is about
    MaxAttempts,    \* wrong passwords that lock the account (5)
    MaxSlots,       \* bound: requests of a tab at a time
    MaxMoves        \* bound: what users do, what expires and what is lost

ASSUME TabsHaveDevices == DeviceOf \in [Tabs -> Devices] /\ Home \in Devices
ASSUME MeIsAdmin == Me \in Admins
ASSUME BoundsArePositive == {MaxAttempts, MaxSlots, MaxMoves} \subseteq Nat \ {0}

VARIABLES
    hash,      \* refreshTokenHash: the token it is of, 0 for none
    version,   \* tokenVersion
    attempts,  \* failedLoginAttempts
    lock,      \* lockedUntil: "none", "ahead" or "past"
    minted,    \* refresh tokens made
    jar,       \* the cookies of each device
    req,       \* each tab's requests
    refresh,   \* the refresh that a request of the tab has started
    admins,    \* accounts with the role
    demoting,  \* role changes whose admins are counted
    tried,     \* wrong passwords compared (history)
    typed,     \* wrong passwords the user has sent (history)
    causes,    \* what may make a refresh token stale (history)
    out,       \* the user has logged out, and not in again (history)
    moves

account == <<hash, version, attempts, lock, minted>>
client == <<jar, req, refresh>>
roles == <<admins, demoting>>
history == <<tried, typed, causes, out>>
authVars == <<account, client, roles, history, moves>>

Slots == 1 .. MaxSlots

NoToken == [n |-> 0, v |-> 0]
NoCookies == [access |-> FALSE, v |-> 0, refresh |-> NoToken]
IdleReq == [kind |-> "none", at |-> "idle", again |-> FALSE, waits |-> 0, attempts |-> 0, v |-> 0]
NoRefresh == [at |-> "none", token |-> NoToken]

Move == moves < MaxMoves /\ moves' = moves + 1

AuthInit ==
    /\ hash = 1 /\ minted = 1 /\ version = 0 /\ attempts = 0 /\ lock = "none"
    /\ jar = [d \in Devices |-> IF d = Home THEN [access |-> TRUE, v |-> 0, refresh |-> [n |-> 1, v |-> 0]]
                                            ELSE NoCookies]
    /\ req = [t \in Tabs |-> [s \in Slots |-> IdleReq]]
    /\ refresh = [t \in Tabs |-> [s \in Slots |-> NoRefresh]]
    /\ admins = Admins /\ demoting = {}
    /\ tried = 0 /\ typed = 0 /\ causes = {} /\ out = FALSE /\ moves = 0

-----------------------------------------------------------------------------
(* What the history needs: the rotations under way.                        *)

Rotates(t, s) ==
    \/ refresh[t][s].at # "none"
    \/ req[t][s].kind \in {"right", "logout"} /\ req[t][s].at \notin {"idle", "waiting", "denied", "again"}

\* A rotation starts while one of another tab, or a login, is under way.
Overlap(t, kind) ==
    IF \E u \in Tabs, s \in Slots : Rotates(u, s) /\ (u # t \/ kind # "refresh" \/ refresh[u][s].at = "none")
    THEN {"overlap"} ELSE {}

\* The device's cookies pass the access strategy.
Authentic(t) == jar[DeviceOf[t]].access /\ jar[DeviceOf[t]].v = version

-----------------------------------------------------------------------------
(* The API client of a tab.                                                *)

\* A request is sent, for the first time or again: one that needs the account
\* passes the access strategy or is answered 401; a login begins.
SendReq(t, s, kind, again) ==
    LET starts == kind \in {"right", "wrong"} \/ (kind = "logout" /\ Authentic(t)) IN
    /\ req' = [req EXCEPT ![t][s] =
         [IdleReq EXCEPT !.kind = kind, !.again = again,
                         !.at = IF starts THEN kind
                                ELSE IF kind = "call" /\ Authentic(t) THEN "idle"
                                ELSE IF again THEN "idle" ELSE "denied"]]
    /\ causes' = causes \cup (IF starts /\ kind # "wrong" THEN Overlap(t, kind) ELSE {})

\* The user does something in a tab.
Request(t, s, kind) ==
    /\ Move /\ req[t][s].at = "idle"
    /\ SendReq(t, s, kind, FALSE)
    /\ typed' = IF kind = "wrong" THEN typed + 1 ELSE typed
    /\ out' = (out /\ kind # "right")
    /\ UNCHANGED <<account, jar, refresh, roles, tried>>

\* Variant: every 401 starts a refresh of its own.
RefreshAnyway(t) == TRUE

\* refreshAccessToken: one refresh of a tab at a time.
StartsRefresh(t) == \A s \in Slots : refresh[t][s].at = "none"

\* 401: the first starts the refresh, with the cookie of now; the others wait
\* for it.
Denied(t, s) ==
    /\ req[t][s].at = "denied"
    /\ IF StartsRefresh(t)
       THEN /\ refresh' = [refresh EXCEPT ![t][s] = [at |-> "asked", token |-> jar[DeviceOf[t]].refresh]]
            /\ req' = [req EXCEPT ![t][s] = [@ EXCEPT !.at = "waiting", !.waits = s]]
            /\ causes' = causes \cup Overlap(t, "refresh")
       ELSE /\ req' = [req EXCEPT ![t][s] =
                 [@ EXCEPT !.at = "waiting", !.waits = CHOOSE r \in Slots : refresh[t][r].at # "none"]]
            /\ UNCHANGED <<refresh, causes>>
    /\ UNCHANGED <<account, jar, roles, tried, typed, out, moves>>

\* The refresh is over: those who wait try again, or fail.
Over(t, s, at) ==
    /\ refresh' = [refresh EXCEPT ![t][s] = NoRefresh]
    /\ req' = [req EXCEPT ![t] = [r \in Slots |->
         IF req[t][r].at = "waiting" /\ req[t][r].waits = s
         THEN IF at = "again" THEN [req[t][r] EXCEPT !.at = "again"] ELSE IdleReq
         ELSE req[t][r]]]

RefreshAnswered(t, s) ==
    /\ refresh[t][s].at \in {"stored", "refused"}
    /\ IF refresh[t][s].at = "stored"
       THEN /\ jar' = [jar EXCEPT ![DeviceOf[t]] =
                          [access |-> TRUE, v |-> refresh[t][s].token.v, refresh |-> refresh[t][s].token]]
            /\ Over(t, s, "again")
       ELSE Over(t, s, "failed") /\ UNCHANGED jar
    /\ UNCHANGED <<account, roles, history, moves>>

\* The answer does not arrive.
RefreshLost(t, s) ==
    /\ Move /\ refresh[t][s].at \in {"stored", "refused"}
    /\ Over(t, s, "failed")
    /\ causes' = causes \cup {"lost"}
    /\ UNCHANGED <<account, jar, roles, tried, typed, out>>

\* The one retry.
Resend(t, s) ==
    /\ req[t][s].at = "again"
    /\ SendReq(t, s, req[t][s].kind, TRUE)
    /\ UNCHANGED <<account, jar, refresh, roles, tried, typed, out, moves>>

\* The access cookie and its token expire together.
AccessExpires(d) ==
    /\ Move /\ jar[d].access
    /\ jar' = [jar EXCEPT ![d].access = FALSE, ![d].v = 0]
    /\ UNCHANGED <<account, req, refresh, roles, history>>

-----------------------------------------------------------------------------
(* The refresh on the server.                                              *)

RefreshAt(t, s, at) == refresh' = [refresh EXCEPT ![t][s].at = at]

\* validate of the refresh strategy: the read of the account, and the checks.
Validate(t, s) ==
    LET token == refresh[t][s].token IN
    /\ refresh[t][s].at = "asked"
    /\ RefreshAt(t, s, IF token = NoToken \/ hash = 0 \/ token.v # version THEN "refused"
                       ELSE IF token.n = hash THEN "valid" ELSE "reuse")
    /\ UNCHANGED <<account, jar, req, roles, history, moves>>

\* Reuse is detected: the session is closed.
Revoke(t, s) ==
    /\ refresh[t][s].at = "reuse"
    /\ hash' = 0
    /\ RefreshAt(t, s, "refused")
    /\ UNCHANGED <<version, attempts, lock, minted, jar, req, roles, history, moves>>

\* refreshToken: the account is read again, and the tokens are made.
Mint(t, s) ==
    /\ refresh[t][s].at = "valid"
    /\ minted' = minted + 1
    /\ refresh' = [refresh EXCEPT ![t][s] = [at |-> "minted", token |-> [n |-> minted + 1, v |-> version]]]
    /\ UNCHANGED <<hash, version, attempts, lock, jar, req, roles, history, moves>>

StoreHash(t, s) ==
    /\ refresh[t][s].at = "minted"
    /\ hash' = refresh[t][s].token.n
    /\ RefreshAt(t, s, "stored")
    /\ UNCHANGED <<version, attempts, lock, minted, jar, req, roles, history, moves>>

-----------------------------------------------------------------------------
(* Login and logout on the server.                                         *)

ReqAt(t, s, at) == req' = [req EXCEPT ![t][s].at = at]

\* A login is answered 401: like any request it is tried again, once.
LoginDenied(t, s) ==
    req' = [req EXCEPT ![t][s] = IF req[t][s].again THEN IdleReq ELSE [@ EXCEPT !.at = "denied"]]

\* loginUser: the account is read; a lock that lies ahead ends the login.
ReadAccount(t, s) ==
    /\ req[t][s].at \in {"right", "wrong"}
    /\ IF lock = "ahead" THEN LoginDenied(t, s)
       ELSE req' = [req EXCEPT ![t][s] =
              [@ EXCEPT !.at = IF lock = "past" THEN "reset" ELSE "compare",
                        !.attempts = IF lock = "past" THEN 0 ELSE attempts, !.v = version]]
    /\ UNCHANGED <<account, jar, refresh, roles, history, moves>>

\* The lock is over.
ResetLock(t, s) ==
    /\ req[t][s].at = "reset"
    /\ attempts' = 0 /\ lock' = "none"
    /\ ReqAt(t, s, "compare")
    /\ UNCHANGED <<hash, version, minted, jar, refresh, roles, history, moves>>

\* Variant: the last attempt that is allowed locks already.
LocksEarly(n) == n + 1 >= MaxAttempts

Locks(n) == n >= MaxAttempts

\* A wrong password: one more than was read, and the lock.
CountFailure(t, s) ==
    LET n == req[t][s].attempts + 1 IN
    /\ req[t][s].at = "compare" /\ req[t][s].kind = "wrong"
    /\ attempts' = n /\ lock' = IF Locks(n) THEN "ahead" ELSE lock
    /\ tried' = tried + 1
    /\ LoginDenied(t, s)
    /\ UNCHANGED <<hash, version, minted, jar, refresh, roles, typed, causes, out, moves>>

\* The password is right: the count that was read is reset.
ResetAttempts(t, s) ==
    /\ req[t][s].at = "compare" /\ req[t][s].kind = "right"
    /\ IF req[t][s].attempts > 0 THEN attempts' = 0 /\ lock' = "none" ELSE UNCHANGED <<attempts, lock>>
    /\ ReqAt(t, s, "issue")
    /\ UNCHANGED <<hash, version, minted, jar, refresh, roles, history, moves>>

\* issueTokens, with the version that was read.
IssueTokens(t, s) ==
    /\ req[t][s].at = "issue"
    /\ minted' = minted + 1 /\ hash' = minted + 1
    /\ req' = [req EXCEPT ![t][s] = [@ EXCEPT !.at = "issued", !.attempts = minted + 1]]
    /\ causes' = IF \E d \in Devices \ {DeviceOf[t]} : jar[d].refresh # NoToken
                 THEN causes \cup {"elsewhere"} ELSE causes
    /\ UNCHANGED <<version, attempts, lock, jar, refresh, roles, tried, typed, out, moves>>

\* logout: the hash is cleared.
ClearHash(t, s) ==
    /\ req[t][s].at = "logout"
    /\ hash' = 0
    /\ ReqAt(t, s, "cleared")
    /\ UNCHANGED <<version, attempts, lock, minted, jar, refresh, roles, history, moves>>

\* setCookies and clearCookies.
CookiesArrive(t, s) ==
    /\ req[t][s].at \in {"issued", "cleared"}
    /\ jar' = [jar EXCEPT ![DeviceOf[t]] =
         IF req[t][s].at = "cleared" THEN NoCookies
         ELSE [access |-> TRUE, v |-> req[t][s].v, refresh |-> [n |-> req[t][s].attempts, v |-> req[t][s].v]]]
    /\ out' = (req[t][s].at = "cleared")
    /\ req' = [req EXCEPT ![t][s] = IdleReq]
    /\ UNCHANGED <<account, refresh, roles, tried, typed, causes, moves>>

LockPasses ==
    /\ lock = "ahead" /\ lock' = "past"
    /\ UNCHANGED <<hash, version, attempts, minted, client, roles, history, moves>>

-----------------------------------------------------------------------------
(* Roles.                                                                  *)

\* updateUserRole, by another admin: the admins are counted.
CountAdmins(a) ==
    /\ Move /\ a \in admins \ demoting /\ Cardinality(admins) > 1
    /\ demoting' = demoting \cup {a}
    /\ UNCHANGED <<account, client, admins, history>>

Bumped(a) == IF a = Me THEN version + 1 ELSE version

\* The update: the role, and a new version for tokens.
Demote(a) ==
    /\ a \in demoting /\ demoting' = demoting \ {a}
    /\ admins' = admins \ {a}
    /\ version' = Bumped(a)
    /\ UNCHANGED <<hash, attempts, lock, minted, client, history, moves>>

Promote(a) ==
    /\ Move /\ a \notin admins /\ admins # {}
    /\ admins' = admins \cup {a}
    /\ version' = Bumped(a)
    /\ UNCHANGED <<hash, attempts, lock, minted, client, demoting, history>>

-----------------------------------------------------------------------------

AuthNext ==
    \/ \E t \in Tabs, s \in Slots :
          \/ \E k \in {"call", "right", "wrong", "logout"} : Request(t, s, k)
          \/ Denied(t, s) \/ RefreshAnswered(t, s) \/ RefreshLost(t, s) \/ Resend(t, s)
          \/ Validate(t, s) \/ Revoke(t, s) \/ Mint(t, s) \/ StoreHash(t, s)
          \/ ReadAccount(t, s) \/ ResetLock(t, s) \/ CountFailure(t, s) \/ ResetAttempts(t, s)
          \/ IssueTokens(t, s) \/ ClearHash(t, s) \/ CookiesArrive(t, s)
    \/ \E d \in Devices : AccessExpires(d)
    \/ \E a \in Admins : CountAdmins(a) \/ Demote(a) \/ Promote(a)
    \/ LockPasses

AuthSpec == AuthInit /\ [][AuthNext]_authVars

-----------------------------------------------------------------------------
(* Properties.                                                             *)

Stages == {"idle", "denied", "waiting", "again", "right", "wrong", "reset", "compare",
           "issue", "issued", "logout", "cleared"}

\* The account, the cookies and the requests are well formed; a tab refreshes
\* once at a time, and a request waits only for a refresh under way.
AuthTypeOK ==
    /\ hash \in 0 .. minted /\ version \in Nat /\ attempts \in Nat /\ lock \in {"none", "ahead", "past"}
    /\ \A d \in Devices : jar[d].refresh.n \in 0 .. minted /\ jar[d].access \in BOOLEAN
    /\ \A t \in Tabs, s \in Slots :
          /\ req[t][s].at \in Stages
          /\ req[t][s].at = "waiting" => refresh[t][req[t][s].waits].at # "none"
          /\ refresh[t][s].at \in {"none", "asked", "valid", "reuse", "minted", "stored", "refused"}
          /\ refresh[t][s].token.n \in 0 .. minted
    /\ \A t \in Tabs : Cardinality({s \in Slots : refresh[t][s].at # "none"}) <= 1
    /\ admins \subseteq Admins /\ demoting \subseteq Admins

Reuse == \E t \in Tabs, s \in Slots : refresh[t][s].at = "reuse"

\* A session is closed for reuse only when there is a reason to: rotations of
\* two tabs overlapped, an answer with new cookies was lost, or another device
\* logged in.  The tabs of a device that refresh one after another, and the
\* requests of one tab that fail together, keep it.
\* (api-client.ts:107-125, jwt-refresh-token.strategy.ts:80-95)
ReuseHasCause == Reuse => causes # {}

\* An account is locked after as many wrong passwords as that takes, whatever
\* the order in which overlapping logins read and write the count.
\* (auth.service.ts:87-115)
LockNeedsFailures == attempts <= tried /\ (lock = "ahead" => tried >= MaxAttempts)

\* The sessions and the locks of accounts are in order.
AuthInv == AuthTypeOK /\ ReuseHasCause /\ LockNeedsFailures

NoLogin == \A t \in Tabs, s \in Slots : req[t][s].at \notin {"right", "wrong", "reset", "compare"}

\* Divergence, of the test auth.service.spec.ts:220 ("locks account after 5
\* failed attempts"): overlapping logins read the same count.
FailuresLock == NoLogin /\ tried >= MaxAttempts /\ typed = moves => lock # "none"

\* Divergence: a wrong password counts once (its 401 is taken for an expired
\* token: the session is refreshed and the password sent again).
TypoCountsOnce == tried <= typed

\* Divergence: who has logged out has no session (a refresh under way stores a
\* new hash and sets new cookies).
LogoutIsFinal == out => \A t \in Tabs : jar[DeviceOf[t]].refresh.n # hash \/ hash = 0

\* Divergence: the tabs of a device do not close each other's session (two
\* refresh with the same cookie at the same time).
TabsShareSession == Reuse => causes \cap {"lost", "elsewhere"} # {}

\* Divergence: an admin remains ("Cannot demote the last admin",
\* user.controller.ts:49): two demotions count the same two.
AdminRemains == admins # {}
=============================================================================
