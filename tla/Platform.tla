------------------------------ MODULE Platform ------------------------------
(***************************************************************************)
(* Who may do what on the platform: developer accounts and their console   *)
(* (apps/server/src/developer), projects, API keys and rooms behind the    *)
(* key guard (apps/server/src/platform), and the room tokens with which    *)
(* their participants join.                                                *)
(*                                                                         *)
(* What is read and then written across an await is two steps: an account, *)
(* a key that is checked, a join.  The rest of a request is one.  People   *)
(* are app users and developers who registered; a password is the person   *)
(* it belongs to.  The settings of a project's webhook are in Webhooks.    *)
(* Each developer account has at most one project, named by the account.   *)
(***************************************************************************)
EXTENDS Naturals, FiniteSets

CONSTANTS
    People,     \* who uses the console
    UserName,   \* the name of each as an app user
    MaxSuffix,   \* bound: suffixes of a name, 1 standing for none
    Keys,       \* bound: API keys
    ProjectRooms, \* bound: rooms
    MaxDeals    \* bound: requests

ASSUME SuffixStartsAtOne == MaxSuffix \in Nat \ {0} /\ MaxDeals \in Nat

VARIABLES
    accounts,   \* rows: [name, password, user]
    asking,     \* requests to the console under way
    consoles,   \* developer tokens: [holder, account]
    projects,   \* names of the accounts with a project
    keys,       \* keys[k]: [of, state], of being the project
    rooms,      \* rooms[r]: [of, state]
    calls,      \* requests of a key under way, past the guard
    roomTokens, \* tokens minted: [room, key]
    joins,      \* joins under way: [token, room, late, over], the last two
                \* whether the key was revoked and the room ended before
    joined,     \* seats taken with a token
    deals

console == <<accounts, asking, consoles, projects>>
platform == <<keys, rooms, calls, roomTokens>>
platformVars == <<console, platform, joins, joined, deals>>

Nobody == "nobody"
ASSUME NobodyIsNoOne == Nobody \notin People

NoProject == <<"none", 0>>
Names == {UserName[p] : p \in People} \X (1 .. MaxSuffix)
Deal == deals < MaxDeals /\ deals' = deals + 1

Called(name) == {a \in accounts : a.name = name}
LinkedTo(p) == {a \in accounts : a.user = p}

-----------------------------------------------------------------------------
(* Accounts (developer.service.ts).  The database keeps names and linked   *)
(* users unique.                                                           *)

Insert(p, a) ==
    IF Called(a.name) = {} /\ (a.user = Nobody \/ LinkedTo(a.user) = {})
    THEN /\ accounts' = accounts \cup {a}
         /\ consoles' = consoles \cup {[holder |-> p, account |-> a.name]}
    ELSE UNCHANGED <<accounts, consoles>>

\* Variant: the account with the user's name will do.
LinkedByName(p) == Called(<<UserName[p], 1>>)

\* ssoFromAppUser looks for the account that is linked to the user.
LinkedAccount(p) == LinkedTo(p)

\* resolveFreeUsername: the name, or the first suffix that is free.
Free(p) == {n \in 1 .. MaxSuffix : Called(<<UserName[p], n>>) = {}}
FirstFree(p) == {UserName[p]} \X {n \in Free(p) : \A m \in Free(p) : n <= m}

\* register, up to the check of the name; the hash is awaited next.
RegisterRead(p, name) ==
    /\ Deal /\ Called(name) = {}
    /\ asking' = asking \cup {[who |-> p, account |-> [name |-> name, password |-> p, user |-> Nobody]]}
    /\ UNCHANGED <<accounts, consoles, projects, platform, joins, joined>>

\* ssoFromAppUser: a linked account is signed into; a name is found for a
\* new one, with the user's password.
SsoRead(p) ==
    /\ Deal
    /\ IF LinkedAccount(p) # {}
       THEN /\ consoles' = consoles \cup {[holder |-> p, account |-> a.name] : a \in LinkedAccount(p)}
            /\ UNCHANGED asking
       ELSE /\ \E name \in FirstFree(p) :
                  asking' = asking \cup {[who |-> p, account |-> [name |-> name, password |-> p, user |-> p]]}
            /\ UNCHANGED consoles
    /\ UNCHANGED <<accounts, projects, platform, joins, joined>>

\* The row is created, unless the name or the link is taken by now.
CreateAccount(q) ==
    /\ q \in asking
    /\ asking' = asking \ {q}
    /\ Insert(q.who, q.account)
    /\ UNCHANGED <<projects, platform, joins, joined, deals>>

\* login, with the password of the person.
DevLogin(p, name) ==
    /\ Deal
    /\ \E a \in Called(name) : a.password = p
    /\ consoles' = consoles \cup {[holder |-> p, account |-> name]}
    /\ UNCHANGED <<accounts, asking, projects, platform, joins, joined>>

-----------------------------------------------------------------------------
(* Projects and keys, under a developer token.                             *)

CreateProject(c) ==
    /\ Deal /\ c \in consoles /\ c.account \notin projects
    /\ projects' = projects \cup {c.account}
    /\ UNCHANGED <<accounts, asking, consoles, platform, joins, joined>>

\* findOwnedProject: the project is one of the account of the token.
Owns(c, project) == c.account = project /\ project \in projects

CreateApiKey(c, project, k) ==
    /\ Deal /\ c \in consoles /\ Owns(c, project)
    /\ keys[k].state = "none"
    /\ keys' = [keys EXCEPT ![k] = [of |-> project, state |-> "active"]]
    /\ UNCHANGED <<console, rooms, calls, roomTokens, joins, joined>>

RevokeApiKey(c, k) ==
    /\ Deal /\ c \in consoles
    /\ keys[k].state = "active" /\ Owns(c, keys[k].of)
    /\ keys' = [keys EXCEPT ![k].state = "revoked"]
    /\ UNCHANGED <<console, rooms, calls, roomTokens, joins, joined>>

-----------------------------------------------------------------------------
(* The platform, under a key.                                              *)

\* A key that is active passes the guard (api-key.guard.ts).
GuardPasses(k, act, r) ==
    /\ Deal /\ keys[k].state = "active"
    /\ calls' = calls \cup {[key |-> k, act |-> act, room |-> r]}
    /\ UNCHANGED <<console, keys, rooms, roomTokens, joins, joined>>

CreateRoom(c) ==
    /\ c \in calls /\ c.act = "create" /\ rooms[c.room].state = "none"
    /\ calls' = calls \ {c}
    /\ rooms' = [rooms EXCEPT ![c.room] = [of |-> keys[c.key].of, state |-> "active"]]
    /\ UNCHANGED <<console, keys, roomTokens, joins, joined, deals>>

\* Variant: any room is found.
AnyRoom(c) == rooms[c.room].state # "none"

\* findProjectRoom
ProjectRoom(c) == rooms[c.room].state # "none" /\ rooms[c.room].of = keys[c.key].of

\* endRoom; whoever is in it goes (RoomPresence).
EndProjectRoom(c) ==
    /\ c \in calls /\ c.act = "end"
    /\ calls' = calls \ {c}
    /\ rooms' = IF ProjectRoom(c) THEN [rooms EXCEPT ![c.room].state = "ended"] ELSE rooms
    /\ joined' = IF ProjectRoom(c) THEN {s \in joined : s.room # c.room} ELSE joined
    /\ UNCHANGED <<console, keys, roomTokens, joins, deals>>

\* mintRoomToken: the room is read, and it is active.
MintRoomToken(c) ==
    /\ c \in calls /\ c.act = "mint"
    /\ calls' = calls \ {c}
    /\ roomTokens' = IF ProjectRoom(c) /\ rooms[c.room].state = "active"
                     THEN roomTokens \cup {[room |-> c.room, key |-> c.key]} ELSE roomTokens
    /\ UNCHANGED <<console, keys, rooms, joins, joined, deals>>

-----------------------------------------------------------------------------
(* A join with a room token (room-presence.service.ts).                    *)

\* verify(): a signature that is good, of a token that is not too old, for
\* the room that is asked for.
JoinWithToken(t, r) ==
    /\ Deal /\ t \in roomTokens /\ t.room = r
    /\ joins' = joins \cup {[token |-> t, room |-> r, late |-> keys[t.key].state # "active",
                              over |-> rooms[r].state = "ended"]}
    /\ UNCHANGED <<console, platform, joined>>

\* Variant: the key is only looked for.
KeyExists(k) == keys[k].state # "none"

KeyIsActive(k) == keys[k].state = "active"

\* The key is read: a seat, or ROOM_TOKEN_INVALID.
KeyRead(j) ==
    /\ j \in joins
    /\ joins' = joins \ {j}
    /\ joined' = IF KeyIsActive(j.token.key) THEN joined \cup {j} ELSE joined
    /\ UNCHANGED <<console, platform, deals>>

\* A token is too old after its hour.
TokenExpires(t) ==
    /\ t \in roomTokens
    /\ roomTokens' = roomTokens \ {t}
    /\ UNCHANGED <<console, keys, rooms, calls, joins, joined, deals>>

PlatformInit ==
    /\ accounts = {} /\ asking = {} /\ consoles = {} /\ projects = {}
    /\ keys = [k \in Keys |-> [of |-> NoProject, state |-> "none"]]
    /\ rooms = [r \in ProjectRooms |-> [of |-> NoProject, state |-> "none"]]
    /\ calls = {} /\ roomTokens = {} /\ joins = {} /\ joined = {}
    /\ deals = 0

PlatformNext ==
    \/ \E p \in People : SsoRead(p)
    \/ \E p \in People, n \in Names : RegisterRead(p, n) \/ DevLogin(p, n)
    \/ \E q \in asking : CreateAccount(q)
    \/ \E c \in consoles : CreateProject(c)
    \/ \E c \in consoles, n \in projects, k \in Keys : CreateApiKey(c, n, k)
    \/ \E c \in consoles, k \in Keys : RevokeApiKey(c, k)
    \/ \E k \in Keys, act \in {"create", "end", "mint"}, r \in ProjectRooms : GuardPasses(k, act, r)
    \/ \E c \in calls : CreateRoom(c) \/ EndProjectRoom(c) \/ MintRoomToken(c)
    \/ \E t \in roomTokens, r \in ProjectRooms : JoinWithToken(t, r)
    \/ \E j \in joins : KeyRead(j)
    \/ \E t \in roomTokens : TokenExpires(t)

PlatformSpec == PlatformInit /\ [][PlatformNext]_platformVars

-----------------------------------------------------------------------------
PlatformTypeOK ==
    /\ accounts \subseteq [name : Names, password : People, user : People \cup {Nobody}]
    /\ \A q \in asking : q.who \in People /\ q.account.name \in Names
    /\ consoles \subseteq [holder : People, account : Names] /\ projects \subseteq Names
    /\ keys \in [Keys -> [of : Names \cup {NoProject}, state : {"none", "active", "revoked"}]]
    /\ rooms \in [ProjectRooms -> [of : Names \cup {NoProject}, state : {"none", "active", "ended"}]]
    /\ calls \subseteq [key : Keys, act : {"create", "end", "mint"}, room : ProjectRooms]
    /\ roomTokens \subseteq [room : ProjectRooms, key : Keys]
    /\ joins \cup joined \subseteq [token : [room : ProjectRooms, key : Keys], room : ProjectRooms, late : BOOLEAN, over : BOOLEAN]

\* Nobody is ever signed into an account that is not their own, whoever
\* registered their name before or at the same time; and a token admits to a
\* room of the project of its key only, whatever keys and rooms there are.
TenantsAreApart ==
    /\ \A c \in consoles : \E a \in accounts : a.name = c.account /\ a.password = c.holder
    /\ \A t \in roomTokens : rooms[t.room].of = keys[t.key].of
    /\ \A s \in joined : s.room = s.token.room /\ rooms[s.room].of = keys[s.token.key].of

\* A join that begins after its key was revoked gets no seat ("only while
\* the API key that minted it remains active",
\* openspec/specs/platform-api/spec.md).
RevocationHolds == \A s \in joined : ~s.late

\* Access is with those who have it.
AccessInv == PlatformTypeOK /\ TenantsAreApart /\ RevocationHolds

-----------------------------------------------------------------------------
(* What the code does not keep (README, Divergences).                      *)

\* "Revoking an API key SHALL take effect immediately"
\* (openspec/specs/developer/spec.md): a request past the guard goes on.
RevokedKeyRests ==
    [][\A k \in Keys : keys[k].state = "revoked" =>
         \A t \in roomTokens' \ roomTokens : t.key # k]_platformVars

\* "the room status becomes ended, and further joins are refused"
\* (openspec/specs/platform-api/spec.md): a join never reads the room's state.
EndedRoomRefuses == \A s \in joined : ~s.over
=============================================================================
