------------------------------ MODULE Identity ------------------------------
(***************************************************************************)
(* Who a browser is, room by room: its cookies, how the server reads them  *)
(* for a request (flexible-room-auth.guard.ts, room.controller.ts) and for *)
(* a socket (room-socket-auth.helper.ts, guest-token.helper.ts), and the   *)
(* page of a room that acts on either (routes/room.tsx).                   *)
(*                                                                         *)
(* A request is read with the cookies of its moment.  A socket keeps those *)
(* of its handshake, and reads them when it joins.  Cookies come in the    *)
(* order they were first set in.  One page for each room; the sign-in and  *)
(* the sign-out happen on a page of their own.                             *)
(***************************************************************************)
EXTENDS Naturals, Sequences, SequencesExt, FiniteSets

CONSTANTS
    Slugs,     \* the rooms
    MaxGuests, \* bound: approvals
    MaxTurns   \* bound: sign-ins, sign-outs, loads of a page

ASSUME SlugsAreFinite == IsFiniteSet(Slugs)
ASSUME IdentityBoundsAreNat == {MaxGuests, MaxTurns} \subseteq Nat

VARIABLES
    access,   \* the access_token cookie: "none", "live", or "dead" (expired)
    guestJar, \* the zvonok_guest_<slug> cookies in their order, [slug, n]
    dead,     \* the guests whose token has expired
    granted,  \* the approvals so far, <<slug, n>>
    page,     \* each room's page: its view, the status of its session, whether
              \* it has a user, what guest-check says, and what me has answered
              \* since the page was opened (until then an older answer may show)
    shakes,   \* the cookies of each page's handshake
    seats,    \* who each page's socket is in the room
    turns

cookies == <<access, guestJar, dead, granted>>
identityVars == <<cookies, page, shakes, seats, turns>>

Account == [type |-> "user", slug |-> "", n |-> 0]
Stranger == [type |-> "none", slug |-> "", n |-> 0]
Guest(g) == [type |-> "guest", slug |-> g.slug, n |-> g.n]

\* A page that has just loaded: useAuth has asked for the user.
Loaded == [view |-> "prejoin", status |-> "disconnected", user |-> access = "live",
           checked |-> FALSE, me |-> Stranger]

IdentityInit ==
    /\ access \in {"none", "live"} /\ guestJar = <<>> /\ dead = {} /\ granted = {}
    /\ page = [s \in Slugs |-> Loaded]
    /\ shakes = [s \in Slugs |-> [access |-> "none", jar |-> <<>>]]
    /\ seats = [s \in Slugs |-> Stranger]
    /\ turns = 0

Turn == turns < MaxTurns /\ turns' = turns + 1

-----------------------------------------------------------------------------
(* How the server reads cookies.                                           *)

\* verifyGuestToken: the token has not expired and is for that room.
VerifyGuest(g, slug) == g.n \notin dead /\ g.slug = slug

GuestCookies(slug) == {g \in ToSet(guestJar) : g.slug = slug}

\* validateGuestToken on the cookie of the room.
ValidGuest(slug) == {g \in GuestCookies(slug) : VerifyGuest(g, slug)}

\* FlexibleRoomAuthGuard: the account, and without it the guest of the room.
HttpIdentity(slug) ==
    IF access = "live" THEN {Account} ELSE {Guest(g) : g \in ValidGuest(slug)}

\* extractGuestSlugFromCookie: the room is that of the first guest cookie.
GuestSlugs(c) == {c.jar[i].slug : i \in DOMAIN c.jar \cap {1}}

\* extractCookieToken: the access token if there is one, and without it the
\* first guest cookie.
CookieTokens(c) ==
    IF c.access # "none" THEN {Account}
    ELSE {Guest(c.jar[i]) : i \in DOMAIN c.jar \cap {1}}

\* resolveToken: as a guest's of that room, and if it is none as an account's.
ResolveToken(c, token) ==
    IF \/ token.type = "guest" /\ \E s \in GuestSlugs(c) : VerifyGuest(token, s)
       \/ token.type = "user" /\ c.access = "live"
    THEN {token} ELSE {}

\* resolveRoomSocketIdentity
SocketIdentity(c) == UNION {ResolveToken(c, t) : t \in CookieTokens(c)}

\* Variant: a guest of any room will do.
RightRoomAnyway(id, slug) == TRUE

\* A guest's identity is for its room only.
RightRoom(id, slug) == id.type = "guest" => id.slug = slug

-----------------------------------------------------------------------------
(* The page.                                                               *)

\* The page is left and opened: loaded anew, or within the application, where
\* the user and the cached answer of guest-check may still be the old ones.
Load(s) ==
    /\ Turn
    /\ \E user \in {access = "live", page[s].user}, checked \in {FALSE, page[s].checked} :
          page' = [page EXCEPT ![s] = [Loaded EXCEPT !.user = user, !.checked = checked]]
    /\ seats' = [seats EXCEPT ![s] = Stranger]
    /\ UNCHANGED <<cookies, shakes>>

\* guest-check, while no user is signed in.
GuestCheck(s) ==
    /\ ~page[s].user /\ page[s].view # "ended"
    /\ page' = [page EXCEPT ![s].checked = (ValidGuest(s) # {})]
    /\ UNCHANGED <<cookies, shakes, seats, turns>>

\* The confirmation: users and guests let in before go on to the room.
Confirm(s) ==
    /\ page[s].view = "prejoin" /\ (page[s].user \/ page[s].checked)
    /\ page' = [page EXCEPT ![s].view = "active"]
    /\ UNCHANGED <<cookies, shakes, seats, turns>>

\* The cookie takes the place of the room's former one, or the last.
WithCookie(g) ==
    IF GuestCookies(g.slug) = {} THEN Append(guestJar, g)
    ELSE [i \in DOMAIN guestJar |-> IF guestJar[i].slug = g.slug THEN g ELSE guestJar[i]]

\* The others ask, and once they are approved the poll sets the cookie.
Approve(s) ==
    LET g == [slug |-> s, n |-> Cardinality(granted) + 1] IN
    /\ page[s].view = "prejoin" /\ ~page[s].user /\ ~page[s].checked
    /\ Cardinality(granted) < MaxGuests /\ granted' = granted \cup {<<s, g.n>>}
    /\ guestJar' = WithCookie(g)
    /\ page' = [page EXCEPT ![s].view = "active"]
    /\ UNCHANGED <<access, dead, shakes, seats, turns>>

\* RoomSession's effect: a session that has not begun is joined.
Handshake(s) ==
    /\ page[s].view = "active" /\ page[s].status = "disconnected"
    /\ page' = [page EXCEPT ![s].status = "connecting"]
    /\ shakes' = [shakes EXCEPT ![s] = [access |-> access, jar |-> guestJar]]
    /\ UNCHANGED <<cookies, seats, turns>>

\* The join is answered.  A denial is in the session's state, and the page
\* goes back.
JoinAnswered(s) ==
    /\ page[s].status = "connecting"
    /\ \/ \E id \in SocketIdentity(shakes[s]) :
             /\ RightRoom(id, s)
             /\ seats' = [seats EXCEPT ![s] = id]
             /\ page' = [page EXCEPT ![s].status = "joined"]
       \/ /\ ~\E id \in SocketIdentity(shakes[s]) : RightRoom(id, s)
          /\ page' = [page EXCEPT ![s] = [@ EXCEPT !.status = "error", !.view = "prejoin"]]
          /\ UNCHANGED seats
    /\ UNCHANGED <<cookies, shakes, turns>>

\* me, once the room is shown and while no user is signed in.
GetRoomMe(s) ==
    /\ ~page[s].user /\ page[s].view = "active"
    /\ \E id \in HttpIdentity(s) : page' = [page EXCEPT ![s].me = id]
    /\ UNCHANGED <<cookies, shakes, seats, turns>>

\* The room ends for good: the session goes, and the page says so.
RoomEnded(s) ==
    /\ Turn /\ page[s].status = "joined"
    /\ page' = [page EXCEPT ![s] = [@ EXCEPT !.view = "ended", !.status = "disconnected"]]
    /\ seats' = [seats EXCEPT ![s] = Stranger]
    /\ UNCHANGED <<cookies, shakes>>

-----------------------------------------------------------------------------
(* The cookies.                                                            *)

SignIn == Turn /\ access' = "live" /\ UNCHANGED <<guestJar, dead, granted, page, shakes, seats>>
SignOut == Turn /\ access' = "none" /\ UNCHANGED <<guestJar, dead, granted, page, shakes, seats>>

\* A token expires, and its cookie with the next second.
AccessFades ==
    /\ access # "none" /\ Turn
    /\ access' = IF access = "live" THEN "dead" ELSE "none"
    /\ shakes' = [s \in Slugs |-> IF shakes[s].access = "live" /\ access = "live"
                                  THEN [shakes[s] EXCEPT !.access = "dead"] ELSE shakes[s]]
    /\ UNCHANGED <<guestJar, dead, granted, page, seats>>

GuestFades(i) ==
    /\ Turn
    /\ IF guestJar[i].n \in dead
       THEN guestJar' = RemoveAt(guestJar, i) /\ UNCHANGED dead
       ELSE dead' = dead \cup {guestJar[i].n} /\ UNCHANGED guestJar
    /\ UNCHANGED <<access, granted, page, shakes, seats>>

IdentityNext ==
    \/ \E s \in Slugs :
          \/ Load(s) \/ GuestCheck(s) \/ Confirm(s) \/ Approve(s)
          \/ Handshake(s) \/ JoinAnswered(s) \/ GetRoomMe(s) \/ RoomEnded(s)
    \/ SignIn \/ SignOut \/ AccessFades
    \/ \E i \in DOMAIN guestJar : GuestFades(i)

IdentitySpec == IdentityInit /\ [][IdentityNext]_identityVars

-----------------------------------------------------------------------------
(* Properties.                                                             *)

\* A guest sits in a room only by an approval of that room, whatever cookies
\* of other rooms its browser has; and what the page takes itself for is that
\* very guest: the socket and the request read different cookies by different
\* rules, and where both find a guest they find the same one.
IdentityInv ==
    /\ access \in {"none", "live", "dead"} /\ Len(guestJar) <= Cardinality(Slugs)
    /\ \A s \in Slugs :
          /\ page[s].view \in {"prejoin", "active", "ended"}
          /\ (page[s].status = "joined") = (seats[s] # Stranger)
          /\ seats[s].type = "guest" => <<s, seats[s].n>> \in granted /\ seats[s].slug = s
          /\ seats[s].type = "guest" /\ page[s].me.type = "guest" => page[s].me = seats[s]

-----------------------------------------------------------------------------
(* What documents and comments promise and the code does not do.           *)

\* Who was let in by guest-check is let in by the join ("Returns null when
\* neither cookie nor token authenticates", room-socket-auth.helper.ts:22-23):
\* not so when the browser has an older cookie of another room, or an access
\* token that has expired.
CheckedMayEnter ==
    \A s \in Slugs : page[s].status = "error" =>
        ~\E i \in DOMAIN shakes[s].jar : VerifyGuest(shakes[s].jar[i], s)

\* A failure leaves the room on prejoin (room.tsx:58-59): not so after the
\* next confirmation, which shows the room and joins nothing, for the session
\* is not "disconnected".
ShownIsJoined == \A s \in Slugs : page[s].view = "active" => page[s].status # "error"

\* The page's own identity is the participant's (room-identity.context.tsx:1-6):
\* not so of a guest whose browser signs in elsewhere.
MeIsSeated ==
    \A s \in Slugs : page[s].status = "joined" /\ page[s].me # Stranger => page[s].me = seats[s]

=============================================================================
