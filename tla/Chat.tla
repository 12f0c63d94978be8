-------------------------------- MODULE Chat --------------------------------
(***************************************************************************)
(* The chat of the room: the gateway and the service (apps/server/src/     *)
(* chat) with every await a step of its own, and each participant's page   *)
(* (apps/client, chat.context.tsx) with its history query.                 *)
(*                                                                         *)
(* The query library is modelled as the page uses it: becoming connected   *)
(* starts a fetch unless one is under way; a refetch asks again for as     *)
(* many pages as there are; the next page cancels a fetch under way.  An   *)
(* answer that is lost with its connection leaves its fetch under way.     *)
(***************************************************************************)
EXTENDS Rooms

CONSTANTS
    Chatters, \* those with the chat open
    PageSize  \* messages in a page of history (50)

ASSUME PageSizeIsPositive == PageSize \in Nat \ {0}

VARIABLES
    online, \* chatters whose socket is connected
    inChannel, \* sockets in the room's channel
    ops,    \* handlers under way on the server
    inbox,  \* what is on the way to each chatter
    heard,  \* liveMessages
    pages,  \* the pages of history each has
    hasMore, \* the last of them says that there are more
    fetch,  \* the fetch under way: the pages it has and how many it wants
    served, \* chatters whose history was answered on this connection
    owed    \* what was announced since, or is their own, on this connection

chatVars == <<online, inChannel, ops, inbox, heard, pages, hasMore, fetch, served, owed>>

NoFetch == [got |-> <<>>, want |-> 0]

ChatInit ==
    /\ online = {} /\ inChannel = {} /\ ops = {} /\ served = {}
    /\ inbox = [c \in Chatters |-> <<>>] /\ heard = [c \in Chatters |-> <<>>]
    /\ pages = [c \in Chatters |-> <<>>] /\ hasMore = [c \in Chatters |-> FALSE]
    /\ fetch = [c \in Chatters |-> NoFetch] /\ owed = [c \in Chatters |-> {}]

Larger(a, b) == IF a < b THEN b ELSE a

AskHistory(c) == [kind |-> "history", by |-> c, at |-> "asked", alive |-> TRUE]

\* The connect handler and the query that it enables.
ConnectChat(c) ==
    /\ c \notin online /\ online' = online \cup {c}
    /\ IF fetch[c] = NoFetch
       THEN /\ fetch' = [fetch EXCEPT ![c] = [got |-> <<>>, want |-> Larger(1, Len(pages[c]))]]
            /\ ops' = ops \cup {AskHistory(c)}
       ELSE UNCHANGED <<fetch, ops>>
    /\ UNCHANGED <<roomVars, inChannel, inbox, heard, pages, hasMore, served, owed>>

\* A message that the server has read is sent by a handler that goes on;
\* a handler of the history has nobody left to answer.
DropChat(c) ==
    /\ Act /\ c \in online /\ online' = online \ {c}
    /\ inChannel' = inChannel \ {c} /\ served' = served \ {c}
    /\ inbox' = [inbox EXCEPT ![c] = <<>>] /\ owed' = [owed EXCEPT ![c] = {}]
    /\ ops' = {o \in ops : o.by # c} \cup
              {[o EXCEPT !.alive = FALSE] : o \in {p \in ops : p.by = c /\ p.kind = "send"}}
    /\ UNCHANGED <<rows, ending, seated, heard, pages, hasMore, fetch>>

\* sendMessage of the page; a message is numbered by the act that sends it.
SendMessage(c) ==
    /\ Act /\ c \in online
    /\ ops' = ops \cup {[kind |-> "send", by |-> c, at |-> "asked", alive |-> TRUE, msg |-> acts]}
    /\ UNCHANGED <<rows, ending, seated, online, inChannel, inbox, heard, pages, hasMore, fetch, served, owed>>

IsAnswer(frame) == frame.ev = "page"

\* loadMore: the answer to a fetch under way, of which there is one, is no
\* longer wanted.
LoadMore(c) ==
    /\ Act /\ c \in online /\ hasMore[c]
    /\ fetch' = [fetch EXCEPT ![c] = [got |-> pages[c], want |-> Len(pages[c]) + 1]]
    /\ inbox' = [inbox EXCEPT ![c] = RemoveFirstMatch(@, IsAnswer)]
    /\ ops' = {o \in ops : o.by # c \/ o.kind # "history"} \cup {AskHistory(c)} \cup
              {[o EXCEPT !.alive = FALSE] : o \in {p \in ops : p.by = c /\ p.kind = "history"}}
    /\ UNCHANGED <<rows, ending, seated, online, inChannel, heard, pages, hasMore, served, owed>>

Proceeds(o, p) == ops' = (ops \ {o}) \cup {p}

-----------------------------------------------------------------------------
(* The server's handlers.                                                  *)

\* sendMessage, saveGuestMessage: the read of the room.
CheckRoom(o) ==
    /\ o.kind = "send" /\ o.at = "asked"
    /\ IF room = "active" THEN Proceeds(o, [o EXCEPT !.at = "checked"]) ELSE ops' = ops \ {o}
    /\ UNCHANGED <<roomVars, online, inChannel, inbox, heard, pages, hasMore, fetch, served, owed>>

\* The row refers to its room, and cannot be created without it.
CreateMessage(o) ==
    /\ o.kind = "send" /\ o.at = "checked"
    /\ IF room # "gone"
       THEN messages' = Append(messages, o.msg) /\ Proceeds(o, [o EXCEPT !.at = "saved"])
       ELSE ops' = ops \ {o} /\ UNCHANGED messages
    /\ UNCHANGED <<owned, room, endedAt, records, ending, seated, acts>>
    /\ UNCHANGED <<online, inChannel, inbox, heard, pages, hasMore, fetch, served, owed>>

\* Variant: the history is answered, and the socket is not joined.
JoinedBySend(o) == IF o.by \in online /\ o.kind = "send" THEN inChannel \cup {o.by} ELSE inChannel

\* client.join, by a socket that is still there.
JoinedBy(o) == IF o.by \in online /\ (o.alive \/ o.kind = "history") THEN inChannel \cup {o.by} ELSE inChannel

\* handleSend: the join, then the message for everyone in the channel.
Announce(o) ==
    LET hearers == JoinedBy(o)
        owes == served \cup (IF o.alive THEN {o.by} ELSE {}) IN
    /\ o.kind = "send" /\ o.at = "saved" /\ ops' = ops \ {o}
    /\ inChannel' = hearers
    /\ inbox' = [c \in Chatters |-> IF c \in hearers
                                    THEN Append(inbox[c], [ev |-> "message", msg |-> o.msg]) ELSE inbox[c]]
    /\ owed' = [c \in Chatters |-> IF c \in owes THEN owed[c] \cup {o.msg} ELSE owed[c]]
    /\ UNCHANGED <<roomVars, online, heard, pages, hasMore, fetch, served>>

FirstPage == SubSeq(messages, 1, IF Len(messages) < PageSize THEN Len(messages) ELSE PageSize)

\* getMessages: whatever page is asked for, it is the first.  A room that is
\* gone is an error, and no answer.
ReadHistory(o) ==
    /\ o.kind = "history" /\ o.at = "asked"
    /\ IF room = "gone" THEN ops' = ops \ {o}
       ELSE Proceeds(o, [kind |-> "history", by |-> o.by, at |-> "read", alive |-> o.alive,
                        page |-> FirstPage, more |-> Len(messages) > PageSize])
    /\ UNCHANGED <<roomVars, online, inChannel, inbox, heard, pages, hasMore, fetch, served, owed>>

\* handleHistory: the join, then the answer.
AnswerHistory(o) ==
    /\ o.kind = "history" /\ o.at = "read" /\ ops' = ops \ {o}
    /\ inChannel' = JoinedBy(o)
    /\ served' = served \cup {o.by}
    /\ inbox' = IF o.alive
                THEN [inbox EXCEPT ![o.by] = Append(@, [ev |-> "page", page |-> o.page, more |-> o.more])]
                ELSE inbox
    /\ UNCHANGED <<roomVars, online, heard, pages, hasMore, fetch, owed>>

-----------------------------------------------------------------------------
(* The page.                                                               *)

\* chat:message
HearMessage(c) ==
    /\ inbox[c] # <<>> /\ Head(inbox[c]).ev = "message"
    /\ inbox' = [inbox EXCEPT ![c] = Tail(@)]
    /\ LET m == Head(inbox[c]).msg IN
       heard' = IF Contains(heard[c], m) THEN heard ELSE [heard EXCEPT ![c] = Append(@, m)]
    /\ UNCHANGED <<roomVars, online, inChannel, ops, pages, hasMore, fetch, served, owed>>

\* The query function resolves: on to the next page, or the fetch is over.
TakePage(c) ==
    LET frame == Head(inbox[c])
        got == Append(fetch[c].got, frame.page) IN
    /\ inbox[c] # <<>> /\ frame.ev = "page"
    /\ inbox' = [inbox EXCEPT ![c] = Tail(@)]
    /\ IF Len(got) < fetch[c].want /\ frame.more
       THEN /\ fetch' = [fetch EXCEPT ![c].got = got]
            /\ ops' = ops \cup {AskHistory(c)}
            /\ UNCHANGED <<pages, hasMore>>
       ELSE /\ pages' = [pages EXCEPT ![c] = got] /\ hasMore' = [hasMore EXCEPT ![c] = frame.more]
            /\ fetch' = [fetch EXCEPT ![c] = NoFetch]
            /\ UNCHANGED ops
    /\ UNCHANGED <<roomVars, online, inChannel, heard, served, owed>>

ChatSteps ==
    \/ \E o \in ops : CheckRoom(o) \/ CreateMessage(o) \/ Announce(o) \/ ReadHistory(o) \/ AnswerHistory(o)
    \/ \E c \in Chatters : DropChat(c) \/ SendMessage(c) \/ LoadMore(c) \/ HearMessage(c) \/ TakePage(c)

-----------------------------------------------------------------------------
(* Properties.                                                             *)

\* What the page lists: the history, then what was heard and is not in it.
Listed(c) ==
    LET history == FlattenSeq(pages[c]) IN
    history \o SelectSeq(heard[c], LAMBDA m : ~Contains(history, m))

\* The same as a set.
Shown(c) == ToSet(heard[c]) \cup UNION {ToSet(page) : page \in ToSet(pages[c])}

OnTheWay(c) == {f.msg : f \in {g \in ToSet(inbox[c]) : g.ev = "message"}}

\* What is announced after a socket's history was answered, and what it sends
\* itself, is in its list or on the way to it, for as long as it is connected:
\* through refetches, further pages and the end of the room.
\* (chat.gateway.ts:105-142, chat.context.tsx:87-135)
OwedIsShown == \A c \in Chatters : owed[c] \subseteq Shown(c) \cup OnTheWay(c)

Settled(c) == c \in online /\ fetch[c] = NoFetch /\ inbox[c] = <<>> /\ ops = {}

\* Divergence: with nothing under way, whoever is connected and has all pages
\* sees all messages (one announced between the read and the join is missed).
NothingMissed == \A c \in Chatters : Settled(c) /\ ~hasMore[c] => ToSet(messages) \subseteq Shown(c)

\* Divergence: no message is listed twice (the second page is the first again).
NoneTwice == \A c \in Chatters : IsInjective(Listed(c))

\* Divergence: what is heard is heard in the order it was created in.
HeardInOrder ==
    \A c \in Chatters :
        ToSet(heard[c]) \subseteq ToSet(messages) =>
            heard[c] = SelectSeq(messages, LAMBDA m : Contains(heard[c], m))

\* Divergence, of the comment on connect ("Every (re)connect refetches history
\* from the server"): with nothing under way no fetch is (one whose answer was
\* lost goes on for ever and none is started beside it).
HistoryComesBack == \A c \in online : ops = {} /\ inbox[c] = <<>> => fetch[c] = NoFetch
=============================================================================
