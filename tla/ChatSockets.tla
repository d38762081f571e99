------------------------------ MODULE ChatSockets ------------------------------
(***************************************************************************)
(* The chat of one exchange on the server: the connections of one of its    *)
(* parties, each with its consumer, the requests of the other party, and    *)
(* the counter in the cache that limits the connections of a user.          *)
(*                                                                          *)
(* A consumer handles one event at a time, but anything may happen while it *)
(* awaits the database or the cache.  The timeout of the authentication is  *)
(* a task of its own.  Django's cache, Channels and the ASGI server are     *)
(* external: incr and decr raise ValueError on a missing key, and sending   *)
(* on or closing a socket that is closed already raises (uvicorn), which    *)
(* ends the consumer without a call of disconnect().                        *)
(***************************************************************************)
EXTENDS ExchangeStatus, Integers, FiniteSets

CONSTANTS
    Conns,          \* a bound: connections of the user at a time
    Requests,       \* a bound: messages sent by REST at a time
    MAX_WS_CONNECTIONS_PER_USER,
    MaxLeaks,       \* a bound: how many slots may be lost by consumers that just end
    None

ASSUME BoundsAssumption ==
    /\ MAX_WS_CONNECTIONS_PER_USER \in Nat \ {0}
    /\ MaxLeaks \in Nat
    /\ IsFiniteSet(Conns) /\ IsFiniteSet(Requests) /\ Conns \cap Requests = {}
    /\ None \notin Int

VARIABLES
    conn,           \* [Conns -> Connection]
    counter,        \* the key ws:conn:{user_id}: a number, or None if it is missing
    rest,           \* [Requests -> what a POST of a message has read]
    status,         \* of the exchange
    block,          \* between its parties: "no", "committed", "done"
    lapsed,         \* history: the counter lost an increment, or expired
    past            \* history: leaked slots, messages due when the chat ended,
                    \* messages between blocked parties

vars == <<conn, counter, rest, status, block, lapsed, past>>

\* permissions.py
CHAT_WRITABLE_STATUSES == {"active", "swap_confirmed"}
CHAT_ELIGIBLE_STATUSES ==
    {"active", "swap_confirmed", "completed", "return_requested", "returned"}

\* Where a consumer is: it waits for its next event, or awaits the database or the
\* cache in the middle of one.
Places ==
    {"none", "wait",
     "count", "set", "over", "delete_over",    \* authenticating
     "exchange", "blocks",                     \* joining
     "save", "refuse",                         \* sending a message
     "delete"}                                 \* leaving

Connection ==
    [pc      : Places,
     open    : BOOLEAN,      \* the socket; a closed one has a disconnect event pending
     first   : BOOLEAN,      \* authenticates by its first message, not by the URL
     timer   : BOOLEAN,      \* _auth_timeout_task sleeps
     authed  : BOOLEAN,      \* _ws_authenticated
     counted : BOOLEAN,      \* _ws_counted
     joined  : BOOLEAN,      \* in the group of the exchange
     locked  : BOOLEAN,      \* is_read_only, as of the last look
     barred  : BOOLEAN,      \* history: the parties were blocked when it asked to join
     began   : BOOLEAN]      \* history: and when it began to send

NoConn ==
    [pc |-> "none", open |-> FALSE, first |-> TRUE, timer |-> FALSE, authed |-> FALSE,
     counted |-> FALSE, joined |-> FALSE, locked |-> FALSE,
     barred |-> FALSE, began |-> FALSE]

NoRequest == [pc |-> "none", status |-> "absent", began |-> FALSE]
Request == [pc : {"none", "blocks", "save"}, status : Statuses, began : BOOLEAN]

Init ==
    /\ conn = [c \in Conns |-> NoConn]
    /\ counter = None
    /\ rest = [r \in Requests |-> NoRequest]
    /\ status = "active"
    /\ block = "no"
    /\ lapsed = FALSE
    /\ past = [leaks |-> 0, due |-> 0, across |-> {}]

Put(c, changed) == conn' = [conn EXCEPT ![c] = changed]

Blocked == block = "done"

-----------------------------------------------------------------------------
(* The counter in the cache. *)

\* The connections whose increment has not been taken back yet.
LetIn(c) == conn[c].counted /\ conn[c].pc # "delete"
Occupies(c) == LetIn(c) \/ conn[c].pc = "over"

\* Consumers end without giving back the n slots they occupy.
Leaked(n) ==
    /\ past.leaks + n <= MaxLeaks
    /\ past' = [past EXCEPT !.leaks = @ + n]

\* The consumer of c ends by an exception: nobody calls disconnect().
Raises(c) == Put(c, NoConn) /\ Leaked(IF Occupies(c) THEN 1 ELSE 0)

\* _check_connection_limit once the count is known, and what follows without another
\* await: auth.success is sent, which raises if the socket was closed meanwhile.
Checked(c, count) ==
    IF count > MAX_WS_CONNECTIONS_PER_USER
    THEN Put(c, [conn[c] EXCEPT !.pc = "over"]) /\ Leaked(0)
    ELSE IF conn[c].first /\ ~conn[c].open
    THEN Put(c, NoConn) /\ Leaked(1)
    ELSE /\ Put(c, [conn[c] EXCEPT !.pc = "exchange", !.counted = TRUE, !.authed = TRUE,
                                   !.timer = FALSE, !.barred = Blocked])
         /\ Leaked(0)

\* A socket that is closed with a code of its own, or was closed already.
TurnedAway(c) ==
    IF conn[c].open
    THEN Put(c, [conn[c] EXCEPT !.pc = "wait", !.open = FALSE]) /\ UNCHANGED past
    ELSE Raises(c)

\* cache.incr of _incr_ws_count.
Increments(c) ==
    /\ conn[c].pc = "count"
    /\ IF counter = None
       THEN Put(c, [conn[c] EXCEPT !.pc = "set"]) /\ UNCHANGED <<counter, past>>
       ELSE Checked(c, counter + 1) /\ counter' = counter + 1
    /\ UNCHANGED <<rest, status, block, lapsed>>

\* ... and cache.set where the key was missing: what others wrote since is lost.
Sets(c) ==
    /\ conn[c].pc = "set"
    /\ Checked(c, 1)
    /\ counter' = 1
    /\ lapsed' = (lapsed \/ counter # None)
    /\ UNCHANGED <<rest, status, block>>

\* Mutant: a refused connection keeps its increment.
RefusedStaysCounted(c) ==
    /\ conn[c].pc = "over"
    /\ IF conn[c].first
       THEN Put(c, NoConn)
       ELSE Put(c, [conn[c] EXCEPT !.pc = "wait", !.open = FALSE])
    /\ UNCHANGED <<counter, rest, status, block, past, lapsed>>

\* The refusal: the socket is closed with 4029.  ensure_authenticated then sends a
\* reason on the closed socket, which ends the consumer.
Turned(c) ==
    IF conn[c].first
    THEN Put(c, NoConn)
    ELSE Put(c, [conn[c] EXCEPT !.pc = "wait", !.open = FALSE])

Refused(c) ==
    /\ conn[c].pc = "over"
    /\ IF counter # None /\ counter > 1
       THEN Turned(c) /\ counter' = counter - 1
       ELSE /\ Put(c, [conn[c] EXCEPT !.pc = "delete_over"])
            /\ counter' = IF counter = None THEN None ELSE counter - 1
    /\ UNCHANGED <<rest, status, block, past, lapsed>>

\* cache.delete of _decr_ws_count: an increment since the decrement is lost.
Deletes(c) ==
    /\ conn[c].pc \in {"delete", "delete_over"}
    /\ counter' = None
    /\ lapsed' = (lapsed \/ (counter # None /\ counter > 0))
    /\ IF conn[c].pc = "delete" THEN Put(c, NoConn) ELSE Turned(c)
    /\ UNCHANGED <<rest, status, block, past>>

\* WS_CONN_TTL: four hours after it was set, however many connections are open.
Expires ==
    /\ counter # None
    /\ counter' = None
    /\ lapsed' = TRUE
    /\ UNCHANGED <<conn, rest, status, block, past>>

-----------------------------------------------------------------------------
(* Connecting and authenticating. *)

\* connect: with a token in the URL the limit comes first, otherwise the
\* connection is accepted and has ten seconds.
Connects(c) ==
    /\ conn[c].pc = "none"
    /\ \E first \in BOOLEAN :
          Put(c, [NoConn EXCEPT !.pc = IF first THEN "wait" ELSE "count",
                                !.open = TRUE, !.first = first, !.timer = first])
    /\ UNCHANGED <<counter, rest, status, block, past, lapsed>>

\* The client sends its authenticate frame: the token is looked up, then the limit.
Authenticates(c) ==
    /\ conn[c].pc = "wait" /\ conn[c].open /\ ~conn[c].authed
    /\ Put(c, [conn[c] EXCEPT !.pc = "count"])
    /\ UNCHANGED <<counter, rest, status, block, past, lapsed>>

\* get_user_from_token knows no user.
TokenRefused(c) ==
    /\ conn[c].pc = "count" /\ conn[c].first
    /\ TurnedAway(c)
    /\ UNCHANGED <<counter, rest, status, block, lapsed>>

\* _auth_timeout: it looks at the flag, which is only set after the token was checked
\* and counted.  Closing twice is suppressed.
AuthTimeout(c) ==
    /\ conn[c].timer
    /\ Put(c, [conn[c] EXCEPT !.timer = FALSE, !.open = FALSE])
    /\ UNCHANGED <<counter, rest, status, block, past, lapsed>>

-----------------------------------------------------------------------------
(* Joining the chat: post_authenticate of ChatConsumer. *)

\* What the status decides, the code decides once the blocks are read as well.
ExchangeRead(c) ==
    /\ conn[c].pc = "exchange"
    /\ IF status \in CHAT_ELIGIBLE_STATUSES
       THEN /\ Put(c, [conn[c] EXCEPT !.pc = "blocks",
                                      !.locked = status \notin CHAT_WRITABLE_STATUSES])
            /\ UNCHANGED past
       ELSE TurnedAway(c)
    /\ UNCHANGED <<counter, rest, status, block, lapsed>>

\* The blocks are read, then the consumer joins the group.  What it sends (accept, or
\* chat.locked) needs an open socket.
Joins(c) ==
    /\ conn[c].pc = "blocks"
    /\ IF block # "no" THEN TurnedAway(c)
       ELSE IF ~conn[c].open /\ (~conn[c].first \/ conn[c].locked) THEN Raises(c)
       ELSE Put(c, [conn[c] EXCEPT !.pc = "wait", !.joined = TRUE]) /\ UNCHANGED past
    /\ UNCHANGED <<counter, rest, status, block, lapsed>>

-----------------------------------------------------------------------------
(* Messages. *)

\* A message is stored; began: the parties were blocked when its sender began to send it.
Stored(how, began, barred) ==
    past' = IF status \notin CHAT_WRITABLE_STATUSES THEN [past EXCEPT !.due = @ - 1]
            ELSE IF began THEN [past EXCEPT !.across = @ \cup {<<how, status, barred>>}]
            ELSE past

\* Mutant: the flag of the last look will do.
SendsFrameUnchecked(c) ==
    /\ conn[c].pc = "wait" /\ conn[c].open /\ conn[c].joined /\ ~conn[c].locked
    /\ Put(c, [conn[c] EXCEPT !.pc = "save", !.began = Blocked])
    /\ UNCHANGED <<counter, rest, status, block, past, lapsed>>

\* A chat.message frame arrives: _refresh_read_only reads the status.  A later check may
\* refuse it too, that of the address, the rate or the text.
SendsFrame(c) ==
    /\ conn[c].pc = "wait" /\ conn[c].open /\ conn[c].joined
    /\ \/ /\ status \in CHAT_WRITABLE_STATUSES
          /\ Put(c, [conn[c] EXCEPT !.pc = "save", !.locked = FALSE, !.began = Blocked])
       \/ Put(c, [conn[c] EXCEPT !.pc = "refuse",
                                 !.locked = status \notin CHAT_WRITABLE_STATUSES])
    /\ UNCHANGED <<counter, rest, status, block, past, lapsed>>

\* chat.error is sent to who is still there.
RefusesFrame(c) ==
    /\ conn[c].pc = "refuse"
    /\ IF conn[c].open THEN Put(c, [conn[c] EXCEPT !.pc = "wait"]) /\ UNCHANGED past
       ELSE Raises(c)
    /\ UNCHANGED <<counter, rest, status, block, lapsed>>

\* _save_message and group_send.
SavesMessage(c) ==
    /\ conn[c].pc = "save"
    /\ Put(c, [conn[c] EXCEPT !.pc = "wait", !.began = FALSE])
    /\ Stored("socket", conn[c].began, conn[c].barred)
    /\ UNCHANGED <<counter, rest, status, block, lapsed>>

\* chat_message, chat_typing, chat_read, chat_read_all: somebody in the group has sent,
\* typed or read, which they may do at any time.  To forward it needs an open socket.
ForwardsEvent(c) ==
    /\ conn[c].pc = "wait" /\ conn[c].joined /\ ~conn[c].open
    /\ Raises(c)
    /\ UNCHANGED <<counter, rest, status, block, lapsed>>

\* POST of a message: initial() reads the exchange, then the blocks; create() tests the
\* status it read.
RestReads(r) ==
    /\ rest[r].pc = "none"
    /\ rest' = [rest EXCEPT ![r] = [pc |-> "blocks", status |-> status, began |-> Blocked]]
    /\ UNCHANGED <<conn, counter, status, block, past, lapsed>>

RestChecks(r) ==
    /\ rest[r].pc = "blocks"
    /\ rest' = [rest EXCEPT ![r] =
                   IF block = "no" /\ rest[r].status \in CHAT_WRITABLE_STATUSES
                   THEN [rest[r] EXCEPT !.pc = "save"] ELSE NoRequest]
    /\ UNCHANGED <<conn, counter, status, block, past, lapsed>>

RestSaves(r) ==
    /\ rest[r].pc = "save"
    /\ rest' = [rest EXCEPT ![r] = NoRequest]
    /\ Stored("rest", rest[r].began, FALSE)
    /\ UNCHANGED <<conn, counter, status, block, lapsed>>

-----------------------------------------------------------------------------
(* Leaving. *)

\* The client goes, or its network does, or it sent too many unknown frames.
ClientLeaves(c) ==
    /\ conn[c].open
    /\ Put(c, [conn[c] EXCEPT !.open = FALSE])
    /\ UNCHANGED <<counter, rest, status, block, past, lapsed>>

\* disconnect: out of the group, then the slot is given back if it was counted.
Disconnects(c) ==
    /\ conn[c].pc = "wait" /\ ~conn[c].open
    /\ IF ~conn[c].counted
       THEN Put(c, NoConn) /\ UNCHANGED counter
       ELSE IF counter # None /\ counter > 1
       THEN Put(c, NoConn) /\ counter' = counter - 1
       ELSE /\ Put(c, [conn[c] EXCEPT !.pc = "delete", !.joined = FALSE])
            /\ counter' = IF counter = None THEN None ELSE counter - 1
    /\ UNCHANGED <<rest, status, block, past, lapsed>>

\* A worker dies with its connections; the cache keeps their count.
ServerDies ==
    /\ conn' = [c \in Conns |-> NoConn]
    /\ Leaked(Cardinality({c \in Conns : Occupies(c)}))
    /\ UNCHANGED <<counter, rest, status, block, lapsed>>

-----------------------------------------------------------------------------
(* What happens to the exchange and between its parties meanwhile. *)

\* Who may still store a message by what was read before.
UnderWay ==
    {c \in Conns : conn[c].pc = "save"} \cup
        {r \in Requests : rest[r].pc # "none" /\ rest[r].status \in CHAT_WRITABLE_STATUSES}

\* The exchange goes on to st; what is under way when that ends the chat is due.
MovesTo(st) ==
    /\ status' = st
    /\ past' = IF status \in CHAT_WRITABLE_STATUSES /\ st \notin CHAT_WRITABLE_STATUSES
               THEN [past EXCEPT !.due = Cardinality(UnderWay)] ELSE past

ExchangeMoves ==
    /\ \E st \in VALID_TRANSITIONS[status] : MovesTo(st)
    /\ UNCHANGED <<conn, counter, rest, block, lapsed>>

\* A block is committed, then the exchanges it cancels are updated.
BlockCommits ==
    /\ block = "no"
    /\ block' = "committed"
    /\ UNCHANGED <<conn, counter, rest, status, past, lapsed>>

BlockCancels ==
    /\ block = "committed"
    /\ block' = "done"
    /\ MovesTo(IF status \in Cancelable THEN "cancelled" ELSE status)
    /\ UNCHANGED <<conn, counter, rest, lapsed>>

\* After an unblock, what was under way while the parties were blocked is nothing special.
Unblocks ==
    /\ Blocked
    /\ block' = "no"
    /\ conn' = [c \in Conns |-> [conn[c] EXCEPT !.barred = FALSE, !.began = FALSE]]
    /\ rest' = [r \in Requests |-> [rest[r] EXCEPT !.began = FALSE]]
    /\ UNCHANGED <<counter, status, past, lapsed>>

Consumer(c) ==
    \/ Increments(c) \/ Sets(c) \/ Refused(c) \/ Deletes(c)
    \/ TokenRefused(c) \/ ExchangeRead(c) \/ Joins(c)
    \/ RefusesFrame(c) \/ SavesMessage(c) \/ ForwardsEvent(c) \/ Disconnects(c)

Next ==
    \/ \E c \in Conns :
          \/ Consumer(c) \/ Connects(c) \/ Authenticates(c) \/ AuthTimeout(c)
          \/ SendsFrame(c) \/ ClientLeaves(c)
    \/ \E r \in Requests : RestReads(r) \/ RestChecks(r) \/ RestSaves(r)
    \/ Expires \/ ServerDies
    \/ ExchangeMoves \/ BlockCommits \/ BlockCancels \/ Unblocks

Spec == Init /\ [][Next]_vars

-----------------------------------------------------------------------------
(* Properties. *)

TypeOK ==
    /\ conn \in [Conns -> Connection]
    /\ counter \in Int \cup {None}
    /\ rest \in [Requests -> Request]
    /\ status \in Statuses
    /\ block \in {"no", "committed", "done"}
    /\ lapsed \in BOOLEAN
    /\ past \in [leaks : 0..MaxLeaks, due : Int,
                across : SUBSET ({"socket", "rest"} \X Statuses \X BOOLEAN)]

\* Until the key lapses (it expires, or is set or deleted over the increment of another
\* connection), it counts the connections that were let in, those being refused and those
\* whose consumer ended without disconnect(); so no more than the limit are let in, and
\* what a refusal or a disconnection takes back is what it added.
\* (_check_connection_limit, disconnect)
CounterMatches ==
    ~lapsed =>
        /\ (IF counter = None THEN 0 ELSE counter)
              = Cardinality({c \in Conns : Occupies(c)}) + past.leaks
        /\ Cardinality({c \in Conns : LetIn(c)}) <= MAX_WS_CONNECTIONS_PER_USER

\* When the exchange has ended, no more messages are stored than were under way then.
\* Once a block is carried out, only a connection that had joined before may still send,
\* and only if the swap was confirmed, which a block does not cancel.
\* (_refresh_read_only, post_authenticate, MessageViewSet)
EndedChatIsQuiet == past.due >= 0
BlockedApart == past.across \subseteq {<<"socket", "swap_confirmed", FALSE>>}
MessagesStop == EndedChatIsQuiet /\ BlockedApart

=============================================================================
