---------------------------- MODULE WebExchangePages ----------------------------
(***************************************************************************)
(* The web app's pages about exchange requests, with the chat and the       *)
(* rating that ExchangeDetailPage shows below them.                         *)
(***************************************************************************)
EXTENDS WebAuthPages

-----------------------------------------------------------------------------
(* DetailActions. What it reads of an exchange is a record like the mobile app's
   (MobileExchangeScreens): status, owner, countered, approved, mine, remaining,
   accepted, confirmed, returned. Every button is disabled while any of its
   mutations runs. *)

pendingApproval(x) == x.countered /\ ~x.approved

ApproveCounter(x) ==
    When(pendingApproval(x) /\ ~x.mine, {Once("useApproveCounter", <<>>)})

\* The counter offer is picked in place, from the other user's shelf.
CounterPicker == {Once("useCounterExchange", <<>>)}

\* Mutant: the owner may counter beyond the maximum.
canOwnerCounterAlways(x) == (~x.countered \/ ~x.mine) /\ ~pendingApproval(x)

canOwnerCounter(x) ==
    (~x.countered \/ ~x.mine) /\ ~pendingApproval(x) /\ x.remaining
canRequesterCounter(x) ==
    x.countered /\ ~x.mine /\ ~pendingApproval(x) /\ x.remaining

OwnerPending(x) ==
    ApproveCounter(x) \union {Once("useDeclineExchange", <<>>)}
        \union When(~pendingApproval(x), {Once("useAcceptExchange", <<>>)})
        \union When(canOwnerCounter(x), CounterPicker)

RequesterPending(x) ==
    ApproveCounter(x) \union {Once("useCancelExchange", <<>>)}
        \union When(canRequesterCounter(x), CounterPicker)

Conditions(x)      == When(~x.accepted, {Once("useAcceptConditions", <<>>)})
ConfirmSwap(x)     == When(~x.confirmed, {Once("useConfirmSwap", <<>>)})
\* Whatever was agreed: a permanent exchange is not completed here.
SwapConfirmed      == {Once("useRequestReturn", <<>>)}
ReturnRequested(x) == When(~x.returned, {Once("useConfirmReturn", <<>>)})

DetailActions(x) ==
    CASE x.status = "pending"          -> IF x.owner THEN OwnerPending(x) ELSE RequesterPending(x)
      [] x.status \in {"accepted", "conditions_pending"} -> Conditions(x)
      [] x.status = "active"           -> ConfirmSwap(x)
      [] x.status = "swap_confirmed"   -> SwapConfirmed
      [] x.status = "return_requested" -> ReturnRequested(x)
      [] OTHER                         -> {}

-----------------------------------------------------------------------------
(* ChatPanel, RatingPrompt *)

MeetupSuggestionPanel == {Once("useSendMessage", <<>>)}

\* A message is sent by the form or by Enter; the button waits for a text or a picture.
MessageInput(d) == When(d.filled, {Once("useSendMessage", <<>>)})

\* The end of an exchange, or a message of the server, closes the chat; it stays to be read.
CHAT_READ_ONLY == {"completed", "return_requested", "returned"}

ChatPanel(d) ==
    {Narrow} \union When(d.deal \notin CHAT_READ_ONLY, MessageInput(d) \union MeetupSuggestionPanel)

CHAT_ELIGIBLE ==
    {"active", "swap_confirmed", "completed", "return_requested", "returned"}

\* Until the user has rated, and while the server says that it still can be.
RatingPrompt(d) ==
    When(d.load = "ready" /\ ~d.mine /\ d.filled, {Once("useSubmitRating", <<>>)})

-----------------------------------------------------------------------------
(* The pages *)

\* Any view that the exchange's state admits.
SomeView(d) ==
    [status : {d.deal}, owner : BOOLEAN, countered : BOOLEAN, approved : BOOLEAN, mine : BOOLEAN,
     remaining : BOOLEAN, accepted : BOOLEAN, confirmed : BOOLEAN, returned : BOOLEAN]

ExchangeDetailPage(d) ==
    When(d.load = "ready",
         {Back} \union (UNION {DetailActions(x) : x \in SomeView(d)})
             \union When(d.deal \in {"completed", "returned"}, RatingPrompt(d))
             \union When(d.deal \in CHAT_ELIGIBLE, ChatPanel(d)))

ExchangeCard == {LocaleLink("EXCHANGE_DETAIL")}

\* The tab narrows the list; an empty one has a link to the catalogue, but for history's.
ExchangesPage(d) ==
    When(d.load = "ready",
         {Link("INCOMING_REQUESTS"), Narrow}
             \union (IF d.empty THEN EmptyPlaceholder("CATALOGUE") ELSE ExchangeCard))

\* Offered for every request of the list, a counter offer that waits included.
IncomingCard ==
    {Once("useAcceptExchange", <<navigate("EXCHANGE_DETAIL")>>),
     Once("useDeclineExchange", <<>>), LocaleLink("EXCHANGE_DETAIL")}

IncomingRequestsPage(d) ==
    When(d.load = "ready", {Back} \union When(~d.empty, IncomingCard))

=============================================================================
