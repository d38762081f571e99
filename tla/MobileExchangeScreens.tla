-------------------------- MODULE MobileExchangeScreens --------------------------
(***************************************************************************)
(* The screens of the mobile app about exchange requests:                   *)
(* features/exchanges/screens and the components they are made of.          *)
(***************************************************************************)
EXTENDS MobileMessageScreens

\* What DetailActions reads of an exchange, seen by one of its two users: the status, the
\* user's side, the last counter offer (whether it was approved, whether this user made
\* it, whether the user has one left), and what the user has already agreed to.
Views == [status    : Deals,
          owner     : BOOLEAN,
          countered : BOOLEAN,
          approved  : BOOLEAN,
          mine      : BOOLEAN,
          remaining : BOOLEAN,
          permanent : BOOLEAN,
          accepted  : BOOLEAN,
          confirmed : BOOLEAN,
          returned  : BOOLEAN]

-----------------------------------------------------------------------------
(* DetailActions: no button of it is disabled while its mutation runs; only
   the two sheets disable theirs. *)

pendingApproval(x) == x.countered /\ ~x.approved

DeclineReasonSheet     == {Once("useDeclineExchange", <<>>)}
ConditionsReviewModal  == {Once("useAcceptConditions", <<>>)}

ApproveCounter(x) ==
    When(pendingApproval(x) /\ ~x.mine, {Call("useApproveCounter", <<>>)})

canOwnerCounter(x)     == (~x.countered \/ ~x.mine) /\ x.remaining
canRequesterCounter(x) == x.countered /\ ~x.mine /\ x.remaining

OwnerPending(x) ==
    ApproveCounter(x) \union DeclineReasonSheet
        \union When(~pendingApproval(x), {Call("useAcceptExchange", <<>>)})
        \union When(canOwnerCounter(x) /\ ~pendingApproval(x), {Open("CounterOffer")})

RequesterPending(x) ==
    ApproveCounter(x) \union {Call("useCancelExchange", <<>>)}
        \union When(canRequesterCounter(x) /\ ~pendingApproval(x), {Open("CounterOffer")})

Accepted(x) == When(~x.accepted, ConditionsReviewModal)
Active(x)   == When(~x.confirmed, {Call("useConfirmSwap", <<>>)})

\* Mutant: any exchange is asked back.
SwapConfirmedReturns(x) == {Call("useRequestReturn", <<>>)}

\* A permanent exchange is completed; any other can only be asked back.
SwapConfirmed(x) ==
    {IF x.permanent THEN Call("useCompleteExchange", <<>>) ELSE Call("useRequestReturn", <<>>)}

ReturnRequested(x) == When(~x.returned, {Call("useConfirmReturn", <<>>)})

DetailActions(x) ==
    CASE x.status = "pending"          -> IF x.owner THEN OwnerPending(x) ELSE RequesterPending(x)
      [] x.status \in {"accepted", "conditions_pending"} -> Accepted(x)
      [] x.status = "active"           -> Active(x)
      [] x.status = "swap_confirmed"   -> SwapConfirmed(x)
      [] x.status = "return_requested" -> ReturnRequested(x)
      [] OTHER                         -> {}

-----------------------------------------------------------------------------
(* ExchangeDetailScreen *)

\* Until this user has rated; the stars are disabled with the button.
DetailRating(d) ==
    CASE d.load = "loading" -> {}
      [] d.load = "failed"  -> {Retry}
      [] OTHER              -> When(~d.mine /\ d.filled, {Once("useSubmitRating", <<>>)})

CHAT_ELIGIBLE_STATUSES ==
    {"active", "swap_confirmed", "completed", "return_requested", "returned"}

DetailChatCTA(d) == When(d.deal \in CHAT_ELIGIBLE_STATUSES, {Open("Chat")})

ExchangeDetailBody(d) ==
    (UNION {DetailActions(x) : x \in {v \in Views : v.status = d.deal}})
        \union When(d.deal \in {"completed", "returned"}, DetailRating(d))
        \union DetailChatCTA(d) \union ReportSheet(d)

ExchangeDetailScreen(d) ==
    CASE d.load = "failed"               -> {Retry}
      [] d.load \in {"loading", "missing"} -> {}
      [] OTHER                           -> ExchangeDetailBody(d)

-----------------------------------------------------------------------------
(* ExchangeListScreen, IncomingRequestsScreen *)

ExchangeCard == {Open("ExchangeDetail")}

\* The banner of incoming requests stands above the list, whatever the list's state.
ExchangeListScreen(d) ==
    When(d.mine, {Open("IncomingRequests")}) \union {Narrow} \union
    CASE d.load = "loading" -> {}
      [] d.load = "failed"  -> {Retry}
      [] OTHER              -> When(~d.empty, ExchangeCard \union {Retry})

\* Every request of the list has the three, a counter offer that waits included.
IncomingRequest ==
    {Call("useAcceptExchange", <<>>), Call("useDeclineExchange", <<>>), Open("ExchangeDetail")}

IncomingRequestsScreen(d) ==
    CASE d.load = "failed"  -> {Retry}
      [] d.load = "loading" -> {}
      [] OTHER              -> When(~d.empty, IncomingRequest \union {Retry})

-----------------------------------------------------------------------------
(* RequestSwapScreen, CounterOfferScreen: a book is picked, then sent; the
   screen closes when the answer's message is confirmed. *)

RequestSwapFooter(d) == When(d.filled, {Once("useCreateExchange", <<GoBack>>)})

RequestSwapScreen(d) ==
    CASE d.load = "failed"  -> {Retry}
      [] d.load = "loading" -> {}
      [] OTHER              -> When(~d.empty, RequestSwapFooter(d))

CounterOfferFooter(d) == When(d.filled, {Once("useCounterExchange", <<GoBack>>)})

CounterOfferScreen(d) ==
    CASE d.load = "failed"  -> {Retry}
      [] d.load = "loading" -> {}
      [] OTHER              -> When(~d.empty, CounterOfferFooter(d))

=============================================================================
