---------------------------- MODULE ExchangeScreens ----------------------------
(***************************************************************************)
(* What the two apps offer the parties of an exchange, next to what the     *)
(* server takes from them: the buttons of both DetailActions, for any row   *)
(* that the handlers and tasks can produce.                                 *)
(***************************************************************************)
EXTENDS Negotiation, Fulfilment

Mobile == INSTANCE MobileExchangeScreens
Web    == INSTANCE WebExchangePages

\* ExchangeDetailSerializer: the row as user u gets it.
View(u, x) ==
    LET row == exchange[x] IN
    [status    |-> row.status,
     owner     |-> u = row.owner,
     countered |-> row.counterBy # None,
     approved  |-> row.approvedBy # None,
     mine      |-> u = row.counterBy,
     remaining |-> row.counters[u] < MaxCounters,
     permanent |-> row.permanent,
     accepted  |-> u \in row.accepted,
     confirmed |-> u \in row.confirmed,
     returned  |-> u \in row.returned]

\* The calls behind a set of controls; CounterOffer is a screen of its own.
Calls(controls) ==
    {c.call : c \in {d \in controls : Mobile!Calls(d)}}
        \union {"useCounterExchange" : c \in
                   {d \in controls : Mobile!Here("CounterOffer") \in Mobile!Targets(d)}}

MobileOffers(u, x) == Calls(Mobile!DetailActions(View(u, x)))
WebOffers(u, x)    == Calls(Web!DetailActions(View(u, x)))

\* The calls that pass the checks of their handlers.
Taken(u, x) ==
    LET row     == exchange[x]
        pending == row.status = "pending"
        passes  ==
            [useCounterExchange  |-> MayCounter(u, x),
             useApproveCounter   |-> MayApprove(u, x),
             useAcceptExchange   |-> pending /\ u = row.owner /\ TermsAgreed(x),
             useDeclineExchange  |-> pending /\ u = row.owner,
             useCancelExchange   |-> pending /\ u = row.requester,
             useAcceptConditions |-> /\ row.status \in {"accepted", "conditions_pending"}
                                     /\ u \notin row.accepted,
             useConfirmSwap      |-> MayConfirm(u, x),
             useCompleteExchange |-> row.status = "swap_confirmed",
             useRequestReturn    |-> row.status = "swap_confirmed" /\ ~row.permanent,
             useConfirmReturn    |-> row.status = "return_requested" /\ u \notin row.returned]
    IN {call \in DOMAIN passes : passes[call]}

-----------------------------------------------------------------------------
(* Properties *)

\* However a negotiation has gone, both apps offer its parties what the server takes and
\* nothing that it refuses, with one exception: a counter-offer before the open one has been
\* approved, or by the requester before there is one, is taken and not offered.
\* (DetailActions of both apps; counter, approve_counter, accept, decline, cancel, views.py)
NegotiationOffered ==
    \A x \in Exchanges, u \in Users :
        Visible(u, x) /\ exchange[x].status = "pending" =>
            \A offers \in {MobileOffers(u, x), WebOffers(u, x)} :
                /\ offers \subseteq Taken(u, x)
                /\ Taken(u, x) \ offers \subseteq {"useCounterExchange"}

\* The same once the request was accepted. The mobile app does not offer to complete a
\* temporary swap. The web app never offers to complete one, and for a permanent swap its
\* only button is the return, which the server refuses.
\* (DetailActions of both apps; accept_conditions to confirm_return, views.py)
FulfilmentOffered ==
    \A x \in Exchanges, u \in Users :
        Visible(u, x) /\ exchange[x].status # "pending" =>
            /\ MobileOffers(u, x) \subseteq Taken(u, x)
            /\ WebOffers(u, x) \ Taken(u, x) \subseteq
                   (IF exchange[x].permanent THEN {"useRequestReturn"} ELSE {})
            /\ Taken(u, x) \ (MobileOffers(u, x) \intersect WebOffers(u, x))
                   \subseteq {"useCompleteExchange"}
            /\ Taken(u, x) # {} => MobileOffers(u, x) # {}

=============================================================================
