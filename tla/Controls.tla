-------------------------------- MODULE Controls --------------------------------
(***************************************************************************)
(* What a screen of the mobile app, or a page of the web app, lets its user *)
(* do.  A screen is modelled as the set of controls it offers for the data  *)
(* it shows; a control is what pressing it leads to: the moves it makes in  *)
(* the navigator, at once or when the server has answered its call.         *)
(*                                                                          *)
(* Left out of every screen: what only changes the screen itself (the text  *)
(* typed, the sheet opened, the picture enlarged), and its layout.  A sheet *)
(* or a confirmation that opens over a screen is taken with it: a control   *)
(* that has to be confirmed is offered once the confirmation is given.      *)
(***************************************************************************)
EXTENDS Integers, Sequences, FiniteSets

\* The states of an exchange request, as the server spells them.
Deals == {"pending", "accepted", "conditions_pending", "active", "swap_confirmed",
          "return_requested", "completed", "returned", "declined", "cancelled", "expired"}

\* What the controls of a screen depend on: the state of its query, whether the
\* list it shows is empty, whether what it shows is the user's own (or was done
\* by the user), whether the form in it is complete, and the exchange it is about.
Data == [load   : {"loading", "failed", "missing", "ready"},
         empty  : BOOLEAN,
         mine   : BOOLEAN,
         filled : BOOLEAN,
         deal   : Deals \union {"none"}]

\* A move of the navigator: to a screen of this stack or of a tab, one screen
\* back, back to the root, out of the session or into one.
To(tab, screen) == [tab |-> tab, screen |-> screen]
Here(screen)    == To("here", screen)
Root(tab)       == To(tab, "root")
GoBack          == Here("back")
PopToTop        == Here("top")
SignOut         == Here("sign out")
SignIn          == Here("sign in")

\* A control that moves without a call.
Press(moves) ==
    [call |-> "none", once |-> FALSE, kept |-> FALSE, gate |-> FALSE, moves |-> moves]

Open(screen)        == Press(<<Here(screen)>>)
OpenTab(tab)        == Press(<<Root(tab)>>)
OpenIn(tab, screen) == Press(<<To(tab, screen)>>)
Back                == Press(<<GoBack>>)

\* Controls that stay: the query is sent again, the list is narrowed by a search or a
\* filter, or the user is taken out of the app (its settings, a browser, a share sheet).
Retry  == [Press(<<>>) EXCEPT !.call = "refetch"]
Narrow == [Press(<<>>) EXCEPT !.call = "narrow"]
Leave  == [Press(<<>>) EXCEPT !.call = "leave"]

\* A mutation, by its hook, and the moves made when the server has accepted it.  Once:
\* the control is disabled while the mutation runs.  The moves belong to a callback of
\* mutate(), which a screen that is gone no longer gets, or follow an await (Kept).
Call(hook, moves) == [Press(moves) EXCEPT !.call = hook]
Once(hook, moves) == [Call(hook, moves) EXCEPT !.once = TRUE]
Kept(control)     == [control EXCEPT !.kept = TRUE]

\* requireVerified around a control.
Verified(control) == [control EXCEPT !.gate = TRUE]

When(condition, controls) == IF condition THEN controls ELSE {}

NotCalls   == {"none", "refetch", "narrow", "leave"}
Calls(c)   == c.call \notin NotCalls
Targets(c) == {c.moves[i] : i \in DOMAIN c.moves}

=============================================================================
