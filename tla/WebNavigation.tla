------------------------------ MODULE WebNavigation -----------------------------
(***************************************************************************)
(* The router of the web app: which page an address shows to whom, and      *)
(* where the controls of the pages, the header, the footer, the links in    *)
(* the server's emails and the browser's own buttons lead.  An address is   *)
(* the sequence of its segments, the language first.  React Router is       *)
(* external: it takes the pattern with the most fixed segments, and its     *)
(* navigate works after the page that called it is gone.                    *)
(***************************************************************************)
EXTENDS WebBookPages, WebExchangePages, WebSitePages, FiniteSetsExt, SequencesExt

CONSTANTS
    Languages,      \* SUPPORTED_LANGUAGES
    MaxHistory,     \* a bound: the entries of the browser's history
    MaxCalls        \* a bound: mutations under way at once

ASSUME LanguagesAssumption == Languages # {}
ASSUME HistoryAssumption == MaxHistory \in Nat \ {0} /\ MaxCalls \in Nat

VARIABLES
    member,     \* isAuthenticated of the auth store
    hist,       \* the browser's history, up to the entry that is shown
    calls,      \* the mutations under way
    lapse       \* what the last step did wrong, if anything; the code keeps no such record

vars == <<member, hist, calls, lapse>>

-----------------------------------------------------------------------------
(* routes/config *)

ID == ":id"

PATHS == [
    HOME |-> <<>>, LOGIN |-> <<"login">>, REGISTER |-> <<"register">>,
    FORGOT_PASSWORD |-> <<"forgot-password">>,
    PASSWORD_RESET_CONFIRM |-> <<"password-reset", "confirm">>, ONBOARDING |-> <<"onboarding">>,
    PROFILE |-> <<"profile">>, PROFILE_EDIT |-> <<"profile", "edit">>,
    PUBLIC_PROFILE |-> <<"profile", ID>>, SETTINGS |-> <<"settings">>, MY_SHELF |-> <<"my-shelf">>,
    ADD_BOOK |-> <<"books", "add">>, BOOK_DETAIL |-> <<"books", ID>>,
    EDIT_BOOK |-> <<"books", ID, "edit">>, BROWSE |-> <<"browse">>, CATALOGUE |-> <<"catalogue">>,
    MAP |-> <<"map">>, EXCHANGES |-> <<"exchanges">>, EXCHANGE_DETAIL |-> <<"exchanges", ID>>,
    INCOMING_REQUESTS |-> <<"exchanges", "incoming">>, PRIVACY_POLICY |-> <<"privacy-policy">>,
    TERMS_OF_SERVICE |-> <<"terms-of-service">>, ACCOUNT_DELETION |-> <<"account-deletion">>,
    SUPPORT |-> <<"support">>, HOW_IT_WORKS |-> <<"how-it-works">>, COMMUNITY |-> <<"community">>,
    NOTIFICATION_UNSUBSCRIBE |-> <<"notifications", "unsubscribe", ID>>,
    EMAIL_VERIFY_PENDING |-> <<"auth", "email", "verify-pending">>,
    EMAIL_VERIFY_CONFIRM |-> <<"auth", "email", "verify">>,
    SOCIAL_AUTH_CALLBACK |-> <<"auth", "verified">>,
    SOCIAL_AUTH_ERROR |-> <<"auth", "verify-error">>]

Pages == DOMAIN PATHS

\* Two more addresses that the server sends: neither is a page.
ServerPaths == [DISCOVER |-> <<"discover">>, CANCEL_DELETION |-> <<"account", "cancel-deletion">>]

AuthPages == {"LOGIN", "REGISTER", "FORGOT_PASSWORD"}
GuestPages == AuthPages \union {"ONBOARDING"}

Private == {"SETTINGS", "PROFILE", "PROFILE_EDIT", "PUBLIC_PROFILE", "MY_SHELF", "ADD_BOOK",
            "BOOK_DETAIL", "EDIT_BOOK", "INCOMING_REQUESTS", "EXCHANGE_DETAIL", "EXCHANGES"}

Standalone == {"SOCIAL_AUTH_CALLBACK", "SOCIAL_AUTH_ERROR", "EMAIL_VERIFY_PENDING",
               "EMAIL_VERIFY_CONFIRM", "PASSWORD_RESET_CONFIRM", "NOT_FOUND"}

AppLayout == Pages \ (GuestPages \union Standalone)

\* An address of the page, with any identifier in it.
PathTo(page) ==
    LET path == IF page \in Pages THEN PATHS[page] ELSE ServerPaths[page]
    IN [i \in DOMAIN path |-> IF path[i] = ID THEN "1" ELSE path[i]]

Matches(page, path) ==
    /\ Len(PATHS[page]) = Len(path)
    /\ \A i \in DOMAIN path : PATHS[page][i] \in {ID, path[i]}

Fixed(page) == Cardinality({i \in DOMAIN PATHS[page] : PATHS[page][i] # ID})

\* What the routes under /:lng show for the rest of an address.
PageAt(path) ==
    LET found == {p \in Pages : Matches(p, path)}
    IN IF found = {} THEN "NOT_FOUND"
       ELSE CHOOSE p \in found : \A q \in found : Fixed(q) <= Fixed(p)

-----------------------------------------------------------------------------
(* Redirects, all of which replace the address *)

Entry(path, from) == [path |-> path, returnUrl |-> from]

\* The two addresses of the social login stand above /:lng.
RootRoutes == {<<>>, PATHS.SOCIAL_AUTH_CALLBACK, PATHS.SOCIAL_AUTH_ERROR}

LanguageRedirect(e, lang) == Entry(<<lang>> \o e.path, <<>>)

\* The first segment of any other address is taken for the language. One that is not
\* supported is dropped, whatever it was.
LanguageSync(e, lang) ==
    IF Head(e.path) \in Languages THEN e ELSE Entry(<<lang>> \o Tail(e.path), <<>>)

Localised(e, lang) ==
    IF e.path \in RootRoutes THEN LanguageRedirect(e, lang) ELSE LanguageSync(e, lang)

ProtectedRoute(e, in) ==
    IF ~in /\ PageAt(Tail(e.path)) \in Private
    THEN Entry(<<Head(e.path)>> \o PATHS.LOGIN, e.path) ELSE e

AuthRoutesWrapper(e, in) ==
    IF in /\ PageAt(Tail(e.path)) \in GuestPages THEN Entry(<<Head(e.path)>>, <<>>) ELSE e

Route(e, lang, in) == AuthRoutesWrapper(ProtectedRoute(Localised(e, lang), in), in)

-----------------------------------------------------------------------------
(* The controls of a page *)

View(page, in, d) ==
    CASE page \in AuthPages -> AuthPage(page, d)
      [] page = "ONBOARDING" -> OnboardingPage(d)
      [] page = "SOCIAL_AUTH_CALLBACK" -> SocialAuthCallbackPage(d)
      [] page = "SOCIAL_AUTH_ERROR" -> SocialAuthErrorPage
      [] page = "EMAIL_VERIFY_CONFIRM" -> EmailVerifyConfirmPage(d)
      [] page = "EMAIL_VERIFY_PENDING" -> EmailVerifyPendingPage(d)
      [] page = "PASSWORD_RESET_CONFIRM" -> PasswordResetConfirmPage(d)
      [] page = "HOME" -> HomePage(in, d) [] page = "BROWSE" -> BrowseLandingPage(in, d)
      [] page = "HOW_IT_WORKS" -> HowItWorksPage(in) [] page = "COMMUNITY" -> CommunityPage(in)
      [] page = "SUPPORT" -> SupportPage [] page = "ACCOUNT_DELETION" -> AccountDeletionPage
      [] page = "PRIVACY_POLICY" -> PrivacyPolicyPage
      [] page = "TERMS_OF_SERVICE" -> TermsOfServicePage
      [] page = "NOTIFICATION_UNSUBSCRIBE" -> UnsubscribePage(d)
      [] page = "CATALOGUE" -> CataloguePage(in, d) [] page = "MAP" -> MapPage(d)
      [] page = "BOOK_DETAIL" -> BookDetailPage(d) [] page = "ADD_BOOK" -> AddBookPage(d)
      [] page = "EDIT_BOOK" -> EditBookPage(d) [] page = "MY_SHELF" -> MyShelfPage(d)
      [] page = "EXCHANGES" -> ExchangesPage(d)
      [] page = "INCOMING_REQUESTS" -> IncomingRequestsPage(d)
      [] page = "EXCHANGE_DETAIL" -> ExchangeDetailPage(d)
      [] page = "PROFILE" -> ProfilePage(d) [] page = "PROFILE_EDIT" -> EditProfilePage(d)
      [] page = "PUBLIC_PROFILE" -> PublicProfilePage(d) [] page = "SETTINGS" -> SettingsPage(d)
      [] OTHER -> NotFoundPage

Layout(page, in) == When(page \in AppLayout, HeaderBar(in) \union Footer)

\* Of those, the ones that move.
Offered == [page \in Pages \union {"NOT_FOUND"} |-> [in \in BOOLEAN |->
    {c \in Layout(page, in) \union UNION {View(page, in, d) : d \in Data} : c.moves # <<>>}]]

-----------------------------------------------------------------------------
(* The browser *)

Shown(h)    == Last(h)
Language(h) == Head(Shown(h).path)
Page(h)     == PageAt(Tail(Shown(h).path))

\* The three views of AuthPage are one page: it stays mounted as they change.
Mounted(h) == IF Page(h) \in AuthPages THEN "AuthPage" ELSE Page(h)

\* What is shown and who is signed in, as one value that moves lead through.
At(h, in) == [hist |-> h, in |-> in]

Settled(at, e) == Route(e, Language(hist), at.in)

Pushed(at, e) == [at EXCEPT !.hist = Append(@, Settled(at, e))]
Swapped(at, e) == [at EXCEPT !.hist = Append(Front(@), Settled(at, e))]

\* from: the address that the login page was given to return to.
Go(at, m, lang, from) ==
    CASE m = SignIn  -> LET now == [at EXCEPT !.in = TRUE]  IN Swapped(now, Shown(now.hist))
      [] m = SignOut -> LET now == [at EXCEPT !.in = FALSE] IN Swapped(now, Shown(now.hist))
      [] m = GoBack  -> IF Len(at.hist) = 1 THEN at
                        ELSE Swapped([at EXCEPT !.hist = Front(@)], at.hist[Len(at.hist) - 1])
      [] m.tab = "replaced" ->
            Swapped(at, Entry(<<lang>> \o IF m.screen = "RETURN" THEN from ELSE PathTo(m.screen), <<>>))
      [] m.tab = "bare"       -> Pushed(at, Entry(PathTo(m.screen), <<>>))
      [] OTHER                -> Pushed(at, Entry(<<lang>> \o PathTo(m.screen), <<>>))

Run(at, moves, lang, from) == FoldLeft(LAMBDA a, m : Go(a, m, lang, from), at, moves)

\* Where a move is meant to lead: the login page stands in for a page that a guest may not
\* see, home for one that only guests see.
Meant(m, in, from) ==
    CASE m.screen = "RETURN" -> IF from = <<>> THEN "HOME" ELSE PageAt(Tail(from))
      [] ~in /\ m.screen \in Private   -> "LOGIN"
      [] in /\ m.screen \in GuestPages -> "HOME"
      [] OTHER -> m.screen

NoLapse == <<"none">>

Missed(page, moves, at, from) ==
    LET m == Last(moves) IN
    IF m.tab # "here" /\ Page(at.hist) # Meant(m, at.in, from) THEN <<"missed", page, m.screen>>
    ELSE NoLapse

\* The moves of one step; a page that is left no longer gets the answers to its calls.
Arrive(at, rest) ==
    /\ Len(at.hist) <= MaxHistory
    /\ hist' = at.hist
    /\ member' = at.in
    /\ calls' = [i \in DOMAIN rest |->
                    [rest[i] EXCEPT !.alive = @ /\ Mounted(at.hist) = Mounted(hist)]]

-----------------------------------------------------------------------------
(* Steps *)

\* AuthGate shows no page while the store logs in or out.
Gated == \E i \in DOMAIN calls : calls[i].control.call \in {"login", "logout"}

Addresses ==
    {<<PathTo(p), p>> : p \in Pages \union DOMAIN ServerPaths}
        \union {<<<<l>> \o PathTo(p), p>> : l \in Languages, p \in Pages}

\* The app is opened at any address of a page, with or without a language.
Init ==
    /\ member \in BOOLEAN
    /\ calls = <<>>
    /\ \E a \in Addresses, lang \in Languages :
          LET e == Route(Entry(a[1], <<>>), lang, member) IN
          /\ hist = <<e>>
          /\ lapse = IF PageAt(Tail(e.path)) = Meant(To("address", a[2]), member, <<>>)
                     THEN NoLapse ELSE <<"missed", "address", a[2]>>

\* A control that only moves.
Pressed(c) ==
    /\ c.call = "none"
    /\ LET at == Run(At(hist, member), c.moves, Language(hist), <<>>) IN
       /\ Arrive(at, calls)
       /\ lapse' = Missed(Page(hist), c.moves, at, <<>>)

\* A control that calls the server first.
Called(c) ==
    /\ Calls(c)
    /\ Len(calls) < MaxCalls
    /\ calls' = Append(calls, [control |-> c, page |-> Page(hist), lang |-> Language(hist),
                               from |-> Shown(hist).returnUrl, alive |-> TRUE])
    /\ lapse' = NoLapse
    /\ UNCHANGED <<member, hist>>

Presses ==
    /\ ~Gated
    /\ \E c \in Offered[Page(hist)][member] : Pressed(c) \/ Called(c)

\* The same page in another language, without what the address was given on the way.
LanguageToggle ==
    /\ ~Gated /\ Page(hist) \in AppLayout
    /\ \E l \in Languages \ {Language(hist)} :
          Arrive(Swapped(At(hist, member), Entry(<<l>> \o Tail(Shown(hist).path), <<>>)), calls)
    /\ lapse' = NoLapse

\* The browser's own button, which works while the page is covered.
BrowserBack ==
    /\ Len(hist) > 1
    /\ Arrive(Run(At(hist, member), <<GoBack>>, Language(hist), <<>>), calls)
    /\ lapse' = NoLapse

\* The session ends: a refresh was refused.
SessionEnds ==
    /\ member
    /\ Arrive(Run(At(hist, member), <<SignOut>>, Language(hist), <<>>), calls)
    /\ lapse' = NoLapse

\* An answer. A callback of mutate() is not called once its page is gone; what follows an
\* await is done all the same.
Moved(call, accepted) ==
    IF accepted /\ (call.control.kept \/ call.alive) THEN call.control.moves ELSE <<>>

Answered(i, accepted) ==
    LET call  == calls[i]
        moves == Moved(call, accepted)
        at    == Run(At(hist, member), moves, call.lang, call.from)
    IN /\ Arrive(at, RemoveAt(calls, i))
       /\ lapse' = IF moves = <<>> THEN NoLapse
                   ELSE IF call.alive THEN Missed(call.page, moves, at, call.from)
                   ELSE <<"late", call.page, call.control.call>>

Answer == \E i \in DOMAIN calls, accepted \in BOOLEAN : Answered(i, accepted)

Next == Presses \/ LanguageToggle \/ BrowserBack \/ SessionEnds \/ Answer

Spec == Init /\ [][Next]_vars

-----------------------------------------------------------------------------
(* Properties *)

TypeOK ==
    /\ member \in BOOLEAN
    /\ Len(hist) \in 1..MaxHistory
    /\ \A i \in DOMAIN hist : Head(hist[i].path) \in Languages
    /\ Len(calls) <= MaxCalls
    /\ lapse[1] \in {"none", "missed", "late"}

\* Every control leads to the page it names, or to the login page if a guest may not see
\* that. The exceptions: the server's two addresses without a page; links without a language,
\* which lead home or to no page at all, since their first segment is dropped; and the page a
\* guest was sent to the login page for, whose language the login page puts in front twice.
BareLinks ==
    {"address"} \X (Pages \ {"HOME", "SOCIAL_AUTH_CALLBACK", "SOCIAL_AUTH_ERROR"})
    \union {"EMAIL_VERIFY_CONFIRM", "EMAIL_VERIFY_PENDING", "PASSWORD_RESET_CONFIRM"} \X {"LOGIN"}
    \union {<<"EMAIL_VERIFY_CONFIRM", "EMAIL_VERIFY_PENDING">>, <<"SOCIAL_AUTH_ERROR", "REGISTER">>,
            <<"PASSWORD_RESET_CONFIRM", "FORGOT_PASSWORD">>, <<"EXCHANGES", "INCOMING_REQUESTS">>,
            <<"EXCHANGES", "CATALOGUE">>, <<"BOOK_DETAIL", "CATALOGUE">>, <<"MY_SHELF", "ADD_BOOK">>,
            <<"CATALOGUE", "PROFILE_EDIT">>, <<"ADD_BOOK", "PROFILE_EDIT">>}

LinksLand ==
    lapse[1] = "missed" =>
        \/ lapse[3] \in DOMAIN ServerPaths
        \/ <<lapse[2], lapse[3]>> \in BareLinks
        \/ <<lapse[2], lapse[3]>> = <<"LOGIN", "RETURN">>

\* A user who has gone on to another page is not taken away from it by the answer to a call
\* of the page before. Signing in and out excepted, which lead on from anywhere, and what a
\* guest asks for on the way in.
AnswersStayWhereAsked ==
    lapse[1] = "late" =>
        lapse[3] \in {"login", "logout", "register", "onboarding", "exchangeSocialToken"}

\* The comment of LanguageRedirect: "bare URLs like /login or /books/42 are transparently
\* rewritten to /en/login or /en/books/42".  The code does not keep it: LanguageSync
\* drops their first segment.
BarePathsKeepTheirPage == lapse[1] = "missed" /\ lapse[2] = "address" => lapse[3] \notin Pages

=============================================================================
