---------------------------- MODULE MobileNavigation -----------------------------
(***************************************************************************)
(* The navigator of the mobile app: which screens are mounted, in which     *)
(* stacks, and where the controls of the screens, the tab bar, the headers, *)
(* links and notifications lead.  The navigation library is external: it    *)
(* pushes a screen that is navigated to unless it is on top already, mounts *)
(* a tab when it is first visited, with only the screen it is asked for if  *)
(* it is asked for one, and drops a move to a screen that neither the stack *)
(* nor the navigators above it know.                                        *)
(***************************************************************************)
EXTENDS MobileBookScreens, MobileExchangeScreens, MobileAccountScreens, FiniteSetsExt, SequencesExt

CONSTANTS
    MaxPushed,   \* a bound: screens above the bottoms of all stacks together, and the link
    MaxCalls     \* a bound: mutations under way at once

ASSUME NavigationBounds == MaxPushed \in Nat /\ MaxCalls \in Nat

VARIABLES
    session,    \* "booting", "guest", "newcomer" or "member"
    verified,   \* user.email_verified
    nav,        \* the navigator: where it is, its stacks, the mutations of its screens
    linked,     \* whether a link was followed in this session: "no", "warm" or, if it
                \* started the app, "cold"
    lapse       \* what the last step did wrong, if anything; the code keeps no such record

vars == <<session, verified, nav, linked, lapse>>

-----------------------------------------------------------------------------
(* The stacks *)

HomeStack     == {"Home", "BookDetail", "EditBook", "RequestSwap", "UserProfile", "UserReviews",
                  "Notifications"}
BrowseStack   == {"BrowseMap", "BookDetail", "EditBook", "RequestSwap", "UserProfile",
                  "UserReviews"}
\* Mutant: the form is only in the stack of the profile.
ScanStackNoForm == {"Scanner", "BookSearch", "ScanResult"}

ScanStack     == {"Scanner", "BookSearch", "ScanResult", "AddBook"}
MessagesStack == {"ExchangeList", "IncomingRequests", "ExchangeDetail", "CounterOffer", "Chat",
                  "UserProfile", "UserReviews"}
ProfileStack  == {"MyProfile", "EditProfile", "MyBooks", "BookDetail", "AddBook", "EditBook",
                  "Wishlist", "Settings", "NotificationPreferences", "BlockedUsers",
                  "ChangePassword", "MyReviews", "Appearance", "Language", "About"}
AuthStack     == {"Login", "Register", "ForgotPassword", "PasswordResetConfirm",
                  "EmailVerifyPending", "EmailVerifyConfirm"}

MainTabs == {"HomeTab", "BrowseTab", "ScanTab", "MessagesTab", "ProfileTab"}

ScreensOf == [HomeTab |-> HomeStack, BrowseTab |-> BrowseStack, ScanTab |-> ScanStack,
              MessagesTab |-> MessagesStack, ProfileTab |-> ProfileStack, Auth |-> AuthStack,
              Onboarding |-> {"Onboarding"}]

First == [HomeTab |-> "Home", BrowseTab |-> "BrowseMap", ScanTab |-> "Scanner",
          MessagesTab |-> "ExchangeList", ProfileTab |-> "MyProfile", Auth |-> "Login",
          Onboarding |-> "Onboarding"]

Stacks  == DOMAIN First
Screens == UNION {ScreensOf[t] : t \in Stacks}

\* Which of the three the root navigator shows.
RootNavigator(s) == CASE s = "member" -> "HomeTab" [] s = "newcomer" -> "Onboarding"
                      [] OTHER -> "Auth"

\* Where a mutation under way is kept, and what an empty place holds.
Slots  == 1..MaxCalls
NoCall == [control |-> Narrow, tab |-> "none", place |-> 0]
Idle   == [i \in Slots |-> NoCall]

\* One stack, with one screen.
OnlyShowing(t, s) ==
    [tab |-> t, stack |-> [u \in Stacks |-> IF u = t THEN <<s>> ELSE <<>>], calls |-> Idle]

Mounted(s) == OnlyShowing(RootNavigator(s), First[RootNavigator(s)])

-----------------------------------------------------------------------------
(* The controls of a screen *)

View(s, d) ==
    CASE s = "Home" -> HomeScreen(d) [] s = "BookDetail" -> BookDetailScreen(d)
      [] s = "EditBook" -> EditBookScreen(d) [] s = "RequestSwap" -> RequestSwapScreen(d)
      [] s = "UserProfile" -> UserProfileScreen(d) [] s = "UserReviews" -> UserReviewsScreen(d)
      [] s = "Notifications" -> NotificationListScreen(d) [] s = "BrowseMap" -> BrowseMapScreen(d)
      [] s = "Scanner" -> ScannerScreen(d) [] s = "BookSearch" -> BookSearchScreen(d)
      [] s = "ScanResult" -> ScanResultScreen(d) [] s = "AddBook" -> AddBookScreen(d)
      [] s = "ExchangeList" -> ExchangeListScreen(d)
      [] s = "IncomingRequests" -> IncomingRequestsScreen(d)
      [] s = "ExchangeDetail" -> ExchangeDetailScreen(d)
      [] s = "CounterOffer" -> CounterOfferScreen(d) [] s = "Chat" -> ChatScreen(d)
      [] s = "MyProfile" -> MyProfileScreen(d) [] s = "EditProfile" -> EditProfileScreen(d)
      [] s = "MyBooks" -> MyBooksScreen(d) [] s = "Wishlist" -> WishlistScreen(d)
      [] s = "Settings" -> SettingsScreen(d)
      [] s = "NotificationPreferences" -> NotificationPreferencesScreen(d)
      [] s = "BlockedUsers" -> BlockedUsersScreen(d)
      [] s = "ChangePassword" -> ChangePasswordScreen(d) [] s = "MyReviews" -> MyReviewsScreen(d)
      [] s = "Appearance" -> AppearanceScreen [] s = "Language" -> LanguageScreen
      [] s = "About" -> AboutScreen [] s = "Login" -> LoginScreen(d)
      [] s = "Register" -> RegisterScreen(d) [] s = "ForgotPassword" -> ForgotPasswordScreen(d)
      [] s = "PasswordResetConfirm" -> PasswordResetConfirmScreen(d)
      [] s = "EmailVerifyPending" -> EmailVerifyPendingScreen(d)
      [] s = "EmailVerifyConfirm" -> EmailVerifyConfirmScreen(d)
      [] s = "Onboarding" -> OnboardingScreen(d)

Offered == [s \in Screens |-> UNION {View(s, d) : d \in Data}]

-----------------------------------------------------------------------------
(* The headers and the tab bar *)

HeaderAvatar     == OpenIn("ProfileTab", "MyProfile")
NotificationBell == OpenIn("HomeTab", "Notifications")
HeaderBackButton == Back
HeaderHomeButton == OpenTab("HomeTab")

Header(tab, s) ==
    LET button == CASE s # First[tab] -> HeaderBackButton
                    [] s = First[tab] /\ tab \in {"BrowseTab", "ProfileTab"} -> HeaderHomeButton
                    [] OTHER -> HeaderAvatar
    IN When(tab \in MainTabs /\ s # "Chat", {button, NotificationBell})

HIDDEN_CHILD_ROUTES ==
    {"Chat", "BookDetail", "ExchangeDetail", "UserProfile", "UserReviews", "AddBook",
     "ScanResult", "RequestSwap", "CounterOffer", "EditBook", "Notifications"}
HIDE_BAR_WHEN_ACTIVE == {"ProfileTab", "BrowseTab"}
EXCLUDED_FROM_BAR    == {"ProfileTab"}

computeVisibility(tab, s) ==
    tab \in MainTabs \ HIDE_BAR_WHEN_ACTIVE /\ s \notin HIDDEN_CHILD_ROUTES

-----------------------------------------------------------------------------
(* The navigator: n.stack[tab] is a sequence of screens; n.calls[i] is a mutation under
   way whose answer leads somewhere, with the place of its screen in its stack, or 0
   once that is gone. *)

Top(n, tab) == n.stack[tab][Len(n.stack[tab])]

\* A callback of mutate() is not called once its screen is gone; what follows an await is
\* done all the same.
Orphaned(call) == IF call.control.kept THEN [call EXCEPT !.place = 0] ELSE NoCall

\* A shorter stack no longer holds the screens of some calls.
Placed(n, call) ==
    IF call # NoCall /\ call.place > Len(n.stack[call.tab]) THEN Orphaned(call) ELSE call

Forget(n) == [n EXCEPT !.calls = [i \in Slots |-> Placed(n, @[i])]]

Push(n, tab, s) ==
    IF n.stack[tab] # <<>> /\ Top(n, tab) = s THEN n ELSE [n EXCEPT !.stack[tab] = Append(@, s)]

\* goBack() is handled by the stack it is called in or, at its bottom, by the tabs,
\* which go back to the first one.
Pop(n, tab) ==
    IF Len(n.stack[tab]) > 1 THEN Forget([n EXCEPT !.stack[tab] = Front(@)])
    ELSE IF tab \in MainTabs /\ n.tab # "HomeTab"
    THEN [n EXCEPT !.tab = "HomeTab", !.stack.HomeTab = IF @ = <<>> THEN <<"Home">> ELSE @]
    ELSE n

Go(n, here, m) ==
    CASE m.screen = "back" -> Pop(n, here)
      [] m.screen = "top"  -> Forget([n EXCEPT !.stack[here] = <<Head(@)>>])
      [] m.screen = "root" ->
            [n EXCEPT !.tab = m.tab, !.stack[m.tab] = IF @ = <<>> THEN <<First[m.tab]>> ELSE @]
      [] m.tab = "here" /\ m.screen \notin {"back", "top", "root"} ->
            IF m.screen \in ScreensOf[here] THEN Push(n, here, m.screen) ELSE n
      [] OTHER             -> Push([n EXCEPT !.tab = m.tab], m.tab, m.screen)

Run(n, here, moves) == FoldLeft(LAMBDA at, m : Go(at, here, m), n, moves)

Lost(here, moves) ==
    {m \in {moves[i] : i \in DOMAIN moves} :
        m.tab = "here" /\ m.screen \notin ScreensOf[here] \union {"back", "top"}}

\* A link that was followed counts as one of the screens.
InBounds(n) ==
    MapThenSumSet(LAMBDA t : IF n.stack[t] = <<>> THEN 0 ELSE Len(n.stack[t]) - 1, Stacks)
        + (IF linked' = "no" THEN 0 ELSE 1) <= MaxPushed

NoLapse            == <<"none">>
Dropped(s, target) == <<"dropped", s, target>>
Closed(own, over, tab) == <<"closed", own, over, tab>>

\* The move of one step, from the stack `here` that shows s.
Moves(here, s, moves) ==
    /\ nav' = Run(nav, here, moves)
    /\ lapse' = IF Lost(here, moves) = {} THEN NoLapse
                ELSE Dropped(s, (CHOOSE m \in Lost(here, moves) : TRUE).screen)
    /\ InBounds(nav')
    /\ UNCHANGED <<session, verified>>

-----------------------------------------------------------------------------
(* Starting, signing in and out *)

Init ==
    /\ session = "booting"
    /\ verified = FALSE
    /\ nav = Mounted("booting")
    /\ linked = "no"
    /\ lapse = NoLapse

\* The root navigator mounts what the new state of the store calls for. The calls of the
\* session before go on, without a screen.
Shows(s) ==
    /\ session' = s
    /\ verified' \in IF s = "guest" THEN {FALSE}
                     ELSE IF session \in {"newcomer", "member"} THEN {verified} ELSE BOOLEAN
    /\ linked' = "no"
    /\ lapse' = NoLapse

Remounted(s, calls) == [Mounted(s) EXCEPT !.calls = [i \in Slots |-> Orphaned(calls[i])]]

Hydrated ==
    /\ session = "booting"
    /\ \E s \in {"guest", "newcomer", "member"} : Shows(s) /\ nav' = Mounted(s)

\* config of linking.ts: the screens a link leads to.
Links ==
    ({"HomeTab"} \X {"Home", "BookDetail", "UserProfile", "UserReviews", "Notifications"})
    \union ({"BrowseTab"} \X {"BrowseMap"})
    \union ({"ScanTab"} \X {"Scanner", "AddBook"})
    \union ({"MessagesTab"} \X {"ExchangeList", "IncomingRequests", "ExchangeDetail", "Chat"})
    \union ({"ProfileTab"} \X {"MyProfile", "EditProfile", "MyBooks", "Wishlist", "Settings",
                              "NotificationPreferences", "BlockedUsers", "ChangePassword",
                              "Appearance", "Language"})
    \union ({"Auth"} \X {"Login", "Register", "PasswordResetConfirm", "EmailVerifyPending",
                        "EmailVerifyConfirm"})

\* Only what the link names is mounted: the configuration names no initial screen.
StartedByLink ==
    /\ session = "booting"
    /\ \E l \in Links :
          /\ session' = IF l[1] = "Auth" THEN "guest" ELSE "member"
          /\ verified' \in IF l[1] = "Auth" THEN {FALSE} ELSE BOOLEAN
          /\ nav' = OnlyShowing(l[1], l[2])
    /\ linked' = "cold"
    /\ lapse' = NoLapse

-----------------------------------------------------------------------------
(* What the user does *)

ShownTab    == nav.tab
ShownScreen == Top(nav, nav.tab)
Up          == session # "booting"

Stays == UNCHANGED <<session, verified, nav, linked>>

\* A control that only moves.
Pressed(c) ==
    /\ c.call = "none"
    /\ c.gate => verified
    /\ UNCHANGED linked
    /\ Moves(ShownTab, ShownScreen, c.moves)

\* A control that calls the server first. A call that is followed by no move leaves the
\* navigator as it is: what it does is in MobileQueries and MobileClient.
Called(c) ==
    /\ Calls(c) /\ c.moves # <<>>
    /\ c.gate => verified
    /\ c.once => \A i \in Slots : nav.calls[i].control # c \/ nav.calls[i].place = 0
    /\ \E i \in Slots :
          /\ nav.calls[i] = NoCall
          /\ nav' = [nav EXCEPT !.calls[i] =
                [control |-> c, tab |-> ShownTab, place |-> Len(nav.stack[ShownTab])]]
    /\ lapse' = NoLapse
    /\ UNCHANGED <<session, verified, linked>>

\* requireVerified: the alert offers to verify now, a screen of a navigator that is not there.
useEmailVerificationGate(c) ==
    /\ c.gate /\ ~verified
    /\ lapse' = Dropped(ShownScreen, "Auth")
    /\ Stays

Presses ==
    /\ Up
    /\ \E c \in Offered[ShownScreen] : Pressed(c) \/ Called(c) \/ useEmailVerificationGate(c)

UsesHeader ==
    /\ Up
    /\ UNCHANGED linked
    /\ \E c \in Header(ShownTab, ShownScreen) : Moves(ShownTab, ShownScreen, c.moves)

\* A press on the tab that is shown goes back to the bottom of its stack.
FloatingTabBar ==
    /\ Up
    /\ computeVisibility(ShownTab, ShownScreen)
    /\ UNCHANGED linked
    /\ \E t \in MainTabs \ EXCLUDED_FROM_BAR :
          Moves(ShownTab, ShownScreen, IF t = ShownTab THEN <<PopToTop>> ELSE <<Root(t)>>)

\* The system's own back button, on Android.
HardwareBack ==
    /\ Up
    /\ UNCHANGED linked
    /\ Moves(ShownTab, ShownScreen, <<GoBack>>)

-----------------------------------------------------------------------------
(* What happens to the user *)

\* navigateFromPayload: a push notification is tapped. Without a navigator, or with one that
\* does not show the tabs, the tap is lost.
PushTargets ==
    {To("MessagesTab", "ExchangeDetail"), To("MessagesTab", "Chat"), To("HomeTab", "BookDetail")}

navigateFromPayload ==
    IF session = "member"
    THEN UNCHANGED linked /\ \E m \in PushTargets : Moves(ShownTab, ShownScreen, <<m>>)
    ELSE /\ lapse' = Dropped("notification", "Main")
         /\ Stays

\* A link is followed while the app runs, once in a session: the bound of this model.
LinkFollowed ==
    /\ Up /\ linked = "no"
    /\ \E l \in Links :
          IF session # "newcomer" /\ (l[1] = "Auth" <=> session = "guest")
          THEN linked' = "warm" /\ Moves(ShownTab, ShownScreen, <<To(l[1], l[2])>>)
          ELSE /\ lapse' = Dropped("link", l[1])
               /\ Stays

\* The server has answered a call. Its moves are made in the stack of its screen, on
\* whatever that stack shows by then.
Moved(call, accepted) == IF accepted THEN call.control.moves ELSE <<>>

Answered(i, accepted) ==
    LET call  == nav.calls[i]
        rest  == [nav EXCEPT !.calls[i] = NoCall]
        moves == Moved(call, accepted)
    IN CASE moves = <<SignOut>> -> Shows("guest") /\ nav' = Remounted("guest", rest.calls)
         [] moves = <<SignIn>> ->
               \E s \in IF session = "newcomer" THEN {"member"} ELSE {"newcomer", "member"} :
                   Shows(s) /\ nav' = Remounted(s, rest.calls)
         [] OTHER ->
               /\ nav' = Run(rest, call.tab, moves)
               /\ lapse' = IF moves = <<GoBack>> /\ call.place \notin {0, Len(nav.stack[call.tab])}
                           THEN Closed(nav.stack[call.tab][call.place],
                                       nav.stack[call.tab][call.place + 1], call.tab)
                           ELSE NoLapse
               /\ UNCHANGED <<session, verified, linked>>
               /\ InBounds(nav')

Answer ==
    /\ Up
    /\ \E i \in Slots, accepted \in BOOLEAN : nav.calls[i] # NoCall /\ Answered(i, accepted)

Next ==
    \/ Hydrated \/ StartedByLink
    \/ Presses \/ UsesHeader \/ FloatingTabBar \/ HardwareBack
    \/ navigateFromPayload \/ LinkFollowed
    \/ Answer

Spec == Init /\ [][Next]_vars

-----------------------------------------------------------------------------
(* Properties *)

TypeOK ==
    /\ session \in {"booting", "guest", "newcomer", "member"}
    /\ verified \in BOOLEAN /\ linked \in {"no", "warm", "cold"}
    /\ nav.tab \in Stacks /\ nav.stack[nav.tab] # <<>>
    /\ \A t \in Stacks : nav.stack[t] \in Seq(ScreensOf[t])
    /\ nav.tab \in MainTabs <=> session = "member"
    /\ \A i \in Slots : nav.calls[i] # NoCall =>
          nav.calls[i].place \in 0..Len(nav.stack[nav.calls[i].tab])

\* A move to a screen that the navigator does not know does nothing at all, not even a
\* message. Every control leads somewhere, but for these: the exchange of a book is opened
\* from stacks that have no ExchangeDetail, the profile's stack has neither RequestSwap nor
\* UserProfile for the BookDetail it has, "Verify now" leads to the navigator of guests, and
\* notices and links are lost while the navigator they lead to is not mounted.
KnownDeadLinks ==
    ({"BookDetail"} \X {"ExchangeDetail", "RequestSwap", "UserProfile", "Auth"})
    \union ({"MyBooks", "Chat"} \X {"Auth"})
    \union ({"notification"} \X {"Main"}) \union ({"link"} \X Stacks)

LinksLand == Head(lapse) = "dropped" => <<lapse[2], lapse[3]>> \in KnownDeadLinks

\* Wherever the user gets to, something on the screen leads out of it: the tab bar, a button
\* of the header, or a way back that the navigator handles; for a guest or a newcomer, a
\* control. The form of a new password only has its own button. A link that starts the app
\* is excepted: it may open a screen of the home tab with nothing below it.
LedOut ==
    [s \in Screens |-> \A d \in Data : d.load # "loading" => \E c \in View(s, d) : c.moves # <<>>]

LedBack == [s \in Screens |-> \A d \in Data : Back \in View(s, d)]

WayOut ==
    Up /\ linked # "cold" =>
        \/ computeVisibility(ShownTab, ShownScreen)
        \/ Header(ShownTab, ShownScreen) \intersect {HeaderAvatar, HeaderHomeButton} # {}
        \/ /\ LedBack[ShownScreen] \/ HeaderBackButton \in Header(ShownTab, ShownScreen)
           /\ Len(nav.stack[ShownTab]) > 1 \/ ShownTab \in MainTabs \ {"HomeTab"}
        \/ ShownTab \notin MainTabs /\ (LedOut[ShownScreen] \/ ShownScreen = "PasswordResetConfirm")

\* The list a tab is for stays within reach: it is at the bottom of the tab's stack, whatever
\* opened the tab first. Not so the profile, whose avatar in the header leads to it anyway,
\* and the list of exchanges: a notification that opens an exchange before the tab was ever
\* visited leaves the user without the list until the app is started again. Links mount
\* only what they name.
RootWithinReach ==
    session = "member" /\ linked = "no" =>
        \A t \in MainTabs : nav.stack[t] # <<>> =>
            \/ nav.stack[t][1] = First[t]
            \/ <<t, nav.stack[t][1]>> \in ({"ProfileTab"} \X {"MyBooks", "EditBook"})
                                          \union ({"MessagesTab"} \X {"Chat", "ExchangeDetail"})

\* A form that closes when the server has accepted it closes itself: it offers nothing that
\* would open another screen over it while its call is under way. Two things break this: the
\* profile of a user who is being blocked still opens the user's reviews, which are closed
\* instead, and another tab, a notice or a link can open a screen over any form.
FromElsewhere ==
    (UNION {Targets(c) : c \in (UNION {Offered[s] : s \in Screens}) \union {HeaderAvatar, NotificationBell}})
        \union PushTargets \union {To(l[1], l[2]) : l \in Links}

AnswersCloseTheirOwn ==
    Head(lapse) = "closed" =>
        lapse[2] = "UserProfile" \/ To(lapse[4], lapse[3]) \in FromElsewhere

=============================================================================
