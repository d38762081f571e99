------------------------- MODULE MobileNavigationProofs --------------------------
(***************************************************************************)
(* Proofs about the navigator of the mobile app (MobileNavigation), for any *)
(* number of screens in the stacks and of mutations under way.              *)
(***************************************************************************)
EXTENDS MobileNavigation, SequenceTheorems, TLAPS

-----------------------------------------------------------------------------
(* What the controls of a screen may do. *)

\* The screens that a screen opens in its own stack.
Opens(s, x) ==
    \/ s \in {"Home", "BrowseMap", "MyBooks", "Wishlist"} /\ x = "BookDetail"
    \/ s = "BookDetail" /\ x \in {"ExchangeDetail", "UserProfile", "EditBook", "RequestSwap"}
    \/ s = "MyBooks" /\ x = "AddBook"
    \/ s = "UserProfile" /\ x = "UserReviews"
    \/ s = "Scanner" /\ x \in {"ScanResult", "BookSearch", "AddBook"}
    \/ s = "ScanResult" /\ x \in {"BookSearch", "AddBook"}
    \/ s = "BookSearch" /\ x \in {"ScanResult", "AddBook"}
    \/ s = "ExchangeList" /\ x \in {"ExchangeDetail", "IncomingRequests"}
    \/ s = "IncomingRequests" /\ x = "ExchangeDetail"
    \/ s = "ExchangeDetail" /\ x \in {"Chat", "CounterOffer"}
    \/ s = "MyProfile" /\ x \in {"MyBooks", "EditProfile", "Wishlist", "MyReviews", "Settings"}
    \/ s = "Settings" /\ x \in {"NotificationPreferences", "BlockedUsers", "Appearance",
                                "Language", "About", "ChangePassword"}
    \/ s = "Login" /\ x \in {"ForgotPassword", "Register"}
    \/ s = "EmailVerifyConfirm" /\ x = "EmailVerifyPending"
    \/ s = "PasswordResetConfirm" /\ x = "ForgotPassword"
    \/ s \in {"Register", "ForgotPassword", "PasswordResetConfirm", "EmailVerifyPending",
              "EmailVerifyConfirm"} /\ x = "Login"

\* The moves to another tab, and the screens that make them.
Across ==
    {Root("BrowseTab"), Root("ScanTab"), To("BrowseTab", "BrowseMap"), To("ProfileTab", "MyBooks"),
     To("MessagesTab", "Chat"), To("MessagesTab", "ExchangeDetail")}

Crossing == {"Home", "MyBooks", "Notifications"}

\* The screens that close when their call is accepted.
Closing == {"UserProfile", "EditBook", "RequestSwap", "CounterOffer", "EditProfile"}

Moving(s, c) ==
    /\ c.call = "none" /\ ~c.kept
    /\ \E m : /\ c.moves = <<m>>
              /\ \/ m = GoBack
                 \/ m = Here(m.screen) /\ Opens(s, m.screen)
                 \/ m \in Across /\ s \in Crossing

Asking(s, c) ==
    /\ c.call # "none"
    /\ \/ c.moves = <<SignIn>> \/ c.moves = <<SignOut>>
       \/ ~c.kept /\ c.moves = <<>>
       \/ ~c.kept /\ c.moves = <<GoBack>> /\ s \in Closing
       \/ ~c.kept /\ c.moves \in CheckDone /\ s = "AddBook"
       \/ ~c.kept /\ c.moves = <<Here("EmailVerifyPending")>> /\ s = "Register"

Gated == {"BookDetail", "MyBooks", "Chat"}

Suits(s, c) == (c.gate => s \in Gated) /\ (Moving(s, c) \/ Asking(s, c))

AllSuit(s, controls) == \A c \in controls : Suits(s, c)

LEMMA SuitingStays ==
  \A s : /\ Suits(s, Retry) /\ Suits(s, Narrow) /\ Suits(s, Leave) /\ Suits(s, Back)
         /\ \A hook : hook # "none" => /\ Suits(s, Once(hook, <<>>)) /\ Suits(s, Call(hook, <<>>))
  BY DEF Suits, Moving, Asking, Retry, Narrow, Leave, Back, Once, Call, Press

LEMMA SuitingOpen == \A s, x : Opens(s, x) => Suits(s, Open(x))
  BY DEF Suits, Moving, Open, Press, Here, To

LEMMA SuitingCross ==
  \A s \in Crossing :
    /\ Suits(s, OpenTab("BrowseTab")) /\ Suits(s, OpenTab("ScanTab"))
    /\ Suits(s, OpenIn("BrowseTab", "BrowseMap")) /\ Suits(s, OpenIn("ProfileTab", "MyBooks"))
    /\ Suits(s, OpenIn("MessagesTab", "Chat")) /\ Suits(s, OpenIn("MessagesTab", "ExchangeDetail"))
  <1>1. ASSUME NEW m \in Across, NEW s \in Crossing PROVE Suits(s, Press(<<m>>))
    BY <1>1 DEF Suits, Moving, Press
  <1> QED BY <1>1 DEF OpenTab, OpenIn, Across

LEMMA SuitingVerified == \A s \in Gated : \A c : Suits(s, c) => Suits(s, Verified(c))
  BY DEF Suits, Moving, Asking, Verified

LEMMA SuitingCalls ==
  ASSUME NEW hook, hook # "none", NEW s
  PROVE  /\ Suits(s, Kept(Once(hook, <<SignIn>>))) /\ Suits(s, Kept(Once(hook, <<SignOut>>)))
         /\ Suits(s, Kept(Call(hook, <<SignOut>>))) /\ Suits(s, Once(hook, <<SignOut>>))
         /\ s \in Closing => Suits(s, Once(hook, <<GoBack>>))
         /\ s = "AddBook" => \A moves \in CheckDone : Suits(s, Once(hook, moves))
         /\ s = "Register" => Suits(s, Once(hook, <<Here("EmailVerifyPending")>>))
  BY DEF Suits, Asking, Kept, Once, Call, Press

-----------------------------------------------------------------------------
(* The screens, one by one. *)

LEMMA AuthSuits ==
  \A d : /\ AllSuit("Login", LoginScreen(d)) /\ AllSuit("Register", RegisterScreen(d))
         /\ AllSuit("ForgotPassword", ForgotPasswordScreen(d))
         /\ AllSuit("PasswordResetConfirm", PasswordResetConfirmScreen(d))
         /\ AllSuit("EmailVerifyPending", EmailVerifyPendingScreen(d))
         /\ AllSuit("EmailVerifyConfirm", EmailVerifyConfirmScreen(d))
         /\ AllSuit("Onboarding", OnboardingScreen(d))
  <1> SUFFICES ASSUME NEW d
               PROVE  /\ AllSuit("Login", LoginScreen(d))
                      /\ AllSuit("Register", RegisterScreen(d))
                      /\ AllSuit("ForgotPassword", ForgotPasswordScreen(d))
                      /\ AllSuit("PasswordResetConfirm", PasswordResetConfirmScreen(d))
                      /\ AllSuit("EmailVerifyPending", EmailVerifyPendingScreen(d))
                      /\ AllSuit("EmailVerifyConfirm", EmailVerifyConfirmScreen(d))
                      /\ AllSuit("Onboarding", OnboardingScreen(d))
    OBVIOUS
  <1>1. \A s : AllSuit(s, SocialAuthSection)
    BY SuitingCalls DEF AllSuit, SocialAuthSection, useGoogleSignIn, useAppleSignIn
  <1>2. AllSuit("Login", LoginScreen(d))
    <2>1. Opens("Login", "ForgotPassword") /\ Opens("Login", "Register")
      BY DEF Opens
    <2> QED BY <1>1, <2>1, SuitingStays, SuitingOpen, SuitingCalls
            DEF AllSuit, LoginScreen, CancelDeletion, When
  <1>3. AllSuit("Register", RegisterScreen(d))
    <2>1. Opens("Register", "Login")
      BY DEF Opens
    <2> QED BY <1>1, <2>1, SuitingOpen, SuitingCalls DEF AllSuit, RegisterScreen
  <1>4. AllSuit("ForgotPassword", ForgotPasswordScreen(d))
    <2>1. Opens("ForgotPassword", "Login")
      BY DEF Opens
    <2> QED BY <2>1, SuitingStays, SuitingOpen DEF AllSuit, ForgotPasswordScreen
  <1>5. AllSuit("PasswordResetConfirm", PasswordResetConfirmScreen(d))
    <2>1. Opens("PasswordResetConfirm", "Login") /\ Opens("PasswordResetConfirm", "ForgotPassword")
      BY DEF Opens
    <2> QED BY <2>1, SuitingStays, SuitingOpen DEF AllSuit, PasswordResetConfirmScreen
  <1>6. AllSuit("EmailVerifyPending", EmailVerifyPendingScreen(d))
    <2>1. Opens("EmailVerifyPending", "Login")
      BY DEF Opens
    <2> QED BY <2>1, SuitingStays, SuitingOpen DEF AllSuit, EmailVerifyPendingScreen, When
  <1>7. AllSuit("EmailVerifyConfirm", EmailVerifyConfirmScreen(d))
    <2>1. Opens("EmailVerifyConfirm", "Login") /\ Opens("EmailVerifyConfirm", "EmailVerifyPending")
      BY DEF Opens
    <2> QED BY <2>1, SuitingOpen DEF AllSuit, EmailVerifyConfirmScreen
  <1>8. AllSuit("Onboarding", OnboardingScreen(d))
    BY SuitingStays, SuitingCalls
       DEF AllSuit, OnboardingScreen, OnboardingGps, OnboardingPostcode, OnboardingComplete,
           OnboardingSkip, When
  <1> QED BY <1>2, <1>3, <1>4, <1>5, <1>6, <1>7, <1>8

LEMMA MessageSuits ==
  \A d : /\ AllSuit("Chat", ChatScreen(d)) /\ AllSuit("Notifications", NotificationListScreen(d))
         /\ AllSuit("NotificationPreferences", NotificationPreferencesScreen(d))
         /\ AllSuit("MyReviews", MyReviewsScreen(d)) /\ AllSuit("UserReviews", UserReviewsScreen(d))
         /\ AllSuit("BlockedUsers", BlockedUsersScreen(d))
         /\ AllSuit("Scanner", ScannerScreen(d)) /\ AllSuit("ScanResult", ScanResultScreen(d))
  <1> SUFFICES ASSUME NEW d
               PROVE  /\ AllSuit("Chat", ChatScreen(d))
                      /\ AllSuit("Notifications", NotificationListScreen(d))
                      /\ AllSuit("NotificationPreferences", NotificationPreferencesScreen(d))
                      /\ AllSuit("MyReviews", MyReviewsScreen(d))
                      /\ AllSuit("UserReviews", UserReviewsScreen(d))
                      /\ AllSuit("BlockedUsers", BlockedUsersScreen(d))
                      /\ AllSuit("Scanner", ScannerScreen(d))
                      /\ AllSuit("ScanResult", ScanResultScreen(d))
    OBVIOUS
  <1>1. AllSuit("Chat", ChatScreen(d))
    <2>1. \A c \in MessageInput(d) \union MeetupSuggestionPanel(d) : Suits("Chat", Verified(c))
      BY SuitingVerified, SuitingStays
         DEF MessageInput, MeetupSuggestionPanel, When, Gated
    <2> QED BY <2>1, SuitingStays
            DEF AllSuit, ChatScreen, ChatHeader, ReadOnlyBanner, handleSend
  <1>2. AllSuit("Notifications", NotificationListScreen(d))
    <2>1. "Notifications" \in Crossing
      BY DEF Crossing
    <2> QED BY <2>1, SuitingStays, SuitingCross
            DEF AllSuit, NotificationListScreen, NotificationTaps, MarkAllHeader, When
  <1>3. /\ AllSuit("NotificationPreferences", NotificationPreferencesScreen(d))
        /\ AllSuit("MyReviews", MyReviewsScreen(d)) /\ AllSuit("UserReviews", UserReviewsScreen(d))
        /\ AllSuit("BlockedUsers", BlockedUsersScreen(d))
    BY SuitingStays
       DEF AllSuit, NotificationPreferencesScreen, MyReviewsScreen, UserReviewsScreen,
           BlockedUsersScreen, BlockedUser, When
  <1>4. AllSuit("Scanner", ScannerScreen(d))
    <2>1. \A x \in {"ScanResult", "BookSearch", "AddBook"} : Opens("Scanner", x)
      BY DEF Opens
    <2> QED BY <2>1, SuitingStays, SuitingOpen DEF AllSuit, ScannerScreen, Barcode, When
  <1>5. AllSuit("ScanResult", ScanResultScreen(d))
    <2>1. Opens("ScanResult", "BookSearch") /\ Opens("ScanResult", "AddBook")
      BY DEF Opens
    <2> QED BY <2>1, SuitingStays, SuitingOpen
            DEF AllSuit, ScanResultScreen, ScanResultFailed, ScanResultUnknown, ScanResultFound
  <1> QED BY <1>1, <1>2, <1>3, <1>4, <1>5

LEMMA HomeSuits ==
  \A d : AllSuit("Home", HomeScreen(d)) /\ AllSuit("BrowseMap", BrowseMapScreen(d))
  <1> SUFFICES ASSUME NEW d
               PROVE  AllSuit("Home", HomeScreen(d)) /\ AllSuit("BrowseMap", BrowseMapScreen(d))
    OBVIOUS
  <1>1. "Home" \in Crossing /\ Opens("Home", "BookDetail") /\ Opens("BrowseMap", "BookDetail")
    BY DEF Crossing, Opens
  <1>2. AllSuit("Home", HomeRecentlyAdded(d))
    BY <1>1, SuitingStays, SuitingOpen, SuitingCross DEF AllSuit, HomeRecentlyAdded
  <1>3. AllSuit("Home", HomeScreen(d))
    BY <1>1, <1>2, SuitingStays, SuitingCross
       DEF AllSuit, HomeScreen, HomeSearchBar, HomeQuickActions, HomeGettingStarted,
           HomeCommunitySection, When
  <1>4. AllSuit("BrowseMap", BrowseMapScreen(d))
    BY <1>1, SuitingStays, SuitingOpen
       DEF AllSuit, BrowseMapScreen, BrowseMapHeader, BrowseMapBooks, MapSearchBar, MapFilters,
           MapLoadErrorBanner, LocationMismatchBanner, When
  <1> QED BY <1>3, <1>4

LEMMA BookSuits ==
  \A d : /\ AllSuit("MyBooks", MyBooksScreen(d)) /\ AllSuit("BookDetail", BookDetailScreen(d))
         /\ AllSuit("AddBook", AddBookScreen(d)) /\ AllSuit("EditBook", EditBookScreen(d))
         /\ AllSuit("Wishlist", WishlistScreen(d)) /\ AllSuit("BookSearch", BookSearchScreen(d))
  <1> SUFFICES ASSUME NEW d
               PROVE  /\ AllSuit("MyBooks", MyBooksScreen(d))
                      /\ AllSuit("BookDetail", BookDetailScreen(d))
                      /\ AllSuit("AddBook", AddBookScreen(d))
                      /\ AllSuit("EditBook", EditBookScreen(d))
                      /\ AllSuit("Wishlist", WishlistScreen(d))
                      /\ AllSuit("BookSearch", BookSearchScreen(d))
    OBVIOUS
  <1>1. AllSuit("MyBooks", MyBooksScreen(d))
    <2>1. /\ "MyBooks" \in Crossing /\ "MyBooks" \in Gated
          /\ Opens("MyBooks", "BookDetail") /\ Opens("MyBooks", "AddBook")
      BY DEF Crossing, Gated, Opens
    <2>2. AllSuit("MyBooks", AddBookChoice)
      BY <2>1, SuitingOpen, SuitingCross DEF AllSuit, AddBookChoice
    <2>3. AllSuit("MyBooks", AddBookButton)
      BY <2>1, <2>2, SuitingVerified DEF AllSuit, AddBookButton
    <2> QED BY <2>1, <2>2, <2>3, SuitingStays, SuitingOpen
            DEF AllSuit, MyBooksScreen, LongPress, MyBooksHeader, MyBooksRow, When
  <1>2. AllSuit("BookDetail", BookDetailScreen(d))
    <2>1. /\ "BookDetail" \in Gated
          /\ \A x \in {"ExchangeDetail", "UserProfile", "EditBook", "RequestSwap"} :
                Opens("BookDetail", x)
      BY DEF Gated, Opens
    <2>2. AllSuit("BookDetail", RequestCta(d))
      BY <2>1, SuitingStays, SuitingOpen, SuitingVerified
         DEF AllSuit, RequestCta, useWishlistToggle, When
    <2>3. AllSuit("BookDetail", ExchangeAwareCta(d))
      BY <2>1, <2>2, SuitingStays, SuitingOpen DEF AllSuit, ExchangeAwareCta, ActiveExchange
    <2>4. AllSuit("BookDetail", OwnerStrip(d)) /\ AllSuit("BookDetail", ReportSheet(d))
      BY <2>1, SuitingStays, SuitingOpen DEF AllSuit, OwnerStrip, ReportSheet, When
    <2>5. AllSuit("BookDetail", OwnerCta)
      BY <2>1, SuitingStays, SuitingOpen DEF AllSuit, OwnerCta
    <2>6. AllSuit("BookDetail", BookDetailView(d))
      BY <2>3, <2>4, <2>5, SuitingStays DEF AllSuit, BookDetailView
    <2> QED BY <2>6, SuitingStays DEF AllSuit, BookDetailScreen
  <1>3. AllSuit("AddBook", AddBookScreen(d))
    BY SuitingStays, SuitingCalls
       DEF AllSuit, AddBookScreen, AddBookForm, LocationMismatchBanner, When
  <1>4. AllSuit("EditBook", EditBookScreen(d))
    <2>1. "EditBook" \in Closing
      BY DEF Closing
    <2>2. AllSuit("EditBook", EditBookSave(d)) /\ AllSuit("EditBook", EditBookDelete)
      BY <2>1, SuitingCalls DEF AllSuit, EditBookSave, EditBookDelete, When
    <2>3. AllSuit("EditBook", BookPhotoManager(d))
      BY SuitingStays DEF AllSuit, BookPhotoManager, When
    <2> QED BY <2>2, <2>3, SuitingStays DEF AllSuit, EditBookScreen
  <1>5. AllSuit("Wishlist", WishlistScreen(d))
    <2>1. Opens("Wishlist", "BookDetail")
      BY DEF Opens
    <2> QED BY <2>1, SuitingStays, SuitingOpen
            DEF AllSuit, WishlistScreen, WishlistCard, AddWishlistSheet, When
  <1>6. AllSuit("BookSearch", BookSearchScreen(d))
    <2>1. Opens("BookSearch", "ScanResult") /\ Opens("BookSearch", "AddBook")
      BY DEF Opens
    <2> QED BY <2>1, SuitingStays, SuitingOpen DEF AllSuit, BookSearchScreen, BookSearchResult
  <1> QED BY <1>1, <1>2, <1>3, <1>4, <1>5, <1>6

LEMMA ExchangeSuits ==
  \A d : /\ AllSuit("ExchangeDetail", ExchangeDetailScreen(d))
         /\ AllSuit("ExchangeList", ExchangeListScreen(d))
         /\ AllSuit("IncomingRequests", IncomingRequestsScreen(d))
         /\ AllSuit("RequestSwap", RequestSwapScreen(d))
         /\ AllSuit("CounterOffer", CounterOfferScreen(d))
  <1> SUFFICES ASSUME NEW d
               PROVE  /\ AllSuit("ExchangeDetail", ExchangeDetailScreen(d))
                      /\ AllSuit("ExchangeList", ExchangeListScreen(d))
                      /\ AllSuit("IncomingRequests", IncomingRequestsScreen(d))
                      /\ AllSuit("RequestSwap", RequestSwapScreen(d))
                      /\ AllSuit("CounterOffer", CounterOfferScreen(d))
    OBVIOUS
  <1>1. AllSuit("ExchangeDetail", ExchangeDetailScreen(d))
    <2>1. Opens("ExchangeDetail", "Chat") /\ Opens("ExchangeDetail", "CounterOffer")
      BY DEF Opens
    <2>2. ASSUME NEW x PROVE AllSuit("ExchangeDetail", DetailActions(x))
      <3>1. AllSuit("ExchangeDetail", OwnerPending(x))
        BY <2>1, SuitingStays, SuitingOpen
           DEF AllSuit, OwnerPending, ApproveCounter, DeclineReasonSheet, When
      <3>2. AllSuit("ExchangeDetail", RequesterPending(x))
        BY <2>1, SuitingStays, SuitingOpen DEF AllSuit, RequesterPending, ApproveCounter, When
      <3> QED BY <3>1, <3>2, SuitingStays
              DEF AllSuit, DetailActions, Accepted, Active, SwapConfirmed, ReturnRequested,
                  ConditionsReviewModal, When
    <2>3. AllSuit("ExchangeDetail", ExchangeDetailBody(d))
      BY <2>1, <2>2, SuitingStays, SuitingOpen
         DEF AllSuit, ExchangeDetailBody, DetailRating, DetailChatCTA, ReportSheet, When
    <2> QED BY <2>3, SuitingStays DEF AllSuit, ExchangeDetailScreen
  <1>2. AllSuit("ExchangeList", ExchangeListScreen(d))
    <2>1. Opens("ExchangeList", "ExchangeDetail") /\ Opens("ExchangeList", "IncomingRequests")
      BY DEF Opens
    <2> QED BY <2>1, SuitingStays, SuitingOpen DEF AllSuit, ExchangeListScreen, ExchangeCard, When
  <1>3. AllSuit("IncomingRequests", IncomingRequestsScreen(d))
    <2>1. Opens("IncomingRequests", "ExchangeDetail")
      BY DEF Opens
    <2> QED BY <2>1, SuitingStays, SuitingOpen
            DEF AllSuit, IncomingRequestsScreen, IncomingRequest, When
  <1>4. "RequestSwap" \in Closing /\ "CounterOffer" \in Closing
    BY DEF Closing
  <1>5. AllSuit("RequestSwap", RequestSwapScreen(d))
    BY <1>4, SuitingStays, SuitingCalls DEF AllSuit, RequestSwapScreen, RequestSwapFooter, When
  <1>6. AllSuit("CounterOffer", CounterOfferScreen(d))
    BY <1>4, SuitingStays, SuitingCalls DEF AllSuit, CounterOfferScreen, CounterOfferFooter, When
  <1> QED BY <1>1, <1>2, <1>3, <1>5, <1>6

LEMMA AccountSuits ==
  \A d : /\ AllSuit("MyProfile", MyProfileScreen(d)) /\ AllSuit("EditProfile", EditProfileScreen(d))
         /\ AllSuit("UserProfile", UserProfileScreen(d)) /\ AllSuit("Settings", SettingsScreen(d))
         /\ AllSuit("ChangePassword", ChangePasswordScreen(d))
         /\ AllSuit("Appearance", AppearanceScreen) /\ AllSuit("Language", LanguageScreen)
         /\ AllSuit("About", AboutScreen)
  <1> SUFFICES ASSUME NEW d
               PROVE  /\ AllSuit("MyProfile", MyProfileScreen(d))
                      /\ AllSuit("EditProfile", EditProfileScreen(d))
                      /\ AllSuit("UserProfile", UserProfileScreen(d))
                      /\ AllSuit("Settings", SettingsScreen(d))
                      /\ AllSuit("ChangePassword", ChangePasswordScreen(d))
                      /\ AllSuit("Appearance", AppearanceScreen)
                      /\ AllSuit("Language", LanguageScreen) /\ AllSuit("About", AboutScreen)
    OBVIOUS
  <1>1. \A s : Suits(s, useLogout)
    BY SuitingCalls DEF useLogout
  <1>2. AllSuit("MyProfile", MyProfileScreen(d))
    <2>1. \A x \in {"MyBooks", "EditProfile", "Wishlist", "MyReviews", "Settings"} :
             Opens("MyProfile", x)
      BY DEF Opens
    <2> QED BY <1>1, <2>1, SuitingOpen DEF AllSuit, MyProfileScreen
  <1>3. "EditProfile" \in Closing /\ "UserProfile" \in Closing
    BY DEF Closing
  <1>4. AllSuit("EditProfile", EditProfileScreen(d))
    BY <1>3, SuitingCalls DEF AllSuit, EditProfileScreen, EditProfileSubmit, When
  <1>5. AllSuit("UserProfile", UserProfileScreen(d))
    <2>1. Opens("UserProfile", "UserReviews")
      BY DEF Opens
    <2> QED BY <1>3, <2>1, SuitingStays, SuitingOpen, SuitingCalls
            DEF AllSuit, UserProfileScreen, UserProfileActions, ReportSheet, When
  <1>6. AllSuit("Settings", SettingsScreen(d))
    <2>1. \A x \in {"NotificationPreferences", "BlockedUsers", "Appearance", "Language", "About",
                    "ChangePassword"} : Opens("Settings", x)
      BY DEF Opens
    <2>2. AllSuit("Settings", AccountSection \union SecuritySection(d) \union GeneralSection)
      BY <2>1, SuitingOpen DEF AllSuit, AccountSection, SecuritySection, GeneralSection, When
    <2>3. AllSuit("Settings", PrivacySection \union LocationSection \union SettingsFooter)
      BY <1>1, SuitingStays DEF AllSuit, PrivacySection, LocationSection, SettingsFooter
    <2>4. AllSuit("Settings", DeleteAccountSheet(d) \union ManualLocationSheet(d))
      BY SuitingStays, SuitingCalls DEF AllSuit, DeleteAccountSheet, ManualLocationSheet, When
    <2> QED BY <2>2, <2>3, <2>4 DEF AllSuit, SettingsScreen
  <1>7. AllSuit("ChangePassword", ChangePasswordScreen(d))
    BY SuitingCalls DEF AllSuit, ChangePasswordScreen
  <1>8. /\ AllSuit("Appearance", AppearanceScreen) /\ AllSuit("Language", LanguageScreen)
        /\ AllSuit("About", AboutScreen)
    BY SuitingStays DEF AllSuit, AppearanceScreen, LanguageScreen, AboutScreen
  <1> QED BY <1>2, <1>4, <1>5, <1>6, <1>7, <1>8

LEMMA ViewSuits == \A s \in Screens : \A d : AllSuit(s, View(s, d))
  <1> SUFFICES ASSUME NEW s \in Screens, NEW d PROVE AllSuit(s, View(s, d))
    OBVIOUS
  <1>1. CASE s \in {"Home", "BrowseMap"}
    BY <1>1, HomeSuits DEF View
  <1>2. CASE s \in {"MyBooks", "BookDetail", "AddBook", "EditBook", "Wishlist", "BookSearch"}
    BY <1>2, BookSuits DEF View
  <1>3. CASE s \in {"ExchangeDetail", "ExchangeList", "IncomingRequests", "RequestSwap",
                    "CounterOffer"}
    BY <1>3, ExchangeSuits DEF View
  <1>4. CASE s \in {"MyProfile", "EditProfile", "UserProfile", "Settings", "ChangePassword",
                    "Appearance", "Language", "About"}
    BY <1>4, AccountSuits DEF View
  <1>5. CASE s \in AuthStack \union {"Onboarding"}
    BY <1>5, AuthSuits DEF View, AuthStack
  <1>6. CASE s \in {"Chat", "Notifications", "NotificationPreferences", "MyReviews",
                    "UserReviews", "BlockedUsers", "Scanner", "ScanResult"}
    BY <1>6, MessageSuits DEF View
  <1> QED BY <1>1, <1>2, <1>3, <1>4, <1>5, <1>6
          DEF Screens, ScreensOf, Stacks, First, HomeStack, BrowseStack, ScanStack,
              MessagesStack, ProfileStack, AuthStack

LEMMA OfferedSuits == \A s \in Screens : \A c \in Offered[s] : Suits(s, c)
  BY ViewSuits DEF Offered, AllSuit

-----------------------------------------------------------------------------
(* Moves. *)

\* The largest of one index, and of two.
LEMMA MaxOfTwo == Max({1}) = 1 /\ Max({2}) = 2 /\ Max({1, 2}) = 2
  BY DEF Max

LEMMA RunNone ==
  ASSUME NEW n, NEW here PROVE Run(n, here, <<>>) = n
  <1> DEFINE P(g) == g = [s \in SUBSET {} |-> IF s = {} THEN n
                            ELSE LET i == Max(s) IN Go(g[s \ {i}], here, <<>>[i])]
             iter == CHOOSE g : P(g)
  <1>1. Run(n, here, <<>>) = iter[{}]
    BY DEF Run, FoldLeft, MapThenFoldSet
  <1>2. P([s \in SUBSET {} |-> n])
    OBVIOUS
  <1>3. P(iter)
    BY <1>2
  <1> HIDE DEF iter
  <1> QED BY <1>1, <1>3

LEMMA RunOne ==
  ASSUME NEW n, NEW here, NEW m PROVE Run(n, here, <<m>>) = Go(n, here, m)
  <1> DEFINE P(g) == g = [s \in SUBSET {1} |-> IF s = {} THEN n
                            ELSE LET i == Max(s) IN Go(g[s \ {i}], here, <<m>>[i])]
             iter == CHOOSE g : P(g)
             h == [s \in SUBSET {1} |-> IF s = {} THEN n ELSE Go(n, here, m)]
  <1>1. Run(n, here, <<m>>) = iter[{1}]
    BY DEF Run, FoldLeft, MapThenFoldSet
  <1>2. P(h)
    <2>1. SUBSET {1} = {{}, {1}}
      OBVIOUS
    <2>2. h[{}] = n
      OBVIOUS
    <2>3. {1} \ {Max({1})} = {} /\ <<m>>[Max({1})] = m
      BY MaxOfTwo
    <2> QED BY <2>1, <2>2, <2>3
  <1>3. P(iter)
    BY <1>2
  <1> HIDE DEF iter
  <1>4. iter[{}] = n
    BY <1>3
  <1>5. iter[{1}] = Go(iter[{1} \ {Max({1})}], here, <<m>>[Max({1})])
    BY <1>3
  <1> QED BY <1>1, <1>4, <1>5, MaxOfTwo

LEMMA RunTwo ==
  ASSUME NEW n, NEW here, NEW m, NEW k
  PROVE  Run(n, here, <<m, k>>) = Go(Go(n, here, m), here, k)
  <1> DEFINE P(g) == g = [s \in SUBSET {1, 2} |-> IF s = {} THEN n
                            ELSE LET i == Max(s) IN Go(g[s \ {i}], here, <<m, k>>[i])]
             iter == CHOOSE g : P(g)
             one == Go(n, here, m)
             h == [s \in SUBSET {1, 2} |->
                     IF s = {} THEN n ELSE IF s = {1} THEN one
                     ELSE IF s = {2} THEN Go(n, here, k) ELSE Go(one, here, k)]
  <1>1. Run(n, here, <<m, k>>) = iter[{1, 2}]
    BY DEF Run, FoldLeft, MapThenFoldSet
  <1>2. P(h)
    <2>1. SUBSET {1, 2} = {{}, {1}, {2}, {1, 2}}
      OBVIOUS
    <2>2. h[{}] = n /\ h[{1}] = one
      OBVIOUS
    <2>3. /\ {1} \ {Max({1})} = {} /\ <<m, k>>[Max({1})] = m
          /\ {2} \ {Max({2})} = {} /\ <<m, k>>[Max({2})] = k
          /\ {1, 2} \ {Max({1, 2})} = {1} /\ <<m, k>>[Max({1, 2})] = k
      BY MaxOfTwo
    <2> DEFINE then(s) == IF s = {} THEN n ELSE Go(h[s \ {Max(s)}], here, <<m, k>>[Max(s)])
    <2>4. h[{}] = then({}) /\ h[{1}] = then({1})
      BY <2>2, <2>3
    <2>5. h[{2}] = then({2})
      <3>1. h[{2}] = Go(n, here, k)
        BY {2} # {} /\ {2} # {1}
      <3> QED BY <3>1, <2>2, <2>3
    <2>6. h[{1, 2}] = then({1, 2})
      <3>1. h[{1, 2}] = Go(one, here, k)
        BY {1, 2} # {} /\ {1, 2} # {1} /\ {1, 2} # {2}
      <3> QED BY <3>1, <2>2, <2>3
    <2>7. \A s \in SUBSET {1, 2} : h[s] = then(s)
      <3> HIDE DEF h, then
      <3> QED BY <2>1, <2>4, <2>5, <2>6, Zenon
    <2> QED BY <2>7
  <1>3. P(iter)
    BY <1>2
  <1> HIDE DEF iter
  <1>4. iter[{}] = n
    BY <1>3
  <1>5. iter[{1}] = Go(iter[{1} \ {Max({1})}], here, <<m, k>>[Max({1})])
    BY <1>3
  <1>6. iter[{1, 2}] = Go(iter[{1, 2} \ {Max({1, 2})}], here, <<m, k>>[Max({1, 2})])
    BY <1>3
  <1>7. {1} \ {1} = {} /\ {1, 2} \ {2} = {1}
    OBVIOUS
  <1> QED BY <1>1, <1>4, <1>5, <1>6, <1>7, MaxOfTwo

\* The stacks and their screens.
LEMMA StackFacts ==
  /\ MainTabs \subseteq Stacks /\ "HomeTab" \in MainTabs /\ "ProfileTab" \in MainTabs
  /\ "Auth" \in Stacks \ MainTabs /\ "Onboarding" \in Stacks \ MainTabs
  /\ "here" \notin Stacks
  /\ \A t \in Stacks : First[t] \in ScreensOf[t] /\ ScreensOf[t] \subseteq Screens
  /\ First["HomeTab"] = "Home"
  /\ Screens \intersect {"back", "top", "root"} = {}
  <1>1. \A t \in Stacks : ScreensOf[t] \subseteq Screens
    BY DEF Screens
  <1>2. \A t \in Stacks : First[t] \in ScreensOf[t]
    BY DEF Stacks, First, ScreensOf, HomeStack, BrowseStack, ScanStack, MessagesStack,
           ProfileStack, AuthStack
  <1>3. Screens \intersect {"back", "top", "root"} = {}
    BY DEF Screens, Stacks, First, ScreensOf, HomeStack, BrowseStack, ScanStack, MessagesStack,
           ProfileStack, AuthStack
  <1> QED BY <1>1, <1>2, <1>3 DEF MainTabs, Stacks, First

\* What each kind of move does.
LEMMA GoKinds ==
  ASSUME NEW n, NEW here
  PROVE  /\ Go(n, here, GoBack) = Pop(n, here)
         /\ Go(n, here, PopToTop) = Forget([n EXCEPT !.stack[here] = <<Head(@)>>])
         /\ \A t \in Stacks :
               Go(n, here, Root(t)) =
                  [n EXCEPT !.tab = t, !.stack[t] = IF @ = <<>> THEN <<First[t]>> ELSE @]
         /\ \A x \in Screens :
               Go(n, here, Here(x)) = IF x \in ScreensOf[here] THEN Push(n, here, x) ELSE n
         /\ \A t \in Stacks, x \in Screens :
               Go(n, here, To(t, x)) = Push([n EXCEPT !.tab = t], t, x)
  <1>1. Go(n, here, GoBack) = Pop(n, here)
    BY DEF Go, GoBack, Here, To
  <1>2. Go(n, here, PopToTop) = Forget([n EXCEPT !.stack[here] = <<Head(@)>>])
    BY DEF Go, PopToTop, Here, To
  <1>3. ASSUME NEW t \in Stacks
        PROVE  Go(n, here, Root(t)) =
                  [n EXCEPT !.tab = t, !.stack[t] = IF @ = <<>> THEN <<First[t]>> ELSE @]
    BY StackFacts DEF Go, Root, To
  <1>4. ASSUME NEW x \in Screens
        PROVE  Go(n, here, Here(x)) = IF x \in ScreensOf[here] THEN Push(n, here, x) ELSE n
    BY StackFacts DEF Go, Here, To
  <1>5. ASSUME NEW t \in Stacks, NEW x \in Screens
        PROVE  Go(n, here, To(t, x)) = Push([n EXCEPT !.tab = t], t, x)
    BY StackFacts DEF Go, To
  <1> QED BY <1>1, <1>2, <1>3, <1>4, <1>5

\* What a screen opens in its own stack is a screen there, but for the known dead links.
LEMMA OpensKnown ==
  \A t \in Stacks : \A s \in ScreensOf[t] : \A x :
     Opens(s, x) => /\ x \in Screens
                    /\ x \notin ScreensOf[t] => <<s, x>> \in KnownDeadLinks
  <1> SUFFICES ASSUME NEW t \in Stacks, NEW s \in ScreensOf[t], NEW x, Opens(s, x)
               PROVE  x \in Screens /\ (x \notin ScreensOf[t] => <<s, x>> \in KnownDeadLinks)
    OBVIOUS
  <1>1. x \in Screens
    BY DEF Opens, Screens, Stacks, First, ScreensOf, HomeStack, BrowseStack, ScanStack,
           MessagesStack, ProfileStack, AuthStack
  <1>2. CASE t = "ProfileTab"
    BY <1>1, <1>2 DEF Opens, KnownDeadLinks, ScreensOf, ProfileStack
  <1>3. CASE t = "HomeTab"
    BY <1>1, <1>3 DEF Opens, KnownDeadLinks, ScreensOf, HomeStack
  <1>4. CASE t = "BrowseTab"
    BY <1>1, <1>4 DEF Opens, KnownDeadLinks, ScreensOf, BrowseStack
  <1>5. CASE t \in {"ScanTab", "MessagesTab"}
    BY <1>1, <1>5 DEF Opens, ScreensOf, ScanStack, MessagesStack
  <1>6. CASE t \in {"Auth", "Onboarding"}
    BY <1>1, <1>6 DEF Opens, ScreensOf, AuthStack
  <1> QED BY <1>1, <1>2, <1>3, <1>4, <1>5, <1>6 DEF Stacks, First

-----------------------------------------------------------------------------
(* The navigator, step by step. *)

\* x may open over s, in stack t: a screen that closes is only covered from elsewhere.
Covers(t, s, x) == s \in Closing \ {"UserProfile"} => To(t, x) \in FromElsewhere

\* A call under way is one of a screen; while it has a place, the screen is there, and
\* only what may cover it is above it. A call without a place is one that is kept.
Waits(stack, call) ==
    /\ call.tab \in Stacks /\ Calls(call.control)
    /\ call.place = 0 => call.control.kept
    /\ \E s \in ScreensOf[call.tab] :
          /\ call.control \in Offered[s]
          /\ call.place > 0 =>
                /\ call.place <= Len(stack[call.tab])
                /\ stack[call.tab][call.place] = s
                /\ call.place < Len(stack[call.tab]) =>
                      Covers(call.tab, s, stack[call.tab][call.place + 1])

Pending == [control : (UNION {Offered[s] : s \in Screens}) \union {Narrow},
            tab : Stacks \union {"none"}, place : Nat]

Navigators == [tab : Stacks, stack : [Stacks -> Seq(Screens)], calls : [Slots -> Pending]]

\* `in` tells whether the tabs are mounted; then nothing else is.
Shape(n, in) ==
    /\ n \in Navigators
    /\ n.tab \in MainTabs <=> in
    /\ n.stack[n.tab] # <<>>
    /\ \A t \in Stacks : /\ n.stack[t] \in Seq(ScreensOf[t])
                         /\ n.stack[t] # <<>> => (t \in MainTabs <=> in)
    /\ \A i \in Slots : n.calls[i] # NoCall => Waits(n.stack, n.calls[i])

\* The bottom of a stack stays; a stack is opened at its first screen, or as told by `at`.
Bottoms(n, then, at) ==
    \A t \in Stacks :
        IF n.stack[t] = <<>>
        THEN then.stack[t] # <<>> =>
                then.stack[t][1] = First[t] \/ <<t, then.stack[t][1]>> \in at
        ELSE then.stack[t] # <<>> /\ then.stack[t][1] = n.stack[t][1]

LEMMA OneScreen ==
  \A S : \A x \in S : <<x>> \in Seq(S) /\ <<x>> # <<>> /\ <<x>>[1] = x /\ Len(<<x>>) = 1
  OBVIOUS

LEMMA Appended ==
  \A S, x : \A s \in Seq(S) :
     /\ Len(s) \in Nat /\ Append(s, x) # <<>> /\ Len(Append(s, x)) = Len(s) + 1
     /\ \A i \in 1..Len(s) : Append(s, x)[i] = s[i]
     /\ Append(s, x)[Len(s) + 1] = x
     /\ x \in S => Append(s, x) \in Seq(S)
  OBVIOUS

LEMMA TopIsShown ==
  ASSUME NEW n, NEW in \in BOOLEAN, Shape(n, in), NEW t \in Stacks, n.stack[t] # <<>>
  PROVE  /\ Len(n.stack[t]) \in Nat \ {0}
         /\ Top(n, t) \in ScreensOf[t] /\ Top(n, t) \in Screens
         /\ n.stack[t][1] \in ScreensOf[t]
  <1>1. n.stack[t] \in Seq(ScreensOf[t])
    BY DEF Shape
  <1>2. Len(n.stack[t]) \in Nat \ {0}
    BY <1>1, EmptySeq
  <1>3. n.stack[t][Len(n.stack[t])] \in ScreensOf[t] /\ n.stack[t][1] \in ScreensOf[t]
    BY <1>1, <1>2, ElementOfSeq
  <1> QED BY <1>2, <1>3, StackFacts DEF Top

LEMMA Pushing ==
  ASSUME NEW n, NEW in \in BOOLEAN, Shape(n, in), NEW t \in Stacks, t \in MainTabs <=> in,
         NEW x \in ScreensOf[t], NEW u \in {n.tab, t},
         n.stack[t] # <<>> => Covers(t, Top(n, t), x)
  PROVE  /\ Shape(Push([n EXCEPT !.tab = u], t, x), in)
         /\ Bottoms(n, Push([n EXCEPT !.tab = u], t, x), {<<t, x>>})
  <1> DEFINE at == [n EXCEPT !.tab = u]
             then == Push(at, t, x)
  <1>1. n \in Navigators /\ n.stack[t] \in Seq(ScreensOf[t]) /\ n.tab \in Stacks /\ x \in Screens
    BY StackFacts DEF Shape, Navigators
  <1>2. /\ at \in Navigators /\ at.tab = u /\ at.stack = n.stack /\ at.calls = n.calls
        /\ Top(at, t) = Top(n, t)
    BY <1>1 DEF Navigators, Top
  <1>3. CASE n.stack[t] # <<>> /\ Top(n, t) = x
    <2>1. then = at
      BY <1>2, <1>3 DEF Push
    <2>2. Shape(at, in)
      BY <1>2, <1>3 DEF Shape
    <2>3. Bottoms(n, at, {<<t, x>>})
      BY <1>2 DEF Bottoms
    <2> QED BY <2>1, <2>2, <2>3
  <1>4. CASE ~(n.stack[t] # <<>> /\ Top(n, t) = x)
    <2> DEFINE q == Append(n.stack[t], x)
    <2>1. then = [at EXCEPT !.stack[t] = q]
      BY <1>2, <1>4 DEF Push
    <2>2. /\ q \in Seq(ScreensOf[t]) /\ q \in Seq(Screens) /\ q # <<>>
          /\ Len(q) = Len(n.stack[t]) + 1 /\ Len(n.stack[t]) \in Nat
          /\ \A i \in 1..Len(n.stack[t]) : q[i] = n.stack[t][i]
          /\ q[Len(n.stack[t]) + 1] = x
      <3>1. n.stack[t] \in Seq(Screens)
        BY <1>1 DEF Navigators
      <3>2. q \in Seq(Screens)
        BY <1>1, <3>1, Appended
      <3>3. q \in Seq(ScreensOf[t])
        BY <1>1, Appended
      <3>4. /\ q # <<>> /\ Len(q) = Len(n.stack[t]) + 1 /\ Len(n.stack[t]) \in Nat
            /\ \A i \in 1..Len(n.stack[t]) : q[i] = n.stack[t][i]
            /\ q[Len(n.stack[t]) + 1] = x
        BY <1>1, Appended
      <3> QED BY <3>2, <3>3, <3>4
    <2>3. /\ then \in Navigators /\ then.tab = u /\ then.calls = n.calls
          /\ then.stack = [n.stack EXCEPT ![t] = q]
      <3> HIDE DEF q, at, then
      <3>1. q \in Seq(Screens)
        BY <2>2
      <3> QED BY <1>2, <2>1, <3>1 DEF Navigators
    <2>4. then.stack[t] = q /\ \A v \in Stacks \ {t} : then.stack[v] = n.stack[v]
      BY <1>1, <2>3 DEF Navigators
    <2>5. ASSUME NEW i \in Slots, n.calls[i] # NoCall PROVE Waits(then.stack, n.calls[i])
      <3> DEFINE call == n.calls[i]
      <3>1. Waits(n.stack, call) /\ call.place \in Nat
        BY <1>1, <2>5 DEF Shape, Navigators, Pending
      <3>2. CASE call.tab # t
        BY <2>4, <3>1, <3>2 DEF Waits
      <3>3. CASE call.tab = t
        <4>1. PICK s \in ScreensOf[t] :
                 /\ call.control \in Offered[s]
                 /\ call.place > 0 =>
                       /\ call.place <= Len(n.stack[t]) /\ n.stack[t][call.place] = s
                       /\ call.place < Len(n.stack[t]) =>
                             Covers(t, s, n.stack[t][call.place + 1])
          BY <3>1, <3>3 DEF Waits
        <4>2. ASSUME call.place > 0
              PROVE  /\ call.place <= Len(q) /\ q[call.place] = s
                     /\ call.place < Len(q) => Covers(t, s, q[call.place + 1])
          <5>1. call.place \in 1..Len(n.stack[t])
            BY <3>1, <4>1, <4>2
          <5> HIDE DEF q, at, then, call
          <5>2. CASE call.place < Len(n.stack[t])
            <6>1. call.place + 1 \in 1..Len(n.stack[t])
              BY <2>2, <5>1, <5>2
            <6> QED BY <2>2, <4>1, <4>2, <5>1, <5>2, <6>1
          <5>3. CASE call.place = Len(n.stack[t])
            <6>1. n.stack[t] # <<>> /\ Top(n, t) = s
              BY <4>1, <4>2, <5>1, <5>3, EmptySeq DEF Top
            <6>2. Covers(t, s, x)
              BY <6>1
            <6>3. /\ call.place <= Len(q) /\ q[call.place] = s
                  /\ call.place + 1 = Len(n.stack[t]) + 1
              BY <2>2, <4>1, <4>2, <5>1, <5>3
            <6>4. q[call.place + 1] = x
              BY <2>2, <6>3
            <6> QED BY <6>2, <6>3, <6>4
          <5>4. call.place < Len(n.stack[t]) \/ call.place = Len(n.stack[t])
            <6>1. Len(n.stack[t]) \in Nat
              BY <2>2
            <6> QED BY <5>1, <6>1
          <5> QED BY <5>2, <5>3, <5>4
        <4> QED BY <2>4, <3>1, <3>3, <4>1, <4>2 DEF Waits
      <3> QED BY <3>2, <3>3
    <2>6. Shape(then, in)
      <3>1. then.stack[u] # <<>> /\ (u \in MainTabs <=> in)
        BY <2>2, <2>4, <1>1 DEF Shape
      <3>2. \A v \in Stacks : /\ then.stack[v] \in Seq(ScreensOf[v])
                              /\ then.stack[v] # <<>> => (v \in MainTabs <=> in)
        BY <2>2, <2>4 DEF Shape
      <3> QED BY <2>3, <2>5, <3>1, <3>2 DEF Shape
    <2>7. Bottoms(n, then, {<<t, x>>})
      <3>1. n.stack[t] = <<>> => q[1] = x
        BY <2>2, EmptySeq
      <3>2. n.stack[t] # <<>> => q[1] = n.stack[t][1]
        BY <1>1, <2>2, EmptySeq
      <3> QED BY <2>2, <2>4, <3>1, <3>2 DEF Bottoms
    <2> QED BY <2>6, <2>7
  <1> QED BY <1>3, <1>4

LEMMA Rooting ==
  ASSUME NEW n, Shape(n, TRUE), NEW t \in MainTabs
  PROVE  /\ Shape([n EXCEPT !.tab = t, !.stack[t] = IF @ = <<>> THEN <<First[t]>> ELSE @], TRUE)
         /\ Bottoms(n, [n EXCEPT !.tab = t, !.stack[t] = IF @ = <<>> THEN <<First[t]>> ELSE @], {})
  <1> DEFINE q == IF n.stack[t] = <<>> THEN <<First[t]>> ELSE n.stack[t]
             then == [n EXCEPT !.tab = t, !.stack[t] = IF @ = <<>> THEN <<First[t]>> ELSE @]
  <1>1. n \in Navigators /\ t \in Stacks /\ First[t] \in ScreensOf[t] /\ First[t] \in Screens
    BY StackFacts DEF Shape
  <1>2. q \in Seq(ScreensOf[t]) /\ q \in Seq(Screens) /\ q # <<>>
    <2>1. n.stack[t] \in Seq(ScreensOf[t]) /\ n.stack[t] \in Seq(Screens)
      BY <1>1 DEF Shape, Navigators
    <2>2. <<First[t]>> \in Seq(ScreensOf[t]) /\ <<First[t]>> \in Seq(Screens) /\ <<First[t]>> # <<>>
      BY <1>1, OneScreen
    <2> QED BY <2>1, <2>2
  <1>3. /\ then \in Navigators /\ then.tab = t /\ then.calls = n.calls
        /\ then.stack = [n.stack EXCEPT ![t] = q]
    BY <1>1, <1>2 DEF Navigators
  <1>4. then.stack[t] = q /\ \A v \in Stacks \ {t} : then.stack[v] = n.stack[v]
    BY <1>1, <1>3 DEF Navigators
  <1>5. ASSUME NEW i \in Slots, n.calls[i] # NoCall PROVE Waits(then.stack, n.calls[i])
    <2>1. Waits(n.stack, n.calls[i]) /\ n.calls[i].place \in Nat
      BY <1>1, <1>5 DEF Shape, Navigators, Pending
    <2>2. CASE n.calls[i].tab = t /\ n.stack[t] = <<>>
      <3>1. n.calls[i].place = 0
        BY <2>1, <2>2, EmptySeq DEF Waits
      <3> QED BY <2>1, <3>1 DEF Waits
    <2>3. CASE ~(n.calls[i].tab = t /\ n.stack[t] = <<>>)
      <3>1. n.calls[i].tab \in Stacks
        BY <2>1 DEF Waits
      <3>2. then.stack[n.calls[i].tab] = n.stack[n.calls[i].tab]
        BY <1>4, <2>3, <3>1
      <3> QED BY <2>1, <3>2 DEF Waits
    <2> QED BY <2>2, <2>3
  <1>6. Shape(then, TRUE)
    <2>1. \A v \in Stacks : /\ then.stack[v] \in Seq(ScreensOf[v])
                            /\ then.stack[v] # <<>> => v \in MainTabs
      BY <1>2, <1>4 DEF Shape
    <2> QED BY <1>2, <1>3, <1>4, <1>5, <2>1 DEF Shape
  <1>7. Bottoms(n, then, {})
    BY <1>2, <1>4 DEF Bottoms
  <1> QED BY <1>6, <1>7

LEMMA Cut ==
  \A S : \A s \in Seq(S) : \A k \in 1..Len(s) :
     /\ SubSeq(s, 1, k) \in Seq(S) /\ Len(SubSeq(s, 1, k)) = k /\ SubSeq(s, 1, k) # <<>>
     /\ \A i \in 1..k : SubSeq(s, 1, k)[i] = s[i]
  OBVIOUS

\* A stack cut down to its first k screens.
Shortened(n, t, k) == Forget([n EXCEPT !.stack[t] = SubSeq(n.stack[t], 1, k)])

LEMMA Shortening ==
  ASSUME NEW n, NEW in \in BOOLEAN, Shape(n, in), NEW t \in Stacks, NEW k \in 1..Len(n.stack[t])
  PROVE  /\ Shape(Shortened(n, t, k), in) /\ Bottoms(n, Shortened(n, t, k), {})
         /\ Shortened(n, t, k).stack[t] = SubSeq(n.stack[t], 1, k)
  <1> DEFINE q == SubSeq(n.stack[t], 1, k)
             at == [n EXCEPT !.stack[t] = q]
             then == Forget(at)
  <1> HIDE DEF q
  <1>1. n \in Navigators /\ n.stack[t] \in Seq(ScreensOf[t]) /\ n.stack[t] \in Seq(Screens)
    BY DEF Shape, Navigators
  <1>0. q = SubSeq(n.stack[t], 1, k)
    BY DEF q
  <1>2. /\ k \in Nat /\ q \in Seq(ScreensOf[t]) /\ q \in Seq(Screens) /\ Len(q) = k /\ q # <<>>
        /\ \A i \in 1..k : q[i] = n.stack[t][i]
    <2>1. q \in Seq(ScreensOf[t])
      BY <1>0, <1>1, Cut
    <2>2. q \in Seq(Screens)
      BY <1>0, <1>1, Cut
    <2>3. /\ Len(q) = k /\ q # <<>> /\ \A i \in 1..k : q[i] = n.stack[t][i]
      BY <1>0, <1>1, Cut
    <2>4. k \in Nat
      BY <1>1, LenProperties
    <2> QED BY <2>1, <2>2, <2>3, <2>4
  <1>3. /\ at \in Navigators /\ at.tab = n.tab /\ at.calls = n.calls
        /\ at.stack = [n.stack EXCEPT ![t] = q]
    BY <1>1, <1>2 DEF Navigators
  <1>4. at.stack[t] = q /\ \A v \in Stacks \ {t} : at.stack[v] = n.stack[v]
    BY <1>1, <1>3 DEF Navigators
  <1>5. then = [at EXCEPT !.calls = [i \in Slots |-> Placed(at, n.calls[i])]]
    BY <1>3 DEF Forget
  <1>6. ASSUME NEW i \in Slots
        PROVE  /\ Placed(at, n.calls[i]) \in Pending
               /\ Placed(at, n.calls[i]) # NoCall => Waits(at.stack, Placed(at, n.calls[i]))
    <2> DEFINE call == n.calls[i]
    <2>1. call \in Pending /\ call.place \in Nat
      BY <1>1 DEF Navigators, Pending
    <2>2. NoCall \in Pending
      BY DEF NoCall, Pending
    <2>3. CASE call = NoCall
      BY <2>2, <2>3 DEF Placed
    <2>4. CASE call # NoCall /\ call.place > Len(at.stack[call.tab])
      <3>1. Placed(at, call) = Orphaned(call) /\ Waits(n.stack, call)
        BY <2>4 DEF Placed, Shape
      <3>2. CASE ~call.control.kept
        BY <2>2, <3>1, <3>2 DEF Orphaned
      <3>3. CASE call.control.kept
        <4>1. /\ Orphaned(call) = [call EXCEPT !.place = 0] /\ Orphaned(call) \in Pending
              /\ Orphaned(call).control = call.control /\ Orphaned(call).tab = call.tab
              /\ Orphaned(call).place = 0
          BY <2>1, <3>3 DEF Orphaned, Pending
        <4>2. Waits(at.stack, Orphaned(call))
          <5>1. PICK s \in ScreensOf[call.tab] : call.control \in Offered[s]
            BY <3>1 DEF Waits
          <5>2. call.tab \in Stacks /\ Calls(call.control)
            BY <3>1 DEF Waits
          <5> QED BY <3>3, <4>1, <5>1, <5>2 DEF Waits
        <4> QED BY <3>1, <4>1, <4>2
      <3> QED BY <3>2, <3>3
    <2>5. CASE call # NoCall /\ ~(call.place > Len(at.stack[call.tab]))
      <3>1. Placed(at, call) = call /\ Waits(n.stack, call)
        BY <2>5 DEF Placed, Shape
      <3>2. CASE call.tab # t
        BY <1>4, <2>1, <3>1, <3>2 DEF Waits
      <3>3. CASE call.tab = t
        <4>1. call.place <= k
          BY <1>2, <1>4, <2>1, <2>5, <3>3
        <4>2. PICK s \in ScreensOf[t] :
                 /\ call.control \in Offered[s]
                 /\ call.place > 0 =>
                       /\ call.place <= Len(n.stack[t]) /\ n.stack[t][call.place] = s
                       /\ call.place < Len(n.stack[t]) =>
                             Covers(t, s, n.stack[t][call.place + 1])
          BY <3>1, <3>3 DEF Waits
        <4>3. ASSUME call.place > 0
              PROVE  /\ call.place <= Len(q) /\ q[call.place] = s
                     /\ call.place < Len(q) => Covers(t, s, q[call.place + 1])
          <5>1. call.place \in 1..k
            BY <1>2, <2>1, <4>1, <4>3
          <5>2. ASSUME call.place < k PROVE Covers(t, s, q[call.place + 1])
            <6>1. call.place + 1 \in 1..k /\ call.place < Len(n.stack[t])
              BY <1>1, <1>2, <2>1, <5>2, LenProperties
            <6>2. q[call.place + 1] = n.stack[t][call.place + 1]
              BY <1>2, <6>1
            <6> QED BY <4>2, <4>3, <6>1, <6>2
          <5>3. call.place <= k /\ q[call.place] = s
            BY <1>2, <4>2, <4>3, <5>1
          <5> QED BY <1>2, <5>2, <5>3
        <4> QED BY <1>4, <2>1, <3>1, <3>3, <4>2, <4>3 DEF Waits
      <3> QED BY <2>1, <3>1, <3>2, <3>3
    <2> QED BY <2>3, <2>4, <2>5
  <1>7. /\ then \in Navigators /\ then.tab = n.tab /\ then.stack = at.stack
        /\ \A i \in Slots : then.calls[i] = Placed(at, n.calls[i])
    <2> HIDE DEF at, then
    <2> DEFINE c == [i \in Slots |-> Placed(at, n.calls[i])]
    <2>1. c \in [Slots -> Pending]
      BY <1>6
    <2>2. \A i \in Slots : c[i] = Placed(at, n.calls[i])
      OBVIOUS
    <2>3. then = [at EXCEPT !.calls = c]
      BY <1>5
    <2> HIDE DEF c
    <2> QED BY <1>3, <2>1, <2>2, <2>3 DEF Navigators
  <1>8. Shape(then, in)
    <2>1. then.stack[then.tab] # <<>>
      BY <1>2, <1>4, <1>7 DEF Shape, Navigators
    <2>2. \A v \in Stacks : /\ then.stack[v] \in Seq(ScreensOf[v])
                            /\ then.stack[v] # <<>> => (v \in MainTabs <=> in)
      <3>1. n.stack[t] # <<>>
        BY <1>1, <1>2, EmptySeq
      <3> QED BY <1>2, <1>4, <1>7, <3>1 DEF Shape
    <2>3. n.tab \in MainTabs <=> in
      BY DEF Shape
    <2> HIDE DEF at, then
    <2> QED BY <1>6, <1>7, <2>1, <2>2, <2>3 DEF Shape
  <1>9. Bottoms(n, then, {})
    <2>1. n.stack[t] # <<>> /\ q[1] = n.stack[t][1]
      BY <1>1, <1>2, EmptySeq
    <2> HIDE DEF at, then
    <2> QED BY <1>2, <1>4, <1>7, <2>1 DEF Bottoms
  <1>10. then = Shortened(n, t, k)
    BY DEF Shortened, q
  <1> HIDE DEF then, at
  <1> QED BY <1>0, <1>4, <1>7, <1>8, <1>9, <1>10

LEMMA BottomsStay == ASSUME NEW n PROVE Bottoms(n, n, {})
  BY DEF Bottoms

LEMMA Popping ==
  ASSUME NEW n, NEW in \in BOOLEAN, Shape(n, in), NEW t \in Stacks, n.stack[t] # <<>>
  PROVE  Shape(Pop(n, t), in) /\ Bottoms(n, Pop(n, t), {})
  <1>1. Len(n.stack[t]) \in Nat \ {0} /\ n \in Navigators
    BY TopIsShown DEF Shape
  <1>2. CASE Len(n.stack[t]) > 1
    <2>1. Pop(n, t) = Shortened(n, t, Len(n.stack[t]) - 1)
      BY <1>1, <1>2 DEF Pop, Front, Shortened, Navigators
    <2>2. Len(n.stack[t]) - 1 \in 1..Len(n.stack[t])
      BY <1>1, <1>2
    <2> QED BY <2>1, <2>2, Shortening
  <1>3. CASE ~(Len(n.stack[t]) > 1) /\ t \in MainTabs /\ n.tab # "HomeTab"
    <2>1. in = TRUE \/ (in <=> TRUE)
      BY <1>3 DEF Shape
    <2>2. Shape(n, TRUE)
      BY <2>1 DEF Shape
    <2>3. Pop(n, t) = [n EXCEPT !.tab = "HomeTab",
                                !.stack["HomeTab"] = IF @ = <<>> THEN <<First["HomeTab"]>> ELSE @]
      BY <1>3, StackFacts DEF Pop
    <2>4. "HomeTab" \in MainTabs
      BY StackFacts
    <2> DEFINE then(v) == [n EXCEPT !.tab = v, !.stack[v] = IF @ = <<>> THEN <<First[v]>> ELSE @]
    <2>5. Shape(then("HomeTab"), TRUE) /\ Bottoms(n, then("HomeTab"), {})
      <3>1. \A v \in MainTabs : Shape(then(v), TRUE) /\ Bottoms(n, then(v), {})
        BY <2>2, Rooting
      <3> HIDE DEF then
      <3> QED BY <2>4, <3>1
    <2> QED BY <2>1, <2>3, <2>5 DEF Shape
  <1>4. CASE ~(Len(n.stack[t]) > 1) /\ ~(t \in MainTabs /\ n.tab # "HomeTab")
    <2>1. Pop(n, t) = n
      BY <1>4 DEF Pop
    <2> QED BY <2>1, BottomsStay
  <1> QED BY <1>2, <1>3, <1>4

LEMMA BottomOnly ==
  ASSUME NEW S, NEW s \in Seq(S), Len(s) \in Nat \ {0}
  PROVE  SubSeq(s, 1, 1) = <<Head(s)>> /\ Head(s) = s[1]
  <1>1. Head(s) = s[1] /\ s[1] \in S
    BY EmptySeq, ElementOfSeq
  <1>2. /\ SubSeq(s, 1, 1) \in Seq(S) /\ Len(SubSeq(s, 1, 1)) = 1 /\ SubSeq(s, 1, 1)[1] = s[1]
    BY Cut
  <1>3. <<s[1]>> \in Seq(S) /\ Len(<<s[1]>>) = 1 /\ <<s[1]>>[1] = s[1]
    BY <1>1, OneScreen
  <1>4. SubSeq(s, 1, 1) = <<s[1]>>
    <2> DEFINE u == SubSeq(s, 1, 1)
               v == <<s[1]>>
    <2>1. u \in Seq(S) /\ v \in Seq(S) /\ Len(u) = 1 /\ Len(v) = 1 /\ u[1] = v[1]
      BY <1>2, <1>3
    <2> HIDE DEF u, v
    <2>2. \A i \in 1..Len(u) : u[i] = v[i]
      BY <2>1
    <2>3. u = v
      BY <2>1, <2>2, SeqEqual
    <2> QED BY <2>3 DEF u, v
  <1> QED BY <1>1, <1>4

LEMMA Topping ==
  ASSUME NEW n, NEW in \in BOOLEAN, Shape(n, in), NEW t \in Stacks, n.stack[t] # <<>>
  PROVE  /\ Shape(Go(n, t, PopToTop), in) /\ Bottoms(n, Go(n, t, PopToTop), {})
         /\ Go(n, t, PopToTop).stack[t] = <<n.stack[t][1]>>
  <1>1. Len(n.stack[t]) \in Nat \ {0} /\ n.stack[t] \in Seq(ScreensOf[t]) /\ n \in Navigators
    BY TopIsShown DEF Shape
  <1>2. SubSeq(n.stack[t], 1, 1) = <<Head(n.stack[t])>> /\ Head(n.stack[t]) = n.stack[t][1]
    BY <1>1, BottomOnly
  <1>3. Go(n, t, PopToTop) = Shortened(n, t, 1)
    BY <1>2 DEF Go, PopToTop, Here, To, Shortened
  <1>4. 1 \in 1..Len(n.stack[t])
    BY <1>1
  <1> QED BY <1>2, <1>3, <1>4, Shortening

\* A move that the navigator can make from `here` and keep its shape.
Fits(n, here, in, m) ==
    \/ m = GoBack \/ m = PopToTop
    \/ in /\ \E t \in MainTabs : m = Root(t)
    \/ \E x \in Screens : m = Here(x) /\ Covers(here, Top(n, here), x)
    \/ \E t \in Stacks : \E x \in ScreensOf[t] :
          m = To(t, x) /\ (t \in MainTabs <=> in) /\ m \in FromElsewhere

\* Only a move to a screen of another tab opens a stack above its first screen.
Opened(m) == {p \in Stacks \X Screens : m = To(p[1], p[2])}

LEMMA Going ==
  ASSUME NEW n, NEW in \in BOOLEAN, Shape(n, in), NEW here \in Stacks, n.stack[here] # <<>>,
         NEW m, Fits(n, here, in, m)
  PROVE  Shape(Go(n, here, m), in) /\ Bottoms(n, Go(n, here, m), Opened(m))
  <1>0. n \in Navigators /\ n.tab \in Stacks /\ (here \in MainTabs <=> in)
    BY DEF Shape, Navigators
  <1>1. CASE m = GoBack
    <2>1. Shape(Pop(n, here), in) /\ Bottoms(n, Pop(n, here), {})
      BY Popping
    <2>2. Go(n, here, m) = Pop(n, here)
      BY <1>1, GoKinds
    <2> QED BY <2>1, <2>2 DEF Bottoms
  <1>2. CASE m = PopToTop
    <2>1. Shape(Go(n, here, m), in) /\ Bottoms(n, Go(n, here, m), {})
      BY <1>2, Topping
    <2> QED BY <2>1 DEF Bottoms
  <1>3. ASSUME in, NEW t \in MainTabs, m = Root(t)
        PROVE  Shape(Go(n, here, m), in) /\ Bottoms(n, Go(n, here, m), Opened(m))
    <2>1. in = TRUE
      BY <1>3
    <2> DEFINE then == [n EXCEPT !.tab = t, !.stack[t] = IF @ = <<>> THEN <<First[t]>> ELSE @]
    <2>2. Shape(then, TRUE) /\ Bottoms(n, then, {})
      BY <2>1, Rooting
    <2>3. Go(n, here, m) = then
      BY <1>3, GoKinds, StackFacts
    <2> HIDE DEF then
    <2>4. Shape(Go(n, here, m), TRUE) /\ Bottoms(n, Go(n, here, m), {})
      BY <2>2, <2>3
    <2> QED BY <2>1, <2>4 DEF Bottoms
  <1>4. ASSUME NEW x \in Screens, m = Here(x), Covers(here, Top(n, here), x)
        PROVE  Shape(Go(n, here, m), in) /\ Bottoms(n, Go(n, here, m), Opened(m))
    <2>1. CASE x \in ScreensOf[here]
      <3> DEFINE same == [n EXCEPT !.tab = n.tab]
      <3>1. Go(n, here, m) = Push(n, here, x)
        BY <1>4, <2>1, GoKinds
      <3>2. same = n
        BY <1>0 DEF Navigators
      <3>3. Shape(Push(same, here, x), in) /\ Bottoms(n, Push(same, here, x), {<<here, x>>})
        BY <1>0, <1>4, <2>1, Pushing
      <3> HIDE DEF same
      <3>4. Shape(Go(n, here, m), in) /\ Bottoms(n, Go(n, here, m), {<<here, x>>})
        BY <3>1, <3>2, <3>3
      <3> QED BY <3>4 DEF Bottoms
    <2>2. CASE x \notin ScreensOf[here]
      <3>1. Go(n, here, Here(x)) = IF x \in ScreensOf[here] THEN Push(n, here, x) ELSE n
        BY GoKinds
      <3>2. Go(n, here, m) = n
        BY <1>4, <2>2, <3>1
      <3> QED BY <3>2 DEF Bottoms
    <2> QED BY <2>1, <2>2
  <1>5. ASSUME NEW t \in Stacks, NEW x \in ScreensOf[t], m = To(t, x), t \in MainTabs <=> in,
               m \in FromElsewhere
        PROVE  Shape(Go(n, here, m), in) /\ Bottoms(n, Go(n, here, m), Opened(m))
    <2>1. x \in Screens
      BY StackFacts
    <2>2. Covers(t, Top(n, t), x)
      BY <1>5 DEF Covers
    <2>3. Go(n, here, m) = Push([n EXCEPT !.tab = t], t, x)
      BY <1>5, <2>1, StackFacts DEF Go, To
    <2>4. Shape(Push([n EXCEPT !.tab = t], t, x), in)
          /\ Bottoms(n, Push([n EXCEPT !.tab = t], t, x), {<<t, x>>})
      BY <1>5, <2>2, Pushing
    <2>5. Shape(Go(n, here, m), in) /\ Bottoms(n, Go(n, here, m), {<<t, x>>})
      BY <2>3, <2>4
    <2>6. <<t, x>> \in Opened(m)
      BY <1>5, <2>1 DEF Opened
    <2> QED BY <2>5, <2>6 DEF Bottoms
  <1> QED BY <1>1, <1>2, <1>3, <1>4, <1>5 DEF Fits

\* The targets of the controls of a screen are among those from elsewhere.
LEMMA TargetsElsewhere ==
  /\ \A s \in Screens : \A c \in Offered[s] : \A i \in DOMAIN c.moves : c.moves[i] \in FromElsewhere
  /\ To("ProfileTab", "MyProfile") \in FromElsewhere
  /\ To("HomeTab", "Notifications") \in FromElsewhere
  /\ PushTargets \subseteq FromElsewhere
  /\ \A l \in Links : To(l[1], l[2]) \in FromElsewhere
  <1> DEFINE controls == (UNION {Offered[s] : s \in Screens})
                            \union {HeaderAvatar, NotificationBell}
  <1>1. \A c \in controls : \A i \in DOMAIN c.moves : c.moves[i] \in FromElsewhere
    BY DEF FromElsewhere, Targets
  <1>2. \A s \in Screens : \A c \in Offered[s] : c \in controls
    OBVIOUS
  <1>3. HeaderAvatar \in controls /\ NotificationBell \in controls
    OBVIOUS
  <1>4. /\ 1 \in DOMAIN HeaderAvatar.moves /\ HeaderAvatar.moves[1] = To("ProfileTab", "MyProfile")
        /\ 1 \in DOMAIN NotificationBell.moves
        /\ NotificationBell.moves[1] = To("HomeTab", "Notifications")
    BY DEF HeaderAvatar, NotificationBell, OpenIn, Press
  <1>5. PushTargets \subseteq FromElsewhere /\ \A l \in Links : To(l[1], l[2]) \in FromElsewhere
    BY DEF FromElsewhere
  <1> HIDE DEF controls
  <1> QED BY <1>1, <1>2, <1>3, <1>4, <1>5

\* A control that only moves makes one move, which fits.
LEMMA MovingFits ==
  ASSUME NEW n, NEW in \in BOOLEAN, Shape(n, in), NEW here \in Stacks, n.stack[here] # <<>>,
         NEW c \in Offered[Top(n, here)], c.call = "none"
  PROVE  \E m : /\ c.moves = <<m>> /\ Fits(n, here, in, m)
                /\ \/ m = GoBack
                   \/ m = Here(m.screen) /\ Opens(Top(n, here), m.screen)
                   \/ m \in Across
  <1> DEFINE s == Top(n, here)
  <1>1. s \in ScreensOf[here] /\ s \in Screens /\ (here \in MainTabs <=> in)
    BY TopIsShown DEF Shape
  <1>2. Moving(s, c)
    <2>1. Suits(s, c)
      BY <1>1, OfferedSuits
    <2> QED BY <2>1 DEF Suits, Asking
  <1>3. PICK m : /\ c.moves = <<m>>
                 /\ \/ m = GoBack
                    \/ m = Here(m.screen) /\ Opens(s, m.screen)
                    \/ m \in Across /\ s \in Crossing
    BY <1>2 DEF Moving
  <1>4. CASE m = GoBack
    BY <1>3, <1>4 DEF Fits
  <1>5. CASE m = Here(m.screen) /\ Opens(s, m.screen)
    <2>1. m.screen \in Screens
      BY <1>1, <1>5, OpensKnown
    <2>2. Covers(here, s, m.screen)
      BY <1>5 DEF Covers, Closing, Opens
    <2> QED BY <1>3, <1>5, <2>1, <2>2 DEF Fits
  <1>6. CASE m \in Across /\ s \in Crossing
    <2>1. here \in MainTabs
      BY <1>1, <1>6 DEF Crossing, ScreensOf, Stacks, First, MainTabs, AuthStack
    <2>2. in
      BY <1>1, <2>1
    <2>3. 1 \in DOMAIN c.moves /\ c.moves[1] = m
      BY <1>3
    <2>4. m \in FromElsewhere
      BY <1>1, <2>3, TargetsElsewhere
    <2>5. /\ "BrowseTab" \in MainTabs /\ "ScanTab" \in MainTabs /\ "ProfileTab" \in MainTabs
          /\ "MessagesTab" \in MainTabs
          /\ "BrowseMap" \in ScreensOf["BrowseTab"] /\ "MyBooks" \in ScreensOf["ProfileTab"]
          /\ "Chat" \in ScreensOf["MessagesTab"] /\ "ExchangeDetail" \in ScreensOf["MessagesTab"]
      BY DEF MainTabs, ScreensOf, BrowseStack, ProfileStack, MessagesStack
    <2>6. Fits(n, here, in, m)
      BY <1>6, <2>2, <2>4, <2>5, StackFacts DEF Across, Fits
    <2> QED BY <1>3, <1>6, <2>6
  <1> QED BY <1>3, <1>4, <1>5, <1>6

-----------------------------------------------------------------------------
(* The invariant. *)

Member == session = "member"

HomeBelow ==
    Member /\ linked # "cold" =>
        nav.stack["HomeTab"] # <<>> /\ nav.stack["HomeTab"][1] = "Home"

NavigatorInv ==
    /\ session \in {"booting", "guest", "newcomer", "member"}
    /\ verified \in BOOLEAN /\ linked \in {"no", "warm", "cold"}
    /\ Shape(nav, Member) /\ HomeBelow /\ RootWithinReach

\* Where a tab may be opened but by a link, RootWithinReach kept.
Entrances ==
    {p \in Stacks \X Screens :
        p[1] = "HomeTab" \/ p[2] = First[p[1]]
        \/ p \in {<<"ProfileTab", "MyBooks">>, <<"ProfileTab", "EditBook">>,
                  <<"MessagesTab", "Chat">>, <<"MessagesTab", "ExchangeDetail">>}}

LEMMA MemberIsBoolean == Member \in BOOLEAN
  BY DEF Member

LEMMA OpenedByMoves ==
  /\ Opened(GoBack) = {} /\ Opened(PopToTop) = {}
  /\ \A t : Opened(Root(t)) = {}
  /\ \A x : Opened(Here(x)) = {}
  /\ \A t, x : Opened(To(t, x)) \subseteq {<<t, x>>}
  <1>1. \A x : Opened(Here(x)) = {}
    BY StackFacts DEF Opened, Here, To
  <1>2. \A t : Opened(Root(t)) = {}
    BY StackFacts DEF Opened, Root, To
  <1>3. \A t, x : Opened(To(t, x)) \subseteq {<<t, x>>}
    BY DEF Opened, To
  <1> QED BY <1>1, <1>2, <1>3 DEF GoBack, PopToTop

\* A step that keeps the bottoms keeps what depends on them.
LEMMA ReachKept ==
  ASSUME NavigatorInv, Shape(nav', Member), session' = session, linked' = linked,
         NEW at, at \subseteq Entrances, Bottoms(nav, nav', at)
  PROVE  HomeBelow' /\ RootWithinReach'
  <1>1. Member' <=> Member
    BY DEF Member
  <1>2. \A t \in Stacks : nav.stack[t] # <<>> =>
           nav'.stack[t] # <<>> /\ nav'.stack[t][1] = nav.stack[t][1]
    BY DEF Bottoms
  <1>3. \A t \in Stacks : nav.stack[t] = <<>> /\ nav'.stack[t] # <<>> =>
           nav'.stack[t][1] = First[t] \/ <<t, nav'.stack[t][1]>> \in Entrances
    BY DEF Bottoms
  <1>4. HomeBelow'
    BY <1>1, <1>2, StackFacts DEF NavigatorInv, HomeBelow
  <1>5. RootWithinReach'
    <2> SUFFICES ASSUME session = "member", linked = "no",
                        NEW t \in MainTabs, nav'.stack[t] # <<>>
                 PROVE  \/ nav'.stack[t][1] = First[t]
                        \/ <<t, nav'.stack[t][1]>> \in
                              ({"ProfileTab"} \X {"MyBooks", "EditBook"})
                                 \union ({"MessagesTab"} \X {"Chat", "ExchangeDetail"})
      BY DEF RootWithinReach
    <2>1. CASE nav.stack[t] # <<>>
      <3>1. nav'.stack[t][1] = nav.stack[t][1]
        BY <1>2, <2>1, StackFacts
      <3> QED BY <2>1, <3>1 DEF NavigatorInv, RootWithinReach
    <2>2. CASE nav.stack[t] = <<>>
      <3>1. t # "HomeTab"
        BY <2>2 DEF NavigatorInv, HomeBelow, Member
      <3>2. nav'.stack[t][1] = First[t] \/ <<t, nav'.stack[t][1]>> \in Entrances
        BY <1>3, <2>2, StackFacts
      <3> QED BY <3>1, <3>2 DEF Entrances
    <2> QED BY <2>1, <2>2
  <1> QED BY <1>4, <1>5

\* What is shown.
LEMMA Shown ==
  ASSUME NavigatorInv
  PROVE  /\ ShownTab \in Stacks /\ nav.stack[ShownTab] # <<>> /\ (ShownTab \in MainTabs <=> Member)
         /\ ShownScreen = Top(nav, ShownTab)
         /\ ShownScreen \in ScreensOf[ShownTab] /\ ShownScreen \in Screens
  <1>1. /\ Shape(nav, Member) /\ nav.tab \in Stacks /\ nav.stack[nav.tab] # <<>>
        /\ (nav.tab \in MainTabs <=> Member)
    BY DEF NavigatorInv, Shape, Navigators
  <1> QED BY <1>1, TopIsShown, MemberIsBoolean DEF ShownTab, ShownScreen

\* Only moves within a stack can be lost.
LEMMA LapseOfMove ==
  ASSUME NEW here, NEW s, NEW m, Moves(here, s, <<m>>),
         m.tab # "here" \/ m.screen \in {"back", "top"} \/ m.screen \in ScreensOf[here]
            \/ <<s, m.screen>> \in KnownDeadLinks
  PROVE  LinksLand' /\ AnswersCloseTheirOwn'
  <1>1. Lost(here, <<m>>) \subseteq {m}
    BY DEF Lost
  <1>2. CASE Lost(here, <<m>>) = {}
    <2>1. Head(lapse') = "none"
      BY <1>2 DEF Moves, NoLapse
    <2> QED BY <2>1 DEF LinksLand, AnswersCloseTheirOwn
  <1>3. CASE Lost(here, <<m>>) # {}
    <2>1. Lost(here, <<m>>) = {m} /\ (CHOOSE k \in Lost(here, <<m>>) : TRUE) = m
      BY <1>1, <1>3
    <2>2. lapse' = <<"dropped", s, m.screen>>
      BY <1>3, <2>1 DEF Moves, Dropped
    <2>3. m.tab = "here" /\ m.screen \notin ScreensOf[here] /\ m.screen \notin {"back", "top"}
      BY <2>1 DEF Lost
    <2>4. Head(lapse') = "dropped" /\ lapse'[2] = s /\ lapse'[3] = m.screen
      BY <2>2
    <2> QED BY <2>3, <2>4 DEF LinksLand, AnswersCloseTheirOwn
  <1> QED BY <1>2, <1>3

\* One move that fits, from what is shown.
LEMMA ShownMoves ==
  ASSUME NavigatorInv, NEW m, Moves(ShownTab, ShownScreen, <<m>>), Fits(nav, ShownTab, Member, m)
  PROVE  /\ Shape(nav', Member) /\ Bottoms(nav, nav', Opened(m))
         /\ session' = session /\ verified' = verified
  <1>1. nav' = Go(nav, ShownTab, m) /\ session' = session /\ verified' = verified
    BY RunOne DEF Moves
  <1>2. Shape(nav, Member) /\ ShownTab \in Stacks /\ nav.stack[ShownTab] # <<>>
    BY Shown DEF NavigatorInv
  <1>3. /\ Shape(Go(nav, ShownTab, m), Member)
        /\ Bottoms(nav, Go(nav, ShownTab, m), Opened(m))
    BY <1>2, Going, MemberIsBoolean
  <1> QED BY <1>1, <1>3

-----------------------------------------------------------------------------
(* Step by step: each action keeps the invariant, and what it loses or closes is as stated. *)

Steady == NavigatorInv' /\ LinksLand' /\ AnswersCloseTheirOwn'

\* A move of the user that fits, and opens a tab at one of the entrances.
LEMMA UserMoves ==
  ASSUME NavigatorInv, NEW m, Moves(ShownTab, ShownScreen, <<m>>), linked' = linked,
         Fits(nav, ShownTab, Member, m), Opened(m) \subseteq Entrances,
         m.tab # "here" \/ m.screen \in {"back", "top"} \/ m.screen \in ScreensOf[ShownTab]
            \/ <<ShownScreen, m.screen>> \in KnownDeadLinks
  PROVE  Steady
  <1>1. /\ Shape(nav', Member) /\ Bottoms(nav, nav', Opened(m))
        /\ session' = session /\ verified' = verified
    BY ShownMoves
  <1>2. HomeBelow' /\ RootWithinReach'
    BY <1>1, ReachKept
  <1>3. LinksLand' /\ AnswersCloseTheirOwn'
    BY LapseOfMove
  <1>4. Member' = Member
    BY <1>1 DEF Member
  <1>5. Shape(nav', Member')
    BY <1>1, <1>4
  <1> QED BY <1>1, <1>2, <1>3, <1>5 DEF Steady, NavigatorInv

LEMMA BackAndTop ==
  ASSUME NavigatorInv, NEW m \in {GoBack, PopToTop}, Moves(ShownTab, ShownScreen, <<m>>),
         linked' = linked
  PROVE  Steady
  <1>1. Fits(nav, ShownTab, Member, m) /\ Opened(m) = {} /\ m.screen \in {"back", "top"}
    BY OpenedByMoves DEF Fits, GoBack, PopToTop, Here, To
  <1> QED BY <1>1, UserMoves

LEMMA ToTab ==
  ASSUME NavigatorInv, Member, NEW t \in MainTabs, Moves(ShownTab, ShownScreen, <<Root(t)>>),
         linked' = linked
  PROVE  Steady
  <1>1. Fits(nav, ShownTab, Member, Root(t)) /\ Opened(Root(t)) = {} /\ Root(t).tab # "here"
    BY OpenedByMoves, StackFacts DEF Fits, Root, To
  <1> QED BY <1>1, UserMoves

\* The screens of other tabs that are opened but by a link.
Doors == {To("ProfileTab", "MyProfile"), To("HomeTab", "Notifications"),
          To("HomeTab", "BookDetail"), To("BrowseTab", "BrowseMap"),
          To("ProfileTab", "MyBooks"), To("ProfileTab", "EditBook"),
          To("MessagesTab", "Chat"), To("MessagesTab", "ExchangeDetail")}

LEMMA DoorsAreEntrances ==
  \A m \in Doors : /\ \E t \in MainTabs : \E x \in ScreensOf[t] : m = To(t, x)
                   /\ Opened(m) \subseteq Entrances /\ m.tab # "here"
  <1>1. ASSUME NEW t \in MainTabs, NEW x \in ScreensOf[t], <<t, x>> \in Entrances
        PROVE  /\ \E u \in MainTabs : \E y \in ScreensOf[u] : To(t, x) = To(u, y)
               /\ Opened(To(t, x)) \subseteq Entrances /\ To(t, x).tab # "here"
    BY <1>1, OpenedByMoves, StackFacts DEF To
  <1>2. /\ {"HomeTab", "BrowseTab", "ProfileTab", "MessagesTab"} \subseteq MainTabs
        /\ {"Notifications", "BookDetail"} \subseteq ScreensOf["HomeTab"]
        /\ "BrowseMap" \in ScreensOf["BrowseTab"]
        /\ {"MyProfile", "MyBooks", "EditBook"} \subseteq ScreensOf["ProfileTab"]
        /\ {"Chat", "ExchangeDetail"} \subseteq ScreensOf["MessagesTab"]
    BY DEF MainTabs, ScreensOf, HomeStack, BrowseStack, ProfileStack, MessagesStack
  <1>3. /\ <<"HomeTab", "Notifications">> \in Entrances /\ <<"HomeTab", "BookDetail">> \in Entrances
        /\ <<"BrowseTab", "BrowseMap">> \in Entrances /\ <<"ProfileTab", "MyProfile">> \in Entrances
        /\ <<"ProfileTab", "MyBooks">> \in Entrances /\ <<"ProfileTab", "EditBook">> \in Entrances
        /\ <<"MessagesTab", "Chat">> \in Entrances
        /\ <<"MessagesTab", "ExchangeDetail">> \in Entrances
    <2>1. /\ First["BrowseTab"] = "BrowseMap" /\ First["ProfileTab"] = "MyProfile"
      BY DEF First
    <2>2. \A t \in MainTabs : \A x \in ScreensOf[t] : <<t, x>> \in Stacks \X Screens
      BY StackFacts
    <2> QED BY <1>2, <2>1, <2>2 DEF Entrances
  <1> QED BY <1>1, <1>2, <1>3 DEF Doors

LEMMA ThroughDoor ==
  ASSUME NavigatorInv, Member, NEW m \in Doors, m \in FromElsewhere,
         Moves(ShownTab, ShownScreen, <<m>>), linked' = linked
  PROVE  Steady
  <1>1. PICK t \in MainTabs : \E x \in ScreensOf[t] : m = To(t, x)
    BY DoorsAreEntrances
  <1>2. Fits(nav, ShownTab, Member, m)
    BY <1>1, StackFacts DEF Fits
  <1>3. Opened(m) \subseteq Entrances /\ m.tab # "here"
    BY DoorsAreEntrances
  <1> QED BY <1>2, <1>3, UserMoves

LEMMA PressedSteady ==
  ASSUME NavigatorInv, NEW c \in Offered[ShownScreen], Pressed(c) PROVE Steady
  <1>1. c.call = "none" /\ Moves(ShownTab, ShownScreen, c.moves) /\ linked' = linked
    BY DEF Pressed
  <1>2. PICK m : /\ c.moves = <<m>> /\ Fits(nav, ShownTab, Member, m)
                 /\ \/ m = GoBack
                    \/ m = Here(m.screen) /\ Opens(ShownScreen, m.screen)
                    \/ m \in Across
    <2>1. Shape(nav, Member)
      BY DEF NavigatorInv
    <2> QED BY <1>1, <2>1, Shown, MovingFits, MemberIsBoolean
  <1>3. Moves(ShownTab, ShownScreen, <<m>>)
    BY <1>1, <1>2
  <1>4. CASE m = GoBack
    BY <1>1, <1>3, <1>4, BackAndTop
  <1>5. CASE m = Here(m.screen) /\ Opens(ShownScreen, m.screen)
    <2>1. Opened(m) = {}
      BY <1>5, OpenedByMoves
    <2>2. m.screen \in ScreensOf[ShownTab] \/ <<ShownScreen, m.screen>> \in KnownDeadLinks
      BY <1>5, Shown, OpensKnown
    <2> QED BY <1>1, <1>2, <1>3, <2>1, <2>2, UserMoves
  <1>6. CASE m \in Across
    <2>1. Opened(m) \subseteq Entrances /\ m.tab # "here"
      <3>1. m \in Doors \/ \E t \in MainTabs : m = Root(t)
        BY <1>6 DEF Across, Doors, MainTabs
      <3> QED BY <3>1, DoorsAreEntrances, OpenedByMoves, StackFacts DEF Root, To
    <2> QED BY <1>1, <1>2, <1>3, <2>1, UserMoves
  <1> QED BY <1>2, <1>4, <1>5, <1>6

LEMMA SameStands ==
  ASSUME NavigatorInv, Stays PROVE NavigatorInv'
  <1>1. session' = session /\ verified' = verified /\ nav' = nav /\ linked' = linked
    BY DEF Stays
  <1>2. Shape(nav, Member)'
    BY <1>1 DEF NavigatorInv, Member
  <1>3. HomeBelow' /\ RootWithinReach'
    BY <1>1 DEF NavigatorInv, HomeBelow, RootWithinReach, Member
  <1> QED BY <1>1, <1>2, <1>3 DEF NavigatorInv

\* What leaves the stacks and the calls as they are.
LEMMA StaysSteady ==
  ASSUME NavigatorInv, Stays,
         \E s, x : lapse' = Dropped(s, x) /\ <<s, x>> \in KnownDeadLinks
  PROVE  Steady
  <1>1. NavigatorInv'
    BY SameStands
  <1>2. PICK s, x : lapse' = <<"dropped", s, x>> /\ <<s, x>> \in KnownDeadLinks
    BY DEF Dropped
  <1>3. Head(lapse') = "dropped" /\ lapse'[2] = s /\ lapse'[3] = x
    BY <1>2
  <1> QED BY <1>1, <1>2, <1>3 DEF Steady, LinksLand, AnswersCloseTheirOwn

LEMMA CalledSteady ==
  ASSUME NavigatorInv, NEW c \in Offered[ShownScreen], Called(c) PROVE Steady
  <1> DEFINE call == [control |-> c, tab |-> ShownTab, place |-> Len(nav.stack[ShownTab])]
  <1>1. /\ Calls(c) /\ session' = session /\ verified' = verified /\ linked' = linked
        /\ lapse' = NoLapse
    BY DEF Called
  <1>2. PICK i \in Slots : nav' = [nav EXCEPT !.calls[i] = call]
    BY DEF Called
  <1>3. Shape(nav, Member) /\ nav \in Navigators
    BY DEF NavigatorInv, Shape
  <1>4. Len(nav.stack[ShownTab]) \in Nat \ {0}
    BY <1>3, Shown, TopIsShown, MemberIsBoolean
  <1>5. call \in Pending
    <2>1. c \in (UNION {Offered[s] : s \in Screens}) \union {Narrow}
      BY Shown
    <2> QED BY <1>4, <2>1, Shown DEF Pending
  <1>6. Waits(nav.stack, call)
    <2>1. /\ call.tab = ShownTab /\ call.control = c /\ call.place = Len(nav.stack[ShownTab])
          /\ nav.stack[ShownTab][Len(nav.stack[ShownTab])] = ShownScreen
      BY Shown DEF Top
    <2> HIDE DEF call
    <2> QED BY <1>1, <1>4, <2>1, Shown DEF Waits
  <1>7. /\ nav' \in Navigators /\ nav'.tab = nav.tab /\ nav'.stack = nav.stack
        /\ \A j \in Slots : nav'.calls[j] = IF j = i THEN call ELSE nav.calls[j]
    <2> HIDE DEF call
    <2> QED BY <1>2, <1>3, <1>5 DEF Navigators
  <1>8. Shape(nav', Member)
    <2> HIDE DEF call
    <2> QED BY <1>3, <1>6, <1>7 DEF Shape
  <1>9. NavigatorInv'
    <2>1. Member' = Member
      BY <1>1 DEF Member
    <2>2. Shape(nav', Member')
      BY <1>8, <2>1
    <2>3. HomeBelow' /\ RootWithinReach'
      BY <1>1, <1>7 DEF NavigatorInv, HomeBelow, RootWithinReach, Member
    <2> QED BY <1>1, <2>2, <2>3 DEF NavigatorInv
  <1>10. Head(lapse') = "none"
    BY <1>1 DEF NoLapse
  <1> QED BY <1>9, <1>10 DEF Steady, LinksLand, AnswersCloseTheirOwn

LEMMA PressesSteady == ASSUME NavigatorInv, Presses PROVE Steady
  <1>1. PICK c \in Offered[ShownScreen] : Pressed(c) \/ Called(c) \/ useEmailVerificationGate(c)
    BY DEF Presses
  <1>2. CASE useEmailVerificationGate(c)
    <2>1. Suits(ShownScreen, c)
      BY Shown, OfferedSuits
    <2>2. <<ShownScreen, "Auth">> \in KnownDeadLinks
      BY <1>2, <2>1 DEF useEmailVerificationGate, Suits, Gated, KnownDeadLinks
    <2> QED BY <1>2, <2>2, StaysSteady DEF useEmailVerificationGate
  <1> QED BY <1>1, <1>2, PressedSteady, CalledSteady

LEMMA UsesHeaderSteady == ASSUME NavigatorInv, UsesHeader PROVE Steady
  <1>1. PICK c \in Header(ShownTab, ShownScreen) : Moves(ShownTab, ShownScreen, c.moves)
    BY DEF UsesHeader
  <1>2. linked' = linked
    BY DEF UsesHeader
  <1>3. /\ ShownTab \in MainTabs
        /\ \/ c.moves = <<GoBack>> \/ c.moves = <<Root("HomeTab")>>
           \/ c.moves = <<To("ProfileTab", "MyProfile")>>
           \/ c.moves = <<To("HomeTab", "Notifications")>>
    BY DEF Header, When, HeaderBackButton, HeaderHomeButton, HeaderAvatar, NotificationBell, Back,
           OpenTab, OpenIn, Press
  <1>4. Member /\ "HomeTab" \in MainTabs
    BY <1>3, Shown, StackFacts
  <1>5. CASE c.moves = <<GoBack>>
    BY <1>1, <1>2, <1>5, BackAndTop
  <1>6. CASE c.moves = <<Root("HomeTab")>>
    BY <1>1, <1>2, <1>4, <1>6, ToTab
  <1>7. ASSUME NEW m \in {To("ProfileTab", "MyProfile"), To("HomeTab", "Notifications")},
               c.moves = <<m>>
        PROVE  Steady
    <2>1. m \in Doors /\ m \in FromElsewhere
      BY TargetsElsewhere DEF Doors
    <2> QED BY <1>1, <1>2, <1>4, <1>7, <2>1, ThroughDoor
  <1> QED BY <1>3, <1>5, <1>6, <1>7

LEMMA FloatingTabBarSteady == ASSUME NavigatorInv, FloatingTabBar PROVE Steady
  <1>1. PICK t \in MainTabs \ EXCLUDED_FROM_BAR :
           Moves(ShownTab, ShownScreen, IF t = ShownTab THEN <<PopToTop>> ELSE <<Root(t)>>)
    BY DEF FloatingTabBar
  <1>2. linked' = linked /\ ShownTab \in MainTabs
    BY DEF FloatingTabBar, computeVisibility
  <1>3. Member
    BY <1>2, Shown
  <1>4. CASE t = ShownTab
    BY <1>1, <1>2, <1>4, BackAndTop
  <1>5. CASE t # ShownTab
    BY <1>1, <1>2, <1>3, <1>5, ToTab
  <1> QED BY <1>4, <1>5

LEMMA HardwareBackSteady == ASSUME NavigatorInv, HardwareBack PROVE Steady
  BY BackAndTop DEF HardwareBack

LEMMA NotificationSteady == ASSUME NavigatorInv, navigateFromPayload PROVE Steady
  <1>1. CASE session = "member"
    <2>1. PICK m \in PushTargets : Moves(ShownTab, ShownScreen, <<m>>)
      BY <1>1 DEF navigateFromPayload
    <2>2. linked' = linked /\ Member
      BY <1>1 DEF navigateFromPayload, Member
    <2>3. m \in Doors /\ m \in FromElsewhere
      BY TargetsElsewhere DEF Doors, PushTargets
    <2> QED BY <2>1, <2>2, <2>3, ThroughDoor
  <1>2. CASE session # "member"
    <2>1. <<"notification", "Main">> \in KnownDeadLinks
      BY DEF KnownDeadLinks
    <2> QED BY <1>2, <2>1, StaysSteady DEF navigateFromPayload
  <1> QED BY <1>1, <1>2

LEMMA LinksKnown ==
  \A l \in Links : /\ l[1] \in MainTabs \union {"Auth"} /\ l[1] \in Stacks
                   /\ l[2] \in ScreensOf[l[1]]
  BY DEF Links, MainTabs, Stacks, First, ScreensOf, HomeStack, BrowseStack, ScanStack,
         MessagesStack, ProfileStack, AuthStack

LEMMA LinkFollowedSteady == ASSUME NavigatorInv, LinkFollowed PROVE Steady
  <1>1. PICK l \in Links :
           IF session # "newcomer" /\ (l[1] = "Auth" <=> session = "guest")
           THEN linked' = "warm" /\ Moves(ShownTab, ShownScreen, <<To(l[1], l[2])>>)
           ELSE lapse' = Dropped("link", l[1]) /\ Stays
    BY DEF LinkFollowed
  <1>2. Up /\ linked = "no"
    BY DEF LinkFollowed
  <1>3. l[1] \in MainTabs \union {"Auth"} /\ l[1] \in Stacks /\ l[2] \in ScreensOf[l[1]]
    BY LinksKnown
  <1>4. CASE session # "newcomer" /\ (l[1] = "Auth" <=> session = "guest")
    <2> DEFINE m == To(l[1], l[2])
    <2>1. linked' = "warm" /\ Moves(ShownTab, ShownScreen, <<m>>)
      BY <1>1, <1>4
    <2>2. l[1] \in MainTabs <=> Member
      BY <1>2, <1>3, <1>4, StackFacts DEF NavigatorInv, Member, Up
    <2>3. m \in FromElsewhere
      BY TargetsElsewhere
    <2>4. Fits(nav, ShownTab, Member, m)
      BY <1>3, <2>2, <2>3 DEF Fits
    <2>5. m.tab # "here"
      BY <1>3, StackFacts DEF To
    <2> HIDE DEF m
    <2>6. /\ Shape(nav', Member) /\ Bottoms(nav, nav', Opened(m))
          /\ session' = session /\ verified' = verified
      BY <2>1, <2>4, ShownMoves
    <2>7. HomeBelow' /\ RootWithinReach'
      BY <1>2, <2>1, <2>6, StackFacts
         DEF NavigatorInv, HomeBelow, RootWithinReach, Bottoms, Member
    <2>8. Member' = Member
      BY <2>6 DEF Member
    <2>9. Shape(nav', Member')
      BY <2>6, <2>8
    <2>10. NavigatorInv'
      BY <2>1, <2>6, <2>7, <2>9 DEF NavigatorInv
    <2>11. LinksLand' /\ AnswersCloseTheirOwn'
      BY <2>1, <2>5, LapseOfMove
    <2> QED BY <2>10, <2>11 DEF Steady
  <1>5. CASE ~(session # "newcomer" /\ (l[1] = "Auth" <=> session = "guest"))
    <2>1. <<"link", l[1]>> \in KnownDeadLinks
      BY <1>3 DEF KnownDeadLinks
    <2> QED BY <1>1, <1>5, <2>1, StaysSteady
  <1> QED BY <1>4, <1>5

-----------------------------------------------------------------------------
(* Starting, and a session's end and beginning. *)

LEMMA NoCallPending == NoCall \in Pending
  BY DEF NoCall, Pending

\* One stack with one screen, and calls.
Showing(t, x, calls) == [OnlyShowing(t, x) EXCEPT !.calls = calls]

\* Calls that are kept, without a place.
Placeless(calls) ==
    \A i \in Slots : calls[i] # NoCall =>
        /\ calls[i].tab \in Stacks /\ Calls(calls[i].control)
        /\ calls[i].place = 0 /\ calls[i].control.kept
        /\ \E s \in ScreensOf[calls[i].tab] : calls[i].control \in Offered[s]

LEMMA ShowingShape ==
  ASSUME NEW t \in Stacks, NEW x \in ScreensOf[t], NEW in \in BOOLEAN, t \in MainTabs <=> in,
         NEW calls \in [Slots -> Pending], Placeless(calls)
  PROVE  /\ Shape(Showing(t, x, calls), in) /\ Showing(t, x, calls).stack[t] = <<x>>
         /\ \A u \in Stacks \ {t} : Showing(t, x, calls).stack[u] = <<>>
  <1> DEFINE n == Showing(t, x, calls)
             stack == [u \in Stacks |-> IF u = t THEN <<x>> ELSE <<>>]
  <1>1. n = [tab |-> t, stack |-> stack, calls |-> calls]
    <2>1. OnlyShowing(t, x) = [tab |-> t, stack |-> stack, calls |-> Idle]
      BY DEF OnlyShowing
    <2> HIDE DEF stack
    <2> QED BY <2>1 DEF Showing
  <1>2. /\ stack[t] = <<x>> /\ \A u \in Stacks \ {t} : stack[u] = <<>>
        /\ <<x>> # <<>>
    OBVIOUS
  <1>3. /\ \A u \in Stacks : stack[u] \in Seq(ScreensOf[u])
        /\ \A u \in Stacks : stack[u] \in Seq(Screens)
        /\ stack \in [Stacks -> Seq(Screens)]
    <2>1. <<x>> \in Seq(ScreensOf[t])
      BY OneScreen
    <2>2. x \in Screens
      BY StackFacts
    <2>3. <<x>> \in Seq(Screens)
      BY <2>2, OneScreen
    <2>4. \A S : <<>> \in Seq(S)
      BY EmptySeq
    <2> QED BY <2>1, <2>3, <2>4
  <1> HIDE DEF stack, n
  <1>4. n \in Navigators
    BY <1>1, <1>3 DEF Navigators
  <1>5. \A i \in Slots : n.calls[i] # NoCall => Waits(n.stack, n.calls[i])
    BY <1>1 DEF Waits, Placeless
  <1>6. Shape(n, in)
    BY <1>1, <1>2, <1>3, <1>4, <1>5 DEF Shape
  <1>7. n.stack[t] = <<x>> /\ \A u \in Stacks \ {t} : n.stack[u] = <<>>
    BY <1>1, <1>2
  <1> QED BY <1>6, <1>7 DEF n

LEMMA OnlyShowingShape ==
  ASSUME NEW t \in Stacks, NEW x \in ScreensOf[t], NEW in \in BOOLEAN, t \in MainTabs <=> in
  PROVE  /\ Shape(OnlyShowing(t, x), in) /\ OnlyShowing(t, x).stack[t] = <<x>>
         /\ \A u \in Stacks \ {t} : OnlyShowing(t, x).stack[u] = <<>>
  <1>1. Idle \in [Slots -> Pending] /\ \A i \in Slots : Idle[i] = NoCall
    BY NoCallPending DEF Idle
  <1>0. Placeless(Idle)
    BY <1>1 DEF Placeless
  <1>2. Showing(t, x, Idle) = OnlyShowing(t, x)
    BY DEF OnlyShowing, Showing
  <1>3. /\ Shape(Showing(t, x, Idle), in) /\ Showing(t, x, Idle).stack[t] = <<x>>
        /\ \A u \in Stacks \ {t} : Showing(t, x, Idle).stack[u] = <<>>
    BY <1>0, <1>1, ShowingShape
  <1> QED BY <1>2, <1>3

LEMMA RootNavigatorKnown ==
  /\ RootNavigator("member") = "HomeTab"
  /\ \A s \in {"booting", "guest", "newcomer", "member"} :
        /\ RootNavigator(s) \in Stacks /\ First[RootNavigator(s)] \in ScreensOf[RootNavigator(s)]
        /\ RootNavigator(s) \in MainTabs <=> s = "member"
  BY StackFacts DEF RootNavigator

LEMMA InitSteady == Init => NavigatorInv /\ LinksLand /\ AnswersCloseTheirOwn
  <1> SUFFICES ASSUME Init PROVE NavigatorInv /\ LinksLand /\ AnswersCloseTheirOwn
    OBVIOUS
  <1>1. Shape(Mounted("booting"), FALSE)
    BY RootNavigatorKnown, OnlyShowingShape DEF Mounted
  <1>2. Member = FALSE
    BY DEF Init, Member
  <1>3. Shape(nav, Member)
    BY <1>1, <1>2 DEF Init
  <1>4. Head(lapse) = "none"
    BY DEF Init, NoLapse
  <1> QED BY <1>2, <1>3, <1>4
          DEF Init, NavigatorInv, HomeBelow, RootWithinReach, Member, LinksLand,
              AnswersCloseTheirOwn

\* A session that begins or ends leaves the calls that are kept, without a place.
LEMMA MountingSteady ==
  ASSUME NavigatorInv, NEW s \in {"guest", "newcomer", "member"}, Shows(s),
         Shape(nav', s = "member"), s = "member" => nav'.stack["HomeTab"] = <<"Home">>,
         \A u \in Stacks \ {RootNavigator(s)} : nav'.stack[u] = <<>>
  PROVE  Steady
  <1>1. /\ session' = s /\ verified' \in BOOLEAN /\ linked' = "no" /\ lapse' = NoLapse
    BY DEF Shows, NavigatorInv
  <1>2. Head(lapse') = "none"
    BY <1>1 DEF NoLapse
  <1>4. Shape(nav', Member')
    <2>1. session' = s
      BY <1>1
    <2>2. Shape(nav', session' = "member")
      BY <2>1
    <2> QED BY <2>2 DEF Member
  <1>5. HomeBelow'
    <2>1. <<"Home">> # <<>> /\ <<"Home">>[1] = "Home"
      OBVIOUS
    <2>2. session' = "member" => nav'.stack["HomeTab"] = <<"Home">>
      BY <1>1
    <2> QED BY <2>1, <2>2 DEF HomeBelow, Member
  <1>6. RootWithinReach'
    <2> SUFFICES ASSUME s = "member", NEW t \in MainTabs, nav'.stack[t] # <<>>
                 PROVE  nav'.stack[t][1] = First[t]
      BY <1>1 DEF RootWithinReach
    <2>1. t = "HomeTab"
      BY RootNavigatorKnown, StackFacts
    <2> QED BY <2>1, StackFacts
  <1> QED BY <1>1, <1>2, <1>4, <1>5, <1>6
          DEF Steady, NavigatorInv, LinksLand, AnswersCloseTheirOwn

LEMMA HydratedSteady == ASSUME NavigatorInv, Hydrated PROVE Steady
  <1>1. PICK s \in {"guest", "newcomer", "member"} : Shows(s) /\ nav' = Mounted(s)
    BY DEF Hydrated
  <1> DEFINE t == RootNavigator(s)
             in == s = "member"
  <1>2. t \in Stacks /\ First[t] \in ScreensOf[t] /\ (t \in MainTabs <=> in) /\ in \in BOOLEAN
    BY RootNavigatorKnown
  <1>3. /\ Shape(nav', in) /\ nav'.stack[t] = <<First[t]>>
        /\ \A u \in Stacks \ {t} : nav'.stack[u] = <<>>
    <2> HIDE DEF t, in
    <2>1. nav' = OnlyShowing(t, First[t])
      BY <1>1 DEF Mounted, t
    <2> QED BY <1>2, <2>1, OnlyShowingShape
  <1>4. s = "member" => nav'.stack["HomeTab"] = <<"Home">>
    BY <1>3, RootNavigatorKnown, StackFacts
  <1> QED BY <1>1, <1>3, <1>4, MountingSteady

LEMMA StartedByLinkSteady == ASSUME NavigatorInv, StartedByLink PROVE Steady
  <1>1. PICK l \in Links :
           /\ session' = IF l[1] = "Auth" THEN "guest" ELSE "member"
           /\ verified' \in IF l[1] = "Auth" THEN {FALSE} ELSE BOOLEAN
           /\ nav' = OnlyShowing(l[1], l[2])
    BY DEF StartedByLink
  <1>2. linked' = "cold" /\ lapse' = NoLapse
    BY DEF StartedByLink
  <1>3. l[1] \in MainTabs \union {"Auth"} /\ l[1] \in Stacks /\ l[2] \in ScreensOf[l[1]]
    BY LinksKnown
  <1>4. /\ session' \in {"guest", "member"} /\ verified' \in BOOLEAN
        /\ l[1] \in MainTabs <=> session' = "member"
    BY <1>1, <1>3, StackFacts
  <1> DEFINE in == session' = "member"
  <1>5. Shape(nav', in)
    <2>1. in \in BOOLEAN /\ (l[1] \in MainTabs <=> in)
      BY <1>4
    <2> HIDE DEF in
    <2> QED BY <1>1, <1>3, <2>1, OnlyShowingShape
  <1>6. Shape(nav', Member')
    BY <1>5 DEF Member
  <1>7. Head(lapse') = "none"
    BY <1>2 DEF NoLapse
  <1> QED BY <1>2, <1>4, <1>6, <1>7
          DEF Steady, NavigatorInv, HomeBelow, RootWithinReach, LinksLand, AnswersCloseTheirOwn

-----------------------------------------------------------------------------
(* Answers. *)

LEMMA BottomsThen ==
  ASSUME NEW n, NEW m, NEW k, NEW at, Bottoms(n, m, {}), Bottoms(m, k, at)
  PROVE  Bottoms(n, k, at)
  BY DEF Bottoms

\* What is known of a call under way: its control, its screen, and what it does when accepted.
LEMMA CallUnderWay ==
  ASSUME NavigatorInv, NEW i \in Slots, nav.calls[i] # NoCall
  PROVE  LET call == nav.calls[i]
         IN  /\ call \in Pending /\ call.tab \in Stacks /\ call.place \in Nat
             /\ \E s \in ScreensOf[call.tab] :
                   /\ call.control \in Offered[s] /\ Asking(s, call.control)
                   /\ call.place > 0 =>
                         /\ call.place <= Len(nav.stack[call.tab])
                         /\ call.place < Len(nav.stack[call.tab]) =>
                               Covers(call.tab, s, nav.stack[call.tab][call.place + 1])
                         /\ nav.stack[call.tab][call.place] = s
             /\ ~call.control.kept => call.place > 0 /\ nav.stack[call.tab] # <<>>
  <1> DEFINE call == nav.calls[i]
  <1>1. call \in Pending /\ call.place \in Nat /\ Waits(nav.stack, call)
    BY DEF NavigatorInv, Shape, Navigators, Pending
  <1> HIDE DEF call
  <1>2. PICK s \in ScreensOf[call.tab] :
           /\ call.control \in Offered[s]
           /\ call.place > 0 =>
                 /\ call.place <= Len(nav.stack[call.tab])
                 /\ nav.stack[call.tab][call.place] = s
                 /\ call.place < Len(nav.stack[call.tab]) =>
                       Covers(call.tab, s, nav.stack[call.tab][call.place + 1])
    BY <1>1 DEF Waits
  <1>3. call.tab \in Stacks /\ Calls(call.control) /\ (call.place = 0 => call.control.kept)
    BY <1>1 DEF Waits
  <1>4. Asking(s, call.control)
    <2>1. Suits(s, call.control)
      BY <1>2, <1>3, StackFacts, OfferedSuits
    <2> QED BY <1>3, <2>1 DEF Suits, Moving, Calls, NotCalls
  <1>5. ~call.control.kept => call.place > 0 /\ nav.stack[call.tab] # <<>>
    <2> SUFFICES ASSUME ~call.control.kept
                 PROVE  call.place > 0 /\ nav.stack[call.tab] # <<>>
      OBVIOUS
    <2>1. call.place > 0
      BY <1>1, <1>3
    <2>2. call.place <= Len(nav.stack[call.tab])
      BY <1>2, <2>1
    <2>3. nav.stack[call.tab] \in Seq(ScreensOf[call.tab])
      BY <1>3 DEF NavigatorInv, Shape
    <2> QED BY <1>1, <2>1, <2>2, <2>3, EmptySeq
  <1>6. \E z \in ScreensOf[call.tab] :
           /\ call.control \in Offered[z] /\ Asking(z, call.control)
           /\ call.place > 0 =>
                 /\ call.place <= Len(nav.stack[call.tab])
                 /\ call.place < Len(nav.stack[call.tab]) =>
                       Covers(call.tab, z, nav.stack[call.tab][call.place + 1])
                 /\ nav.stack[call.tab][call.place] = z
    BY <1>2, <1>4
  <1>7. /\ call \in Pending /\ call.tab \in Stacks /\ call.place \in Nat
    BY <1>1, <1>3
  <1> QED BY <1>5, <1>6, <1>7 DEF call

\* The navigator without the call that is answered.
LEMMA CallGone ==
  ASSUME NavigatorInv, NEW i \in Slots
  PROVE  LET rest == [nav EXCEPT !.calls[i] = NoCall]
         IN  /\ Shape(rest, Member) /\ rest.stack = nav.stack /\ rest.tab = nav.tab
             /\ rest.calls \in [Slots -> Pending]
             /\ \A j \in Slots : rest.calls[j] = IF j = i THEN NoCall ELSE nav.calls[j]
  <1> DEFINE rest == [nav EXCEPT !.calls[i] = NoCall]
  <1>1. Shape(nav, Member) /\ nav \in Navigators
    BY DEF NavigatorInv, Shape
  <1>2. /\ rest \in Navigators /\ rest.tab = nav.tab /\ rest.stack = nav.stack
        /\ \A j \in Slots : rest.calls[j] = IF j = i THEN NoCall ELSE nav.calls[j]
    BY <1>1, NoCallPending DEF Navigators
  <1> HIDE DEF rest
  <1>3. Shape(rest, Member)
    BY <1>1, <1>2 DEF Shape
  <1>4. rest.calls \in [Slots -> Pending]
    BY <1>2 DEF Navigators
  <1> QED BY <1>2, <1>3, <1>4 DEF rest

LEMMA SessionAnswered ==
  ASSUME NavigatorInv, NEW s \in {"guest", "newcomer", "member"}, Shows(s),
         NEW rest \in [Slots -> Pending], \A j \in Slots : rest[j] \in {NoCall, nav.calls[j]},
         nav' = Remounted(s, rest)
  PROVE  Steady
  <1> DEFINE calls == [j \in Slots |-> Orphaned(rest[j])]
             t == RootNavigator(s)
             in == s = "member"
  <1>2. nav' = Showing(t, First[t], calls)
    BY DEF Remounted, Mounted, Showing
  <1>3. t \in Stacks /\ First[t] \in ScreensOf[t] /\ (t \in MainTabs <=> in) /\ in \in BOOLEAN
    BY RootNavigatorKnown
  <1>4. ASSUME NEW j \in Slots
        PROVE  /\ Orphaned(rest[j]) \in Pending
               /\ Orphaned(rest[j]) # NoCall =>
                     LET call == Orphaned(rest[j])
                     IN  /\ call.tab \in Stacks /\ Calls(call.control)
                         /\ call.place = 0 /\ call.control.kept
                         /\ \E z \in ScreensOf[call.tab] : call.control \in Offered[z]
    <2>1. CASE ~rest[j].control.kept
      BY <2>1, NoCallPending DEF Orphaned
    <2>2. CASE rest[j].control.kept
      <3>1. rest[j] # NoCall
        BY <2>2 DEF NoCall, Narrow, Press
      <3>2. rest[j] = nav.calls[j] /\ nav.calls[j] # NoCall
        BY <3>1
      <3> DEFINE old == nav.calls[j]
      <3>3. old \in Pending /\ Waits(nav.stack, old)
        BY <3>2 DEF NavigatorInv, Shape
      <3> HIDE DEF old
      <3>4. Orphaned(old) = [old EXCEPT !.place = 0]
        BY <2>2, <3>2 DEF Orphaned, old
      <3>5. /\ Orphaned(old) \in Pending /\ Orphaned(old).control = old.control
            /\ Orphaned(old).tab = old.tab /\ Orphaned(old).place = 0
        BY <3>3, <3>4 DEF Pending
      <3>6. /\ old.tab \in Stacks /\ Calls(old.control) /\ old.control.kept
            /\ \E z \in ScreensOf[old.tab] : old.control \in Offered[z]
        BY <2>2, <3>2, <3>3 DEF Waits, old
      <3>7. Orphaned(rest[j]) = Orphaned(old)
        BY <3>2 DEF old
      <3> QED BY <3>5, <3>6, <3>7
    <2> QED BY <2>1, <2>2
  <1>5. calls \in [Slots -> Pending] /\ Placeless(calls)
    BY <1>4 DEF Placeless
  <1>6. /\ Shape(nav', in) /\ nav'.stack[t] = <<First[t]>>
        /\ \A u \in Stacks \ {t} : nav'.stack[u] = <<>>
    <2> HIDE DEF calls, t, in
    <2> QED BY <1>2, <1>3, <1>5, ShowingShape
  <1>7. s = "member" => nav'.stack["HomeTab"] = <<"Home">>
    BY <1>6, RootNavigatorKnown, StackFacts
  <1> QED BY <1>6, <1>7, MountingSteady

LEMMA AnsweredMoves ==
  ASSUME NavigatorInv, NEW i \in Slots, nav.calls[i] # NoCall, NEW accepted \in BOOLEAN,
         NEW moves, moves = Moved(nav.calls[i], accepted),
         moves # <<SignOut>>, moves # <<SignIn>>
  PROVE  LET call == nav.calls[i]
             then == Run([nav EXCEPT !.calls[i] = NoCall], call.tab, moves)
         IN  /\ Shape(then, Member) /\ \E at : at \subseteq Entrances /\ Bottoms(nav, then, at)
             /\ moves = <<GoBack>> /\ call.place \notin {0, Len(nav.stack[call.tab])} =>
                   /\ call.place \in 1..(Len(nav.stack[call.tab]) - 1)
                   /\ \/ nav.stack[call.tab][call.place] = "UserProfile"
                      \/ To(call.tab, nav.stack[call.tab][call.place + 1]) \in FromElsewhere
  <1> DEFINE call == nav.calls[i]
             t == call.tab
             rest == [nav EXCEPT !.calls[i] = NoCall]
             then == Run(rest, t, moves)
  <1>1. /\ call \in Pending /\ t \in Stacks /\ call.place \in Nat
        /\ ~call.control.kept => call.place > 0 /\ nav.stack[t] # <<>>
    BY CallUnderWay
  <1>2. PICK s \in ScreensOf[t] :
           /\ call.control \in Offered[s] /\ Asking(s, call.control)
           /\ call.place > 0 =>
                 /\ call.place <= Len(nav.stack[t])
                 /\ call.place < Len(nav.stack[t]) => Covers(t, s, nav.stack[t][call.place + 1])
                 /\ nav.stack[t][call.place] = s
    BY CallUnderWay
  <1>3. Shape(rest, Member) /\ rest.stack = nav.stack /\ s \in Screens
    BY <1>1, CallGone, StackFacts
  <1>4. nav.stack[t] # <<>> => (t \in MainTabs <=> Member)
    BY <1>1 DEF NavigatorInv, Shape
  <1>5. moves = <<>> \/ moves = call.control.moves
    BY DEF Moved
  <1> HIDE DEF rest, call, t
  <1>6. \A n, at : Bottoms(rest, n, at) => Bottoms(nav, n, at)
    BY <1>3 DEF Bottoms
  <1>7. \/ moves = <<>>
        \/ ~call.control.kept /\ moves = <<GoBack>> /\ s \in Closing
        \/ ~call.control.kept /\ moves \in CheckDone /\ s = "AddBook"
        \/ ~call.control.kept /\ moves = <<Here("EmailVerifyPending")>> /\ s = "Register"
    BY <1>2, <1>5 DEF Asking
  <1>8. /\ <<GoBack>> # <<>> /\ <<Here("EmailVerifyPending")>> # <<GoBack>>
        /\ \A m \in CheckDone : m # <<GoBack>>
    BY DEF GoBack, PopToTop, Here, To, CheckDone
  <1>9. CASE moves = <<>>
    <2>1. then = rest
      BY <1>9, RunNone
    <2>2. Bottoms(rest, rest, {})
      BY BottomsStay
    <2> QED BY <1>3, <1>6, <1>8, <1>9, <2>1, <2>2 DEF call, t, rest
  <1>10. CASE ~call.control.kept /\ moves = <<GoBack>> /\ s \in Closing
    <2>1. then = Go(rest, t, GoBack)
      BY <1>10, RunOne
    <2>2. Fits(rest, t, Member, GoBack)
      BY DEF Fits
    <2>3. Shape(then, Member) /\ Bottoms(rest, then, {})
      BY <1>1, <1>3, <1>10, <2>1, <2>2, Going, OpenedByMoves, MemberIsBoolean
    <2>4. ASSUME call.place \notin {0, Len(nav.stack[t])}
          PROVE  /\ call.place \in 1..(Len(nav.stack[t]) - 1)
                 /\ \/ nav.stack[t][call.place] = "UserProfile"
                    \/ To(t, nav.stack[t][call.place + 1]) \in FromElsewhere
      <3>1. Len(nav.stack[t]) \in Nat
        BY <1>1, LenProperties DEF NavigatorInv, Shape
      <3>2. call.place \in 1..(Len(nav.stack[t]) - 1) /\ call.place < Len(nav.stack[t])
        BY <1>1, <1>2, <2>4, <3>1
      <3> QED BY <1>1, <1>2, <1>10, <3>2 DEF Covers
    <2>5. Bottoms(nav, then, {})
      BY <1>6, <2>3
    <2> HIDE DEF then
    <2>6. \E at : at \subseteq Entrances /\ Bottoms(nav, then, at)
      BY <2>5
    <2> QED BY <2>3, <2>4, <2>6 DEF call, t, then, rest
  <1>11. CASE ~call.control.kept /\ moves \in CheckDone /\ s = "AddBook"
    <2>1. PICK m \in {To("ProfileTab", "MyBooks"), To("ProfileTab", "EditBook")} :
             moves = <<PopToTop, m>>
      BY <1>11 DEF CheckDone
    <2> DEFINE mid == Go(rest, t, PopToTop)
    <2>2. then = Go(mid, t, m)
      BY <2>1, RunTwo
    <2>3. Shape(mid, Member) /\ Bottoms(rest, mid, {})
      BY <1>1, <1>3, <1>11, Topping, MemberIsBoolean
    <2>4. mid.stack[t] # <<>>
      BY <1>1, <1>3, <1>11, <2>3 DEF Bottoms
    <2>5. t \in MainTabs
      BY <1>1, <1>2, <1>11 DEF ScreensOf, Stacks, First, MainTabs, AuthStack
    <2>6. Member
      BY <1>1, <1>4, <1>11, <2>5
    <2>7. m \in FromElsewhere
      <3>1. moves = call.control.moves /\ 2 \in DOMAIN moves /\ moves[2] = m
        BY <1>5, <2>1
      <3> QED BY <1>2, <1>3, <3>1, TargetsElsewhere
    <2>8. Fits(mid, t, Member, m) /\ Opened(m) \subseteq Entrances
      <3>1. m \in Doors
        BY DEF Doors
      <3>2. PICK u \in MainTabs : \E x \in ScreensOf[u] : m = To(u, x)
        BY <3>1, DoorsAreEntrances
      <3> QED BY <2>6, <2>7, <3>1, <3>2, DoorsAreEntrances, StackFacts DEF Fits
    <2> HIDE DEF mid, then
    <2>9. Shape(then, Member) /\ Bottoms(mid, then, Opened(m))
      BY <1>1, <2>2, <2>3, <2>4, <2>8, Going, MemberIsBoolean
    <2>10. Bottoms(nav, then, Opened(m))
      BY <1>6, <2>3, <2>9, BottomsThen
    <2>11. moves # <<GoBack>>
      BY <1>8, <1>11
    <2> QED BY <2>8, <2>9, <2>10, <2>11 DEF call, t, then, rest
  <1>12. CASE /\ ~call.control.kept /\ moves = <<Here("EmailVerifyPending")>>
              /\ s = "Register"
    <2> DEFINE m == Here("EmailVerifyPending")
    <2>1. then = Go(rest, t, m)
      BY <1>12, RunOne
    <2>2. t = "Auth"
      BY <1>1, <1>2, <1>12
         DEF ScreensOf, Stacks, First, HomeStack, BrowseStack, ScanStack, MessagesStack,
             ProfileStack
    <2>3. Top(rest, t) \in AuthStack
      <3>1. rest.stack[t] # <<>>
        BY <1>1, <1>3, <1>12
      <3>2. Top(rest, t) \in ScreensOf[t]
        BY <1>1, <1>3, <3>1, TopIsShown, MemberIsBoolean
      <3> QED BY <2>2, <3>2 DEF ScreensOf
    <2>4. Covers(t, Top(rest, t), "EmailVerifyPending")
      BY <2>3 DEF Covers, Closing, AuthStack
    <2>5. "EmailVerifyPending" \in Screens
      BY <2>2, StackFacts DEF ScreensOf, AuthStack, Stacks, First
    <2>6. Fits(rest, t, Member, m)
      BY <2>4, <2>5 DEF Fits
    <2>7. Opened(m) = {}
      BY OpenedByMoves
    <2> HIDE DEF then, m
    <2>8. Shape(then, Member) /\ Bottoms(rest, then, {})
      BY <1>1, <1>3, <1>12, <2>1, <2>6, <2>7, Going, MemberIsBoolean
    <2>9. \E at : at \subseteq Entrances /\ Bottoms(nav, then, at)
      BY <1>6, <2>8
    <2>10. moves # <<GoBack>>
      BY <1>8, <1>12
    <2> QED BY <2>8, <2>9, <2>10 DEF call, t, then, rest
  <1> QED BY <1>7, <1>9, <1>10, <1>11, <1>12

LEMMA AnswerSteady == ASSUME NavigatorInv, Answer PROVE Steady
  <1>1. PICK i \in Slots, accepted \in BOOLEAN : nav.calls[i] # NoCall /\ Answered(i, accepted)
    BY DEF Answer
  <1> DEFINE call  == nav.calls[i]
             rest  == [nav EXCEPT !.calls[i] = NoCall]
             moves == Moved(call, accepted)
             then  == Run(rest, call.tab, moves)
  <1>2. <<SignOut>> # <<SignIn>>
    BY DEF SignOut, SignIn, Here, To
  <1> DEFINE left == rest.calls
  <1>0. left \in [Slots -> Pending] /\ \A j \in Slots : left[j] \in {NoCall, nav.calls[j]}
    BY CallGone
  <1>3. CASE moves = <<SignOut>>
    <2>1. Shows("guest") /\ nav' = Remounted("guest", left)
      BY <1>1, <1>2, <1>3 DEF Answered
    <2> HIDE DEF left
    <2> QED BY <1>0, <2>1, SessionAnswered
  <1>4. CASE moves = <<SignIn>>
    <2>1. PICK s \in {"newcomer", "member"} : Shows(s) /\ nav' = Remounted(s, left)
      BY <1>1, <1>2, <1>4 DEF Answered
    <2> HIDE DEF left
    <2> QED BY <1>0, <2>1, SessionAnswered
  <1>5. CASE moves # <<SignOut>> /\ moves # <<SignIn>>
    <2>1. /\ nav' = then
          /\ lapse' = IF moves = <<GoBack>> /\ call.place \notin {0, Len(nav.stack[call.tab])}
                      THEN Closed(nav.stack[call.tab][call.place],
                                  nav.stack[call.tab][call.place + 1], call.tab)
                      ELSE NoLapse
          /\ session' = session /\ verified' = verified /\ linked' = linked
      BY <1>1, <1>5 DEF Answered
    <2>2. /\ Shape(then, Member) /\ \E at : at \subseteq Entrances /\ Bottoms(nav, then, at)
          /\ moves = <<GoBack>> /\ call.place \notin {0, Len(nav.stack[call.tab])} =>
                /\ call.place \in 1..(Len(nav.stack[call.tab]) - 1)
                /\ \/ nav.stack[call.tab][call.place] = "UserProfile"
                   \/ To(call.tab, nav.stack[call.tab][call.place + 1]) \in FromElsewhere
      BY <1>1, <1>5, AnsweredMoves
    <2> HIDE DEF then, moves, call, rest
    <2>3. Shape(nav', Member)
      BY <2>1, <2>2
    <2>4. HomeBelow' /\ RootWithinReach'
      BY <2>1, <2>2, ReachKept
    <2>5. NavigatorInv'
      <3>1. Member' = Member
        BY <2>1 DEF Member
      <3>2. Shape(nav', Member')
        BY <2>3, <3>1
      <3> QED BY <2>1, <2>4, <3>2 DEF NavigatorInv
    <2>6. LinksLand' /\ AnswersCloseTheirOwn'
      <3>1. CASE moves = <<GoBack>> /\ call.place \notin {0, Len(nav.stack[call.tab])}
        <4>1. lapse' = <<"closed", nav.stack[call.tab][call.place],
                         nav.stack[call.tab][call.place + 1], call.tab>>
          BY <2>1, <3>1 DEF Closed
        <4>2. /\ Head(lapse') = "closed" /\ lapse'[2] = nav.stack[call.tab][call.place]
              /\ lapse'[3] = nav.stack[call.tab][call.place + 1] /\ lapse'[4] = call.tab
          BY <4>1
        <4> QED BY <2>2, <3>1, <4>2 DEF LinksLand, AnswersCloseTheirOwn
      <3>2. CASE ~(moves = <<GoBack>> /\ call.place \notin {0, Len(nav.stack[call.tab])})
        <4>1. Head(lapse') = "none"
          BY <2>1, <3>2 DEF NoLapse
        <4> QED BY <4>1 DEF LinksLand, AnswersCloseTheirOwn
      <3> QED BY <3>1, <3>2
    <2> QED BY <2>5, <2>6 DEF Steady
  <1> QED BY <1>3, <1>4, <1>5

-----------------------------------------------------------------------------
(* The theorems. *)

LEMMA NextSteady ==
  ASSUME NavigatorInv, LinksLand, AnswersCloseTheirOwn, [Next]_vars PROVE Steady
  <1>1. CASE Next
    BY <1>1, HydratedSteady, StartedByLinkSteady, PressesSteady, UsesHeaderSteady,
       FloatingTabBarSteady, HardwareBackSteady, NotificationSteady, LinkFollowedSteady,
       AnswerSteady DEF Next
  <1>2. CASE UNCHANGED vars
    <2>1. NavigatorInv'
      BY <1>2, SameStands DEF vars, Stays
    <2>2. lapse' = lapse
      BY <1>2 DEF vars
    <2> QED BY <2>1, <2>2 DEF Steady, LinksLand, AnswersCloseTheirOwn
  <1> QED BY <1>1, <1>2

\* The shape of the navigator, in every state: the stacks hold screens they know, only the
\* mounted navigator has any, and every call under way has its screen where it says.
THEOREM NavigatorStands ==
  Spec => [](NavigatorInv /\ LinksLand /\ AnswersCloseTheirOwn)
  <1>1. Init => NavigatorInv /\ LinksLand /\ AnswersCloseTheirOwn
    BY InitSteady
  <1>2. (NavigatorInv /\ LinksLand /\ AnswersCloseTheirOwn) /\ [Next]_vars
           => (NavigatorInv /\ LinksLand /\ AnswersCloseTheirOwn)'
    BY NextSteady DEF Steady
  <1> QED BY <1>1, <1>2, PTL DEF Spec

\* Every control, header, tab, notification and link leads to a screen that the navigator
\* knows, but for the known dead links.
THEOREM EveryLinkLands == Spec => []LinksLand
  BY NavigatorStands, PTL

\* A tab keeps its list at the bottom, whatever opened it first, but for the profile and the
\* exchanges opened by a notification.
THEOREM RootsStayWithinReach == Spec => []RootWithinReach
  <1>1. NavigatorInv => RootWithinReach
    BY DEF NavigatorInv
  <1> QED BY <1>1, NavigatorStands, PTL

\* A form that closes when the server has accepted it closes itself, unless something from
\* elsewhere covers it, or it is the profile of a user who is being blocked.
THEOREM FormsCloseThemselves == Spec => []AnswersCloseTheirOwn
  BY NavigatorStands, PTL

LEMMA TypeFollows == NavigatorInv => TypeOK
  <1> SUFFICES ASSUME NavigatorInv PROVE TypeOK
    OBVIOUS
  <1>1. Shape(nav, Member) /\ nav \in Navigators
    BY DEF NavigatorInv, Shape
  <1>2. ASSUME NEW i \in Slots, nav.calls[i] # NoCall
        PROVE  nav.calls[i].place \in 0..Len(nav.stack[nav.calls[i].tab])
    <2> DEFINE call == nav.calls[i]
    <2>1. call.place \in Nat /\ Waits(nav.stack, call)
      BY <1>1, <1>2 DEF Shape, Navigators, Pending
    <2> HIDE DEF call
    <2>2. call.tab \in Stacks /\ (call.place > 0 => call.place <= Len(nav.stack[call.tab]))
      BY <2>1 DEF Waits
    <2>3. Len(nav.stack[call.tab]) \in Nat
      BY <1>1, <2>2, LenProperties DEF Shape
    <2>4. call.place \in 0..Len(nav.stack[call.tab])
      BY <2>1, <2>2, <2>3
    <2> QED BY <2>4 DEF call
  <1> QED BY <1>1, <1>2 DEF NavigatorInv, TypeOK, Shape, Navigators, Member

\* The navigator keeps its types.
THEOREM NavigatorTypes == Spec => []TypeOK
  BY TypeFollows, NavigatorStands, PTL

\* What a guest or a newcomer sees leads somewhere.
LEMMA GuestsAreLedOut ==
  \A s \in (AuthStack \union {"Onboarding"}) \ {"PasswordResetConfirm"} : LedOut[s]
  <1> SUFFICES ASSUME NEW s \in (AuthStack \union {"Onboarding"}) \ {"PasswordResetConfirm"},
                      NEW d \in Data, d.load # "loading"
               PROVE  \E c \in View(s, d) : c.moves # <<>>
    BY DEF LedOut, Screens, ScreensOf, Stacks, First
  <1>1. \A x : Open(x).moves # <<>>
    BY DEF Open, Press
  <1>2. Back.moves # <<>>
    BY DEF Back, Press
  <1>3. \A hook, m : Kept(Once(hook, <<m>>)).moves # <<>>
    BY DEF Kept, Once, Call, Press
  <1>4. CASE s = "Login"
    <2>1. Open("Register") \in View(s, d)
      BY <1>4 DEF View, LoginScreen
    <2> QED BY <1>1, <2>1
  <1>5. CASE s = "Register"
    <2>1. Open("Login") \in View(s, d)
      BY <1>5 DEF View, RegisterScreen
    <2> QED BY <1>1, <2>1
  <1>6. CASE s = "ForgotPassword"
    <2>1. Open("Login") \in View(s, d) \/ Back \in View(s, d)
      BY <1>6 DEF View, ForgotPasswordScreen
    <2> QED BY <1>1, <1>2, <2>1
  <1>7. CASE s = "EmailVerifyPending"
    <2>1. Open("Login") \in View(s, d)
      BY <1>7 DEF View, EmailVerifyPendingScreen
    <2> QED BY <1>1, <2>1
  <1>8. CASE s = "EmailVerifyConfirm"
    <2>1. Open("Login") \in EmailVerifyConfirmScreen(d)
      BY DEF EmailVerifyConfirmScreen
    <2>2. View(s, d) = EmailVerifyConfirmScreen(d)
      BY <1>8 DEF View
    <2> QED BY <1>1, <2>1, <2>2
  <1>9. CASE s = "Onboarding"
    <2>1. Kept(Once("meOnboardingComplete", <<SignIn>>)) \in View(s, d)
      BY <1>9 DEF View, OnboardingScreen, OnboardingComplete, OnboardingSkip
    <2> QED BY <1>3, <2>1
  <1> QED BY <1>4, <1>5, <1>6, <1>7, <1>8, <1>9 DEF AuthStack

LEMMA ChatLeadsBack == LedBack["Chat"]
  <1>1. "Chat" \in Screens
    BY DEF Screens, ScreensOf, Stacks, First, MessagesStack
  <1>2. \A d \in Data : Back \in View("Chat", d)
    BY DEF View, ChatScreen, ChatHeader
  <1> QED BY <1>1, <1>2 DEF LedBack

LEMMA WayOutFollows == NavigatorInv => WayOut
  <1> SUFFICES ASSUME NavigatorInv, Up, linked # "cold"
               PROVE  \/ computeVisibility(ShownTab, ShownScreen)
                      \/ Header(ShownTab, ShownScreen)
                            \intersect {HeaderAvatar, HeaderHomeButton} # {}
                      \/ /\ LedBack[ShownScreen]
                            \/ HeaderBackButton \in Header(ShownTab, ShownScreen)
                         /\ Len(nav.stack[ShownTab]) > 1 \/ ShownTab \in MainTabs \ {"HomeTab"}
                      \/ /\ ShownTab \notin MainTabs
                         /\ LedOut[ShownScreen] \/ ShownScreen = "PasswordResetConfirm"
    BY DEF WayOut
  <1>1. /\ ShownTab \in Stacks /\ nav.stack[ShownTab] # <<>> /\ (ShownTab \in MainTabs <=> Member)
        /\ ShownScreen \in ScreensOf[ShownTab]
    BY Shown
  <1>2. CASE ~Member
    <2>1. ShownTab \in {"Auth", "Onboarding"}
      BY <1>1, <1>2 DEF Stacks, First, MainTabs
    <2>2. ShownScreen \in AuthStack \union {"Onboarding"}
      BY <1>1, <2>1 DEF ScreensOf
    <2> QED BY <1>1, <1>2, <2>2, GuestsAreLedOut
  <1>3. CASE Member /\ ShownScreen = "Chat"
    <2>1. ShownTab \in MainTabs \ {"HomeTab"}
      BY <1>1, <1>3 DEF ScreensOf, HomeStack
    <2> QED BY <1>3, <2>1, ChatLeadsBack
  <1>4. CASE Member /\ ShownScreen # "Chat" /\ ShownScreen = First[ShownTab]
    <2>1. HeaderAvatar \in Header(ShownTab, ShownScreen)
             \/ HeaderHomeButton \in Header(ShownTab, ShownScreen)
      BY <1>1, <1>4 DEF Header, When
    <2> QED BY <2>1
  <1>5. CASE Member /\ ShownScreen # "Chat" /\ ShownScreen # First[ShownTab]
    <2>1. HeaderBackButton \in Header(ShownTab, ShownScreen)
      BY <1>1, <1>5 DEF Header, When
    <2>2. Len(nav.stack[ShownTab]) > 1 \/ ShownTab # "HomeTab"
      <3> SUFFICES ASSUME ShownTab = "HomeTab" PROVE Len(nav.stack["HomeTab"]) > 1
        OBVIOUS
      <3>1. nav.stack["HomeTab"][1] = "Home" /\ First["HomeTab"] = "Home"
        BY <1>5, StackFacts DEF NavigatorInv, HomeBelow
      <3>2. nav.stack["HomeTab"][Len(nav.stack["HomeTab"])] # "Home"
        BY <1>5, <3>1, Shown DEF Top
      <3>3. Len(nav.stack["HomeTab"]) \in Nat \ {0}
        BY <1>1, TopIsShown, MemberIsBoolean DEF NavigatorInv
      <3> QED BY <3>1, <3>2, <3>3
    <2> QED BY <1>1, <1>5, <2>1, <2>2
  <1> QED BY <1>2, <1>3, <1>4, <1>5

\* Wherever the user gets to, something on the screen leads out of it.
THEOREM NoDeadEnds == Spec => []WayOut
  BY WayOutFollows, NavigatorStands, PTL

=============================================================================
