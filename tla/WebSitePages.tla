------------------------------ MODULE WebSitePages ------------------------------
(***************************************************************************)
(* The web app's pages that everybody sees, what stands around every page   *)
(* (components/layout), and the pages of the account: features/profile,     *)
(* features/notifications and features/trust-safety.                        *)
(***************************************************************************)
EXTENDS WebAuthPages

-----------------------------------------------------------------------------
(* Header and footer. in: the user is signed in. *)

HeaderLinks == {LocaleLink("HOME"), LocaleLink("BROWSE"), LocaleLink("HOW_IT_WORKS"),
                LocaleLink("COMMUNITY")}

MobileNavDrawer(in) ==
    HeaderLinks \union When(~in, {LocaleLink("LOGIN")})

\* The notices' own links: an exchange, the page of a user who has rated, and a page that
\* there is not ("/discover/", for a request that was declined or has expired).
NotificationRow   == {Press(<<navigate(p)>>) : p \in {"EXCHANGE_DETAIL", "PUBLIC_PROFILE", "DISCOVER"}}
NotificationPanel == NotificationRow \union {Once("useMarkAllRead", <<>>)}

\* Mutant: a plain link.
ProfileDropdownBare ==
    {LocaleLink("PROFILE"), Link("MY_SHELF"), LocaleLink("EXCHANGES"), LocaleLink("SETTINGS")}

\* The menu stays while the pages change under it.
handleLogout    == Kept(Call("logout", <<SignOut, navigate("HOME")>>))
ProfileDropdown ==
    {LocaleLink("PROFILE"), LocaleLink("MY_SHELF"), LocaleLink("EXCHANGES"), LocaleLink("SETTINGS"),
     handleLogout}

HeaderBar(in) ==
    MobileNavDrawer(in) \union When(in, NotificationPanel \union ProfileDropdown)

Footer == {LocaleLink("SUPPORT"), LocaleLink("PRIVACY_POLICY"), LocaleLink("TERMS_OF_SERVICE"),
           LocaleLink("ACCOUNT_DELETION")}

-----------------------------------------------------------------------------
(* Pages for everybody *)

BookCards == {LocaleLink("BOOK_DETAIL")}

\* A search, or one of the tags below it; an empty one leads nowhere.
HomeSearch == {Press(<<navigate("CATALOGUE")>>)}

RecentlyAdded(d) ==
    {LocaleLink("CATALOGUE")} \union
    CASE d.load = "failed"  -> {Retry}
      [] d.load = "loading" -> {}
      [] OTHER              -> When(~d.empty, BookCards)

HomeCta(in) ==
    IF in THEN {LocaleLink("CATALOGUE"), LocaleLink("ADD_BOOK")}
    ELSE {LocaleLink("REGISTER"), LocaleLink("HOW_IT_WORKS")}

HomePage(in, d) == HomeSearch \union RecentlyAdded(d) \union HomeCta(in)

BrowseSearch == {Press(<<navigate("CATALOGUE")>>)}
GenrePills   == {Narrow}

\* Empty: also when no book has the genres that were picked. The page has a text of its own
\* for that, and a button to clear them, which it never comes to: the list that it tests for
\* being empty first is the filtered one.
BrowseRecent(in, d) ==
    {LocaleLink("CATALOGUE")} \union GenrePills \union
    CASE d.load = "failed"  -> {Retry}
      [] d.load = "loading" -> {}
      [] OTHER -> IF d.empty THEN {LocaleLink(IF in THEN "ADD_BOOK" ELSE "REGISTER")}
                  ELSE BookCards

\* Missing: the browser does not say where the user is.
BrowseNearby(d) ==
    {LocaleLink("MAP")} \union
    CASE d.load = "missing" -> {}
      [] d.load = "failed"  -> {Retry}
      [] OTHER              -> BookCards

BrowseLandingPage(in, d) == BrowseSearch \union BrowseRecent(in, d) \union BrowseNearby(d)

HowItWorksPage(in) ==
    IF in THEN {LocaleLink("CATALOGUE"), LocaleLink("ADD_BOOK")}
    ELSE {LocaleLink("REGISTER"), LocaleLink("BROWSE")}

CommunityCta(in) ==
    IF in THEN {LocaleLink("CATALOGUE")} ELSE {LocaleLink("REGISTER"), LocaleLink("BROWSE")}
CommunityHero          == {Narrow}
CommunityFaq           == {Narrow}
CommunityPage(in)      == CommunityHero \union CommunityFaq \union CommunityCta(in)

SupportPage ==
    {LocaleLink("HOW_IT_WORKS"), LocaleLink("ACCOUNT_DELETION"), LocaleLink("PRIVACY_POLICY"),
     LocaleLink("TERMS_OF_SERVICE"), Leave}

AccountDeletionPage == {LocaleLink("PRIVACY_POLICY"), Leave}
PrivacyPolicyPage   == {Leave}
TermsOfServicePage  == {Leave}
NotFoundPage        == {Link("HOME")}

\* The token of the link is sent when the page opens.
UnsubscribePage(d) == When(d.load # "loading", {Link("HOME")})

-----------------------------------------------------------------------------
(* The account *)

ProfilePage(d) == When(d.load = "ready", {Press(<<navigate("PROFILE_EDIT")>>)})

GenrePicker  == {Narrow}
AvatarUpload == {Narrow}

\* The button waits for a change.
EditProfileForm(d) ==
    GenrePicker \union AvatarUpload
        \union When(d.filled, {Once("useUpdateProfile", <<navigate("PROFILE")>>)})

EditProfilePage(d) ==
    When(d.load = "ready", {Press(<<navigate("PROFILE")>>)} \union EditProfileForm(d))

BlockUserButton(d) == When(~d.mine, {Once("useBlockUser", <<>>)})
UnblockButton      == {Once("useUnblockUser", <<>>)}
ReportDialog(d)    == When(d.filled /\ ~d.mine, {Once("useCreateReport", <<>>)})
RatingsList        == {Narrow, Retry}

\* Mine: the user's own page, without the block and the report.
PublicProfilePage(d) ==
    When(d.load = "ready",
         BlockUserButton(d) \union ReportDialog(d) \union RatingsList
             \union When(~d.empty, {LocaleLink("BOOK_DETAIL")}))

LocationSection                == {Once("useSetLocation", <<>>)}
NotificationPreferencesSection == {Once("usePatchNotificationPreferences", <<>>)}
PrivacySection                 == {Once("useUpdateProfile", <<>>)}
PasswordChangeSection(d)       == When(d.filled, {Once("changePassword", <<>>)})
BlockedUsersList(d)            == When(~d.empty, UnblockButton)
DataExportButton               == {Once("useDataExport", <<>>)}
CancelDeletion(d)              == When(d.mine, {Once("cancelDeletion", <<>>)})

\* The home page is loaded anew, where the session is not restored. The token that the
\* deletion can be cancelled with is kept by the same callback: it is lost if the page was
\* left meanwhile.
DeleteAccountDialog(d) ==
    When(d.filled, {Once("useDeleteAccount", <<To("bare", "HOME"), SignOut>>)})

SettingsPage(d) ==
    LocationSection \union NotificationPreferencesSection \union PrivacySection
        \union PasswordChangeSection(d) \union BlockedUsersList(d) \union DataExportButton
        \union CancelDeletion(d) \union DeleteAccountDialog(d)

=============================================================================
