-------------------------- MODULE MobileAccountScreens ---------------------------
(***************************************************************************)
(* The mobile app's screens of the account: signing in, onboarding, the     *)
(* profile and its settings.                                                *)
(***************************************************************************)
EXTENDS MobileMessageScreens

-----------------------------------------------------------------------------
(* features/auth: what a guest sees *)

useGoogleSignIn == Kept(Once("useGoogleSignIn", <<SignIn>>))
useAppleSignIn  == Kept(Once("useAppleSignIn", <<SignIn>>))

SocialAuthSection == {useGoogleSignIn, useAppleSignIn}

\* The banner is there while the answer of a deletion keeps its cancel token.
CancelDeletion(d) == When(d.mine, {Once("useCancelDeletion", <<>>)})

LoginScreen(d) ==
    {Kept(Once("useLogin", <<SignIn>>)), Open("ForgotPassword"), Open("Register")}
        \union CancelDeletion(d) \union SocialAuthSection

RegisterScreen(d) ==
    {Once("useRegister", <<Here("EmailVerifyPending")>>), Open("Login")}
        \union SocialAuthSection

\* Once it is sent, another one can be.
ForgotPasswordScreen(d) ==
    IF d.mine THEN {Open("Login"), Narrow} ELSE {Back, Once("useForgotPassword", <<>>)}

PasswordResetConfirmScreen(d) ==
    CASE d.mine                        -> {Open("Login")}
      [] ~d.mine /\ d.load = "missing" -> {Open("Login"), Open("ForgotPassword")}
      [] OTHER                         -> {Once("usePasswordResetConfirm", <<>>)}

EmailVerifyPendingScreen(d) == {Open("Login")} \union When(~d.mine, {Once("resend", <<>>)})

\* The token of the link is sent when the screen opens.
EmailVerifyConfirmScreen(d) ==
    CASE d.load = "loading" -> {}
      [] d.load = "ready"   -> {Open("Login")}
      [] OTHER              -> {Open("Login"), Open("EmailVerifyPending")}

\* The screen's own onSuccess signs out: it does not if the screen was left meanwhile.
ChangePasswordScreen(d) == {Once("useChangePassword", <<SignOut>>)}

-----------------------------------------------------------------------------
(* OnboardingScreen *)

OnboardingGps         == {Once("meLocation", <<>>)}
OnboardingPostcode(d) == When(d.filled, {Once("meLocation", <<>>)})
OnboardingComplete    == {Kept(Once("meOnboardingComplete", <<SignIn>>))}
OnboardingSkip        == OnboardingComplete

\* With a location it can be completed, without one it can be skipped.
OnboardingScreen(d) ==
    IF d.mine THEN OnboardingComplete
    ELSE OnboardingGps \union OnboardingPostcode(d) \union OnboardingSkip

-----------------------------------------------------------------------------
(* features/profile *)

\* The hook's own onSettled, whatever the server answered and wherever the user is by then.
useLogout == Kept(Call("useLogout", <<SignOut>>))

MyProfileScreen(d) ==
    {Open("EditProfile"), Open("MyBooks"), Open("Wishlist"), Open("MyReviews"),
     Open("Settings"), useLogout}

\* Mutant: the user's reviews can be opened while the profile is saved.
EditProfileSubmitOpens(d) ==
    When(d.filled, {Once("useUpdateProfile", <<GoBack>>), Open("MyReviews")})

\* The username cannot be changed; the button waits for a change.
EditProfileSubmit(d) == When(d.filled, {Once("useUpdateProfile", <<GoBack>>)})
EditProfileScreen(d) == EditProfileSubmit(d)

UserProfileActions(d) ==
    {Open("UserReviews")} \union ReportSheet(d)
        \union When(~d.mine, {Once("useBlockUser", <<GoBack>>)})

\* A profile that failed to load looks like one that is gone.
UserProfileScreen(d) ==
    IF d.load = "ready" THEN UserProfileActions(d) ELSE {}

AboutScreen      == {Leave}
AppearanceScreen == {Narrow}
LanguageScreen   == {Narrow}

AccountSection  == {Open("NotificationPreferences"), Open("BlockedUsers")}
GeneralSection  == {Open("Appearance"), Open("Language"), Open("About")}
SecuritySection(d) == When(d.mine, {Open("ChangePassword")})
PrivacySection  == {Once("useProfileVisibility", <<>>)}
ManualLocationSheet(d) == When(d.filled, {Once("useLocationManager", <<>>)})
LocationSection == {Once("useLocationManager", <<>>), Once("useSearchRadius", <<>>)}
DeleteAccountSheet(d) == When(d.filled, {Kept(Once("useDeleteAccount", <<SignOut>>))})

SettingsFooter  == {useLogout, Once("useDataExport", <<>>)}

SettingsScreen(d) ==
    AccountSection \union PrivacySection \union LocationSection \union SecuritySection(d)
        \union GeneralSection \union SettingsFooter \union DeleteAccountSheet(d)
        \union ManualLocationSheet(d)

=============================================================================
