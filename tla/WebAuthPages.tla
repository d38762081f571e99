------------------------------ MODULE WebAuthPages ------------------------------
(***************************************************************************)
(* The pages of the web app a guest signs in with: features/auth/pages and  *)
(* the forms they are made of, and the links every page uses.  As in the    *)
(* mobile app (Controls), a page is the set of controls it offers for the   *)
(* data it shows; moves name the page of routes/config/paths.ts.            *)
(***************************************************************************)
EXTENDS Controls

-----------------------------------------------------------------------------
(* Links *)

\* The path with the language of the address in front, and the path as it is.
LocaleLink(page) == OpenIn("locale", page)
Link(page)       == OpenIn("bare", page)

\* useLocaleNavigate, with and without replace.
navigate(page) == To("locale", page)
Replaced(page) == To("replaced", page)

\* The action of an empty list is a plain link.
EmptyPlaceholder(page) == {Link(page)}

-----------------------------------------------------------------------------
(* AuthPage: login, register and forgot password are views of one page. *)

AuthSplitPanel == {LocaleLink("HOME")}

navigateTo(view) == Press(<<Replaced(view)>>)

\* Google's own pages, on the server's address.
SocialLogin == {Leave}

\* The answer signs in and then leads on, to the page that sent the user here if one did.
handleLoginSubmit == Kept(Once("login", <<SignIn, Replaced("RETURN")>>))

LoginForm(d) ==
    When(d.filled, {handleLoginSubmit})
        \union {navigateTo("REGISTER"), navigateTo("FORGOT_PASSWORD")} \union SocialLogin

RegisterForm(d) ==
    When(d.filled, {Kept(Once("register", <<Replaced("LOGIN")>>))})
        \union {navigateTo("LOGIN")} \union SocialLogin

\* Mine: the email has been sent.
ForgotPasswordForm(d) ==
    {navigateTo("LOGIN")}
        \union When(d.filled /\ ~d.mine, {Once("requestPasswordReset", <<>>)})

AuthPage(view, d) ==
    AuthSplitPanel \union
    CASE view = "REGISTER"        -> RegisterForm(d)
      [] view = "FORGOT_PASSWORD" -> ForgotPasswordForm(d)
      [] OTHER                    -> LoginForm(d)

-----------------------------------------------------------------------------
(* The pages that stand alone, and onboarding, which only guests are let in to. *)

OnboardingPage(d) ==
    {LocaleLink("HOME"), Back}
        \union When(d.filled, {Kept(Once("onboarding", <<Replaced("HOME")>>))})

\* The one-time token of the address is sent when the page opens; without one, or when it
\* is refused, the error page is shown.
SocialAuthCallbackPage(d) ==
    IF d.load = "missing" THEN {Press(<<Replaced("SOCIAL_AUTH_ERROR")>>)}
    ELSE {Kept(Once("exchangeSocialToken", <<SignIn, Replaced("HOME")>>)),
          Kept(Once("exchangeSocialToken", <<Replaced("SOCIAL_AUTH_ERROR")>>))}

SocialAuthErrorPage == {Link("REGISTER")}

EmailVerifyConfirmPage(d) ==
    CASE d.load = "loading" -> {}
      [] d.load = "ready"   -> {Link("LOGIN")}
      [] OTHER              -> {Link("LOGIN"), Link("EMAIL_VERIFY_PENDING")}

EmailVerifyPendingPage(d) ==
    {Link("LOGIN")} \union When(~d.mine, {Once("resendVerificationEmail", <<>>)})

PasswordResetConfirmPage(d) ==
    CASE d.mine                        -> {Link("LOGIN")}
      [] ~d.mine /\ d.load = "missing" -> {Link("LOGIN"), Link("FORGOT_PASSWORD")}
      [] OTHER                         -> When(d.filled, {Once("confirmPasswordReset", <<>>)})

=============================================================================
