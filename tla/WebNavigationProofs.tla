--------------------------- MODULE WebNavigationProofs ---------------------------
(***************************************************************************)
(* Proofs about the router of the web app (WebNavigation), for any          *)
(* languages, any length of the history and any number of calls under way:  *)
(* every control leads to the page it names, but for the links known to     *)
(* lead elsewhere, and no answer takes a user away from the page they have  *)
(* gone on to, but for those that lead into the app or out of it.           *)
(***************************************************************************)
EXTENDS WebNavigation, SequenceTheorems, FiniteSetTheorems, TLAPS

-----------------------------------------------------------------------------
(* The addresses of the pages. *)

\* The parts of the addresses.
Words ==
    {ID, "1", "login", "register", "forgot-password", "password-reset", "confirm", "onboarding",
     "profile", "edit", "settings", "my-shelf", "books", "add", "browse", "catalogue", "map",
     "exchanges", "incoming", "privacy-policy", "terms-of-service", "account-deletion", "support",
     "how-it-works", "community", "notifications", "unsubscribe", "auth", "email",
     "verify-pending", "verify", "verified", "verify-error", "discover", "account",
     "cancel-deletion"}

\* The parts of a page's pattern, how many and which.
Size(p) == Len(PATHS[p])
Part(p, i) == PATHS[p][i]

\* What stands for it in an address.
Written(p, i) == IF Part(p, i) = ID THEN "1" ELSE Part(p, i)

LEMMA PagesAre ==
  \A p \in Pages :
    \/ p = "HOME"
    \/ p = "LOGIN"
    \/ p = "REGISTER"
    \/ p = "FORGOT_PASSWORD"
    \/ p = "PASSWORD_RESET_CONFIRM"
    \/ p = "ONBOARDING"
    \/ p = "PROFILE"
    \/ p = "PROFILE_EDIT"
    \/ p = "PUBLIC_PROFILE"
    \/ p = "SETTINGS"
    \/ p = "MY_SHELF"
    \/ p = "ADD_BOOK"
    \/ p = "BOOK_DETAIL"
    \/ p = "EDIT_BOOK"
    \/ p = "BROWSE"
    \/ p = "CATALOGUE"
    \/ p = "MAP"
    \/ p = "EXCHANGES"
    \/ p = "EXCHANGE_DETAIL"
    \/ p = "INCOMING_REQUESTS"
    \/ p = "PRIVACY_POLICY"
    \/ p = "TERMS_OF_SERVICE"
    \/ p = "ACCOUNT_DELETION"
    \/ p = "SUPPORT"
    \/ p = "HOW_IT_WORKS"
    \/ p = "COMMUNITY"
    \/ p = "NOTIFICATION_UNSUBSCRIBE"
    \/ p = "EMAIL_VERIFY_PENDING"
    \/ p = "EMAIL_VERIFY_CONFIRM"
    \/ p = "SOCIAL_AUTH_CALLBACK"
    \/ p = "SOCIAL_AUTH_ERROR"
  BY DEF Pages, PATHS

LEMMA Patterns ==
  /\ Size("HOME") = 0
  /\ Size("LOGIN") = 1 /\ Part("LOGIN", 1) = "login"
  /\ Size("REGISTER") = 1 /\ Part("REGISTER", 1) = "register"
  /\ Size("FORGOT_PASSWORD") = 1 /\ Part("FORGOT_PASSWORD", 1) = "forgot-password"
  /\ Size("PASSWORD_RESET_CONFIRM") = 2 /\ Part("PASSWORD_RESET_CONFIRM", 1) = "password-reset"
     /\ Part("PASSWORD_RESET_CONFIRM", 2) = "confirm"
  /\ Size("ONBOARDING") = 1 /\ Part("ONBOARDING", 1) = "onboarding"
  /\ Size("PROFILE") = 1 /\ Part("PROFILE", 1) = "profile"
  /\ Size("PROFILE_EDIT") = 2 /\ Part("PROFILE_EDIT", 1) = "profile"
     /\ Part("PROFILE_EDIT", 2) = "edit"
  /\ Size("PUBLIC_PROFILE") = 2 /\ Part("PUBLIC_PROFILE", 1) = "profile"
     /\ Part("PUBLIC_PROFILE", 2) = ID
  /\ Size("SETTINGS") = 1 /\ Part("SETTINGS", 1) = "settings"
  /\ Size("MY_SHELF") = 1 /\ Part("MY_SHELF", 1) = "my-shelf"
  /\ Size("ADD_BOOK") = 2 /\ Part("ADD_BOOK", 1) = "books" /\ Part("ADD_BOOK", 2) = "add"
  /\ Size("BOOK_DETAIL") = 2 /\ Part("BOOK_DETAIL", 1) = "books" /\ Part("BOOK_DETAIL", 2) = ID
  /\ Size("EDIT_BOOK") = 3 /\ Part("EDIT_BOOK", 1) = "books" /\ Part("EDIT_BOOK", 2) = ID
     /\ Part("EDIT_BOOK", 3) = "edit"
  /\ Size("BROWSE") = 1 /\ Part("BROWSE", 1) = "browse"
  /\ Size("CATALOGUE") = 1 /\ Part("CATALOGUE", 1) = "catalogue"
  /\ Size("MAP") = 1 /\ Part("MAP", 1) = "map"
  /\ Size("EXCHANGES") = 1 /\ Part("EXCHANGES", 1) = "exchanges"
  /\ Size("EXCHANGE_DETAIL") = 2 /\ Part("EXCHANGE_DETAIL", 1) = "exchanges"
     /\ Part("EXCHANGE_DETAIL", 2) = ID
  /\ Size("INCOMING_REQUESTS") = 2 /\ Part("INCOMING_REQUESTS", 1) = "exchanges"
     /\ Part("INCOMING_REQUESTS", 2) = "incoming"
  /\ Size("PRIVACY_POLICY") = 1 /\ Part("PRIVACY_POLICY", 1) = "privacy-policy"
  /\ Size("TERMS_OF_SERVICE") = 1 /\ Part("TERMS_OF_SERVICE", 1) = "terms-of-service"
  /\ Size("ACCOUNT_DELETION") = 1 /\ Part("ACCOUNT_DELETION", 1) = "account-deletion"
  /\ Size("SUPPORT") = 1 /\ Part("SUPPORT", 1) = "support"
  /\ Size("HOW_IT_WORKS") = 1 /\ Part("HOW_IT_WORKS", 1) = "how-it-works"
  /\ Size("COMMUNITY") = 1 /\ Part("COMMUNITY", 1) = "community"
  /\ Size("NOTIFICATION_UNSUBSCRIBE") = 3 /\ Part("NOTIFICATION_UNSUBSCRIBE", 1) = "notifications"
     /\ Part("NOTIFICATION_UNSUBSCRIBE", 2) = "unsubscribe"
     /\ Part("NOTIFICATION_UNSUBSCRIBE", 3) = ID
  /\ Size("EMAIL_VERIFY_PENDING") = 3 /\ Part("EMAIL_VERIFY_PENDING", 1) = "auth"
     /\ Part("EMAIL_VERIFY_PENDING", 2) = "email"
     /\ Part("EMAIL_VERIFY_PENDING", 3) = "verify-pending"
  /\ Size("EMAIL_VERIFY_CONFIRM") = 3 /\ Part("EMAIL_VERIFY_CONFIRM", 1) = "auth"
     /\ Part("EMAIL_VERIFY_CONFIRM", 2) = "email" /\ Part("EMAIL_VERIFY_CONFIRM", 3) = "verify"
  /\ Size("SOCIAL_AUTH_CALLBACK") = 2 /\ Part("SOCIAL_AUTH_CALLBACK", 1) = "auth"
     /\ Part("SOCIAL_AUTH_CALLBACK", 2) = "verified"
  /\ Size("SOCIAL_AUTH_ERROR") = 2 /\ Part("SOCIAL_AUTH_ERROR", 1) = "auth"
     /\ Part("SOCIAL_AUTH_ERROR", 2) = "verify-error"
  BY DEF PATHS, Size, Part

LEMMA PatternIsSequence ==
  \A p \in Pages : Size(p) \in {0, 1, 2, 3} /\ DOMAIN PATHS[p] = 1..Size(p)
  <1>1. \A p \in Pages : Size(p) \in {0, 1, 2, 3}
    BY PagesAre, Patterns
  <1>2. \A p \in Pages : DOMAIN PATHS[p] = 1..Len(PATHS[p])
    BY DEF PATHS, Pages
  <1> QED BY <1>1, <1>2 DEF Size

LEMMA PartsAreWords ==
  \A p \in Pages : /\ Size(p) \in {1, 2, 3} => Part(p, 1) \in Words
                   /\ Size(p) \in {2, 3} => Part(p, 2) \in Words
                   /\ Size(p) = 3 => Part(p, 3) \in Words
  BY PagesAre, Patterns DEF Words

LEMMA PathIs ==
  ASSUME NEW p \in Pages
  PROVE  /\ PathTo(p) = [i \in 1..Size(p) |-> Written(p, i)]
         /\ PathTo(p) \in Seq(Words) /\ Len(PathTo(p)) = Size(p)
  <1>1. PathTo(p) = [i \in 1..Size(p) |-> Written(p, i)]
    BY PatternIsSequence DEF PathTo, Written, Part
  <1>2. Size(p) \in Nat
    BY PatternIsSequence
  <1>3. ASSUME NEW i \in 1..Size(p) PROVE Written(p, i) \in Words
    <2>1. i \in {1, 2, 3} /\ (i = 2 => Size(p) \in {2, 3}) /\ (i = 3 => Size(p) = 3)
      BY PatternIsSequence
    <2>2. Part(p, i) \in Words
      BY <2>1, PartsAreWords, PatternIsSequence
    <2> QED BY <2>2 DEF Written, Words
  <1>4. PathTo(p) \in Seq(Words)
    BY <1>1, <1>2, <1>3, IsASeq
  <1>5. Len(PathTo(p)) = Size(p)
    BY <1>1, <1>2
  <1> QED BY <1>1, <1>4, <1>5

\* The two addresses without a page.
LEMMA ServerPathIs ==
  ASSUME NEW p \in DOMAIN ServerPaths
  PROVE  PathTo(p) \in Seq(Words)
  <1>1. p = "DISCOVER" \/ p = "CANCEL_DELETION"
    BY DEF ServerPaths
  <1>2. p \notin Pages
    BY <1>1, PagesAre
  <1>3. PathTo("DISCOVER") = <<"discover">>
    BY <1>1, <1>2, PagesAre DEF PathTo, ServerPaths, ID
  <1>4. PathTo("CANCEL_DELETION") = <<"account", "cancel-deletion">>
    BY <1>1, <1>2, PagesAre DEF PathTo, ServerPaths, ID
  <1>5. /\ \A x \in Words : <<x>> \in Seq(Words)
        /\ \A x, y \in Words : <<x, y>> \in Seq(Words)
    OBVIOUS
  <1>6. {"discover", "account", "cancel-deletion"} \subseteq Words
    BY DEF Words
  <1>7. <<"discover">> \in Seq(Words) /\ <<"account", "cancel-deletion">> \in Seq(Words)
    BY <1>5, <1>6
  <1> QED BY <1>1, <1>3, <1>4, <1>7

\* The address of a page is no other page's, but for three that a pattern with an identifier
\* takes as well.
LEMMA AddressesDiffer ==
  ASSUME NEW p \in Pages, NEW q \in Pages, Matches(q, PathTo(p))
  PROVE  q = p \/ <<p, q>> \in {<<"PROFILE_EDIT", "PUBLIC_PROFILE">>, <<"ADD_BOOK", "BOOK_DETAIL">>,
                                <<"INCOMING_REQUESTS", "EXCHANGE_DETAIL">>}
  <1>1. Size(q) = Size(p)
    BY PathIs DEF Matches, Size
  <1>2. \A i \in 1..Size(p) : Part(q, i) \in {ID, Written(p, i)}
    BY PathIs DEF Matches, Part
  <1>3. /\ Size(p) \in {1, 2, 3} => Part(q, 1) \in {ID, Written(p, 1)}
        /\ Size(p) \in {2, 3} => Part(q, 2) \in {ID, Written(p, 2)}
        /\ Size(p) = 3 => Part(q, 3) \in {ID, Written(p, 3)}
    BY <1>2, PatternIsSequence
  <1> QED BY <1>1, <1>3, PagesAre, Patterns DEF ID, Written

LEMMA FixedParts ==
  /\ Fixed("PROFILE_EDIT") = 2 /\ Fixed("ADD_BOOK") = 2 /\ Fixed("INCOMING_REQUESTS") = 2
  /\ Fixed("PUBLIC_PROFILE") = 1 /\ Fixed("BOOK_DETAIL") = 1 /\ Fixed("EXCHANGE_DETAIL") = 1
  <1> DEFINE pages == {"PROFILE_EDIT", "ADD_BOOK", "INCOMING_REQUESTS",
                       "PUBLIC_PROFILE", "BOOK_DETAIL", "EXCHANGE_DETAIL"}
  <1>1. \A p \in pages : p \in Pages /\ Size(p) = 2
    BY Patterns DEF Pages, PATHS
  <1>2. ASSUME NEW p \in pages
        PROVE  Fixed(p) = Cardinality({i \in {1, 2} : Part(p, i) # ID})
    <2>1. DOMAIN PATHS[p] = {1, 2}
      BY <1>1, PatternIsSequence
    <2> QED BY <2>1 DEF Fixed, Part
  <1>3. Cardinality({1}) = 1 /\ Cardinality({1, 2}) = 2
    <2>1. IsFiniteSet({1}) /\ Cardinality({1}) = 1
      BY FS_Singleton
    <2>2. Cardinality({1} \union {2}) = Cardinality({1}) + 1
      BY <2>1, FS_AddElement
    <2> QED BY <2>1, <2>2
  <1>4. /\ \A p \in {"PROFILE_EDIT", "ADD_BOOK", "INCOMING_REQUESTS"} :
              {i \in {1, 2} : Part(p, i) # ID} = {1, 2}
        /\ \A p \in {"PUBLIC_PROFILE", "BOOK_DETAIL", "EXCHANGE_DETAIL"} :
              {i \in {1, 2} : Part(p, i) # ID} = {1}
    BY Patterns DEF ID
  <1> QED BY <1>2, <1>3, <1>4

LEMMA FixedBound == \A p \in Pages : Fixed(p) \in 0..3
  <1> SUFFICES ASSUME NEW p \in Pages PROVE Fixed(p) \in 0..3
    OBVIOUS
  <1> DEFINE S == {i \in DOMAIN PATHS[p] : PATHS[p][i] # ID}
  <1>1. Len(PATHS[p]) \in 0..3 /\ DOMAIN PATHS[p] = 1..Len(PATHS[p])
    BY DEF PATHS, Pages
  <1>2. PICK n \in 0..3 : DOMAIN PATHS[p] = 1..n
    BY <1>1
  <1>3. IsFiniteSet(1..n) /\ Cardinality(1..n) = n
    <2>1. 1 \in Int /\ n \in Int
      OBVIOUS
    <2>2. IsFiniteSet(1..n) /\ Cardinality(1..n) = IF 1 > n THEN 0 ELSE n - 1 + 1
      BY <2>1, FS_Interval, Zenon
    <2> QED BY <2>2
  <1>4. IsFiniteSet(S) /\ Cardinality(S) <= n
    BY <1>2, <1>3, FS_Subset
  <1>5. Cardinality(S) \in Nat
    BY <1>4, FS_CardinalityType
  <1> QED BY <1>4, <1>5 DEF Fixed

\* Every address shows a page.
LEMMA SomePage == \A path : PageAt(path) \in Pages \union {"NOT_FOUND"}
  <1> SUFFICES ASSUME NEW path PROVE PageAt(path) \in Pages \union {"NOT_FOUND"}
    OBVIOUS
  <1> DEFINE found == {p \in Pages : Matches(p, path)}
  <1>1. ASSUME found # {} PROVE \E p \in found : \A q \in found : Fixed(q) <= Fixed(p)
    BY <1>1, FixedBound
  <1>2. CASE found = {}
    BY <1>2 DEF PageAt
  <1>3. CASE found # {}
    BY <1>1, <1>3 DEF PageAt
  <1> QED BY <1>2, <1>3

LEMMA OwnPattern == \A p \in Pages : Matches(p, PathTo(p))
  BY PathIs DEF Matches, Size, Part, Written

\* An address shows the page it is the address of.
LEMMA ShowsItsPage ==
  ASSUME NEW p \in Pages PROVE PageAt(PathTo(p)) = p
  <1> DEFINE found == {q \in Pages : Matches(q, PathTo(p))}
  <1>1. p \in found
    BY OwnPattern
  <1>2. ASSUME NEW q \in found, q # p PROVE Fixed(q) < Fixed(p)
    BY <1>2, AddressesDiffer, FixedParts
  <1>3. \A q \in Pages : Fixed(q) \in 0..3
    BY FixedBound
  <1>4. \A q \in found : Fixed(q) <= Fixed(p)
    BY <1>1, <1>2, <1>3
  <1>5. PageAt(PathTo(p)) = CHOOSE r \in found : \A q \in found : Fixed(q) <= Fixed(r)
    BY <1>1 DEF PageAt
  <1>6. ASSUME NEW r \in found, \A q \in found : Fixed(q) <= Fixed(r) PROVE r = p
    BY <1>1, <1>2, <1>3, <1>6
  <1> HIDE DEF found
  <1> QED BY <1>1, <1>4, <1>5, <1>6

-----------------------------------------------------------------------------
(* Where an address leads. *)

Seg == Languages \union Words

\* An entry of the history: its address starts with a language.
Stop ==
    {e \in [path : Seq(Seg), returnUrl : Seq(Seg)] :
        e.path # <<>> /\ Head(e.path) \in Languages}

LEMMA WordPaths ==
  /\ \A p \in Pages \union DOMAIN ServerPaths : PathTo(p) \in Seq(Seg)
  /\ <<>> \in Seq(Seg) /\ PATHS.LOGIN = <<"login">> /\ "login" \in Seg
  <1>1. \A w \in Seq(Words) : w \in Seq(Seg)
    BY DEF Seg
  <1>2. \A p \in Pages \union DOMAIN ServerPaths : PathTo(p) \in Seq(Words)
    BY PathIs, ServerPathIs
  <1>3. PATHS.LOGIN = <<"login">>
    BY DEF PATHS
  <1>4. "login" \in Seg
    BY DEF Seg, Words
  <1> QED BY <1>1, <1>2, <1>3, <1>4

\* What a language in front of a path gives.
LEMMA InFront ==
  ASSUME NEW lang \in Languages, NEW path \in Seq(Seg)
  PROVE  /\ <<lang>> \o path \in Seq(Seg) /\ <<lang>> \o path # <<>>
         /\ Head(<<lang>> \o path) = lang /\ Tail(<<lang>> \o path) = path
  <1>1. lang \in Seg /\ <<lang>> \in Seq(Seg) /\ Len(<<lang>>) = 1 /\ <<lang>>[1] = lang
    BY DEF Seg
  <1> DEFINE s == <<lang>> \o path
  <1>2. /\ s \in Seq(Seg) /\ Len(s) = 1 + Len(path) /\ s[1] = lang
        /\ \A i \in 1..Len(path) : s[i + 1] = path[i]
    BY <1>1, ConcatProperties
  <1> HIDE DEF s
  <1>3. s # <<>> /\ Head(s) = s[1] /\ Tail(s) \in Seq(Seg) /\ Len(Tail(s)) = Len(path)
        /\ \A i \in 1..Len(path) : Tail(s)[i] = s[i + 1]
    BY <1>2
  <1>4. Tail(s) = path
    BY <1>2, <1>3, SeqEqual
  <1> QED BY <1>2, <1>3, <1>4 DEF s

LEMMA Stopping ==
  ASSUME NEW lang \in Languages, NEW path \in Seq(Seg), NEW from \in Seq(Seg)
  PROVE  Entry(<<lang>> \o path, from) \in Stop
  BY InFront DEF Entry, Stop

LEMMA LocalisedStops ==
  ASSUME NEW path \in Seq(Seg), NEW from \in Seq(Seg), NEW lang \in Languages
  PROVE  Localised(Entry(path, from), lang) \in Stop
  <1> DEFINE e == Entry(path, from)
  <1>1. e.path = path /\ e.returnUrl = from
    BY DEF Entry
  <1>2. <<>> \in Seq(Seg)
    BY WordPaths
  <1>3. CASE path \in RootRoutes
    BY <1>1, <1>2, <1>3, Stopping DEF Localised, LanguageRedirect
  <1>4. CASE path \notin RootRoutes
    <2>1. path # <<>> /\ Tail(path) \in Seq(Seg)
      BY <1>4 DEF RootRoutes
    <2>2. CASE Head(path) \in Languages
      BY <1>1, <1>4, <2>1, <2>2 DEF Localised, LanguageSync, Stop, Entry
    <2>3. CASE Head(path) \notin Languages
      BY <1>1, <1>2, <1>4, <2>1, <2>3, Stopping DEF Localised, LanguageSync
    <2> QED BY <2>2, <2>3
  <1> QED BY <1>3, <1>4

\* What the guards make of an entry.
LEMMA GuardedStops ==
  ASSUME NEW e \in Stop, NEW in \in BOOLEAN
  PROVE  AuthRoutesWrapper(ProtectedRoute(e, in), in) \in Stop
  <1>1. /\ e.path \in Seq(Seg) /\ Head(e.path) \in Languages
        /\ <<>> \in Seq(Seg) /\ <<"login">> \in Seq(Seg)
    BY WordPaths DEF Stop
  <1>2. ProtectedRoute(e, in) \in Stop
    BY <1>1, Stopping, WordPaths DEF ProtectedRoute
  <1>3. ASSUME NEW f \in Stop PROVE AuthRoutesWrapper(f, in) \in Stop
    <2>1. Head(f.path) \in Languages
      BY DEF Stop
    <2>2. Entry(<<Head(f.path)>> \o <<>>, <<>>) \in Stop
      BY <1>1, <2>1, Stopping
    <2>3. <<Head(f.path)>> \o <<>> = <<Head(f.path)>>
      OBVIOUS
    <2> QED BY <2>2, <2>3 DEF AuthRoutesWrapper
  <1> QED BY <1>2, <1>3

LEMMA RouteStops ==
  ASSUME NEW path \in Seq(Seg), NEW from \in Seq(Seg), NEW lang \in Languages, NEW in \in BOOLEAN
  PROVE  Route(Entry(path, from), lang, in) \in Stop
  BY LocalisedStops, GuardedStops DEF Route

\* The page that guards let a user see instead of p.
Allowed(p, in) ==
    IF ~in /\ p \in Private THEN "LOGIN" ELSE IF in /\ p \in GuestPages THEN "HOME" ELSE p

LEMMA GuardsAllow ==
  ASSUME NEW lang \in Languages, NEW p \in Pages, NEW from, NEW in \in BOOLEAN
  PROVE  LET e == Entry(<<lang>> \o PathTo(p), from)
         IN PageAt(Tail(AuthRoutesWrapper(ProtectedRoute(e, in), in).path)) = Allowed(p, in)
  <1> DEFINE e == Entry(<<lang>> \o PathTo(p), from)
             f == ProtectedRoute(e, in)
  <1>1. PathTo(p) \in Seq(Seg) /\ <<>> \in Seq(Seg) /\ <<"login">> \in Seq(Seg)
    BY WordPaths
  <1>2. Tail(e.path) = PathTo(p) /\ Head(e.path) = lang
    BY <1>1, InFront DEF Entry
  <1>3. PageAt(Tail(e.path)) = p
    BY <1>2, ShowsItsPage
  <1>4. PageAt(<<>>) = "HOME" /\ PageAt(<<"login">>) = "LOGIN"
    <2>1. "HOME" \in Pages /\ "LOGIN" \in Pages
      BY DEF Pages, PATHS
    <2>2. PathTo("HOME") = <<>> /\ PathTo("LOGIN") = <<"login">>
      BY <2>1 DEF PathTo, PATHS, ID
    <2> QED BY <2>1, <2>2, ShowsItsPage
  <1>5. f = IF ~in /\ p \in Private THEN Entry(<<lang>> \o <<"login">>, e.path) ELSE e
    BY <1>2, <1>3, WordPaths DEF ProtectedRoute
  <1>6. CASE ~in /\ p \in Private
    <2>1. f.path = <<lang>> \o <<"login">>
      <3> HIDE DEF e, f
      <3>1. f = Entry(<<lang>> \o <<"login">>, e.path)
        BY <1>5, <1>6
      <3> QED BY <3>1 DEF Entry
    <2>2. Tail(f.path) = <<"login">>
      BY <1>1, <2>1, InFront, Zenon
    <2>3. AuthRoutesWrapper(f, in) = f
      BY <1>6 DEF AuthRoutesWrapper
    <2> QED BY <1>4, <1>6, <2>2, <2>3 DEF Allowed
  <1>7. CASE ~(~in /\ p \in Private) /\ in /\ p \in GuestPages
    <2>1. f = e
      BY <1>5, <1>7
    <2>2. AuthRoutesWrapper(f, in) = Entry(<<lang>>, <<>>)
      BY <1>2, <1>3, <1>7, <2>1 DEF AuthRoutesWrapper
    <2>3. Entry(<<lang>>, <<>>).path = <<lang>> /\ Tail(<<lang>>) = <<>>
      BY DEF Entry
    <2>4. Tail(AuthRoutesWrapper(f, in).path) = <<>>
      BY <2>2, <2>3, Zenon
    <2>5. Allowed(p, in) = "HOME"
      BY <1>7 DEF Allowed
    <2>6. PageAt(Tail(AuthRoutesWrapper(f, in).path)) = Allowed(p, in)
      <3> HIDE DEF f
      <3> QED BY <1>4, <2>4, <2>5
    <2> QED BY <2>6
  <1>8. CASE ~(~in /\ p \in Private) /\ ~(in /\ p \in GuestPages)
    <2>1. f = e
      BY <1>5, <1>8
    <2>2. AuthRoutesWrapper(f, in) = e
      BY <1>3, <1>8, <2>1 DEF AuthRoutesWrapper
    <2> QED BY <1>3, <1>8, <2>2 DEF Allowed
  <1> QED BY <1>6, <1>7, <1>8

\* With its language an address leads to its page, or to where the guards lead instead.
LEMMA LocalLands ==
  ASSUME NEW lang \in Languages, NEW p \in Pages, NEW from, NEW l, NEW in \in BOOLEAN
  PROVE  PageAt(Tail(Route(Entry(<<lang>> \o PathTo(p), from), l, in).path)) = Allowed(p, in)
  <1> DEFINE path == <<lang>> \o PathTo(p)
  <1>1. PathTo(p) \in Seq(Seg)
    BY WordPaths
  <1>2. path \notin RootRoutes
    <2>1. Len(path) = 1 + Size(p) /\ \A i \in 1..Size(p) : path[i + 1] = Written(p, i)
      BY <1>1, PathIs DEF Seg
    <2>2. path # <<>>
      BY <1>1, InFront
    <2>3. ASSUME NEW w, path = <<"auth", w>>, w = "verified" \/ w = "verify-error" PROVE FALSE
      <3>1. Len(path) = 2 /\ path[2] = w
        <4> HIDE DEF path
        <4> QED BY <2>3
      <3>2. Size(p) = 1
        BY <2>1, <3>1, PatternIsSequence
      <3>3. Written(p, 1) = path[1 + 1]
        BY <2>1, <3>2
      <3>4. Written(p, 1) = w
        <4> HIDE DEF path
        <4> QED BY <3>1, <3>3
      <3> QED BY <2>3, <3>2, <3>4, PagesAre, Patterns DEF Written, ID
    <2>4. PATHS.SOCIAL_AUTH_CALLBACK = <<"auth", "verified">>
          /\ PATHS.SOCIAL_AUTH_ERROR = <<"auth", "verify-error">>
      BY DEF PATHS
    <2> QED BY <2>2, <2>3, <2>4 DEF RootRoutes
  <1>3. Head(path) = lang
    BY <1>1, InFront
  <1> HIDE DEF path
  <1>4. Localised(Entry(path, from), l) = Entry(path, from)
    BY <1>2, <1>3 DEF Localised, LanguageSync, Entry
  <1> QED BY <1>4, GuardsAllow DEF Route, path

\* Without one, the addresses above the languages do.
Bare == {"HOME", "SOCIAL_AUTH_CALLBACK", "SOCIAL_AUTH_ERROR"}

LEMMA BareLands ==
  ASSUME NEW p \in Bare, NEW from, NEW l \in Languages, NEW in \in BOOLEAN
  PROVE  PageAt(Tail(Route(Entry(PathTo(p), from), l, in).path)) = Allowed(p, in)
  <1>1. p \in Pages
    BY DEF Bare, Pages, PATHS
  <1>2. PathTo(p) \in RootRoutes
    BY <1>1 DEF Bare, RootRoutes, PathTo, PATHS, ID
  <1>3. Localised(Entry(PathTo(p), from), l) = Entry(<<l>> \o PathTo(p), <<>>)
    BY <1>2 DEF Localised, LanguageRedirect, Entry
  <1> QED BY <1>1, <1>3, GuardsAllow DEF Route

LEMMA MeantIsAllowed ==
  ASSUME NEW m, m.screen \in Pages, NEW in \in BOOLEAN, NEW from
  PROVE  Meant(m, in, from) = Allowed(m.screen, in)
  <1>1. m.screen # "RETURN"
    BY PagesAre
  <1>2. CASE ~in /\ m.screen \in Private
    BY <1>1, <1>2 DEF Meant, Allowed
  <1>3. CASE in /\ m.screen \in GuestPages
    BY <1>1, <1>3 DEF Meant, Allowed
  <1>4. CASE ~(~in /\ m.screen \in Private) /\ ~(in /\ m.screen \in GuestPages)
    BY <1>1, <1>4 DEF Meant, Allowed
  <1> QED BY <1>2, <1>3, <1>4

-----------------------------------------------------------------------------
(* What the controls of a page may do. *)

\* The calls whose answer leads on from anywhere.
LeadingOn == {"login", "logout", "register", "onboarding", "exchangeSocialToken"}

Screens == Pages \union DOMAIN ServerPaths

\* A move that a control of page p may make.
Aims(p, m) ==
    \/ m \in {SignIn, SignOut, GoBack, To("bare", "HOME")}
    \/ \E s \in Screens : m \in {To("locale", s), To("replaced", s)}
    \/ \E s \in Pages : m = To("bare", s) /\ <<p, s>> \in BareLinks
    \/ p = "LOGIN" /\ m = To("replaced", "RETURN")

\* No control moves more than twice.
Aimed(p, moves) ==
    \/ moves = <<>>
    \/ moves = <<moves[1]>> /\ Aims(p, moves[1])
    \/ moves = <<moves[1], moves[2]>> /\ Aims(p, moves[1]) /\ Aims(p, moves[2])

\* An awaited call is one of those above.
Tame(p, c) ==
    /\ c.kept => c.call \in LeadingOn
    /\ Aimed(p, c.moves)

-----------------------------------------------------------------------------
(* Moves, folded. *)

\* The largest of one index, and of two.
LEMMA MaxOfTwo == Max({1}) = 1 /\ Max({2}) = 2 /\ Max({1, 2}) = 2
  BY DEF Max

LEMMA RunNone ==
  ASSUME NEW at, NEW lang, NEW from PROVE Run(at, <<>>, lang, from) = at
  <1> DEFINE P(g) == g = [s \in SUBSET {} |-> IF s = {} THEN at
                            ELSE LET i == Max(s) IN Go(g[s \ {i}], <<>>[i], lang, from)]
             iter == CHOOSE g : P(g)
  <1>1. Run(at, <<>>, lang, from) = iter[{}]
    BY DEF Run, FoldLeft, MapThenFoldSet
  <1>2. P([s \in SUBSET {} |-> at])
    OBVIOUS
  <1>3. P(iter)
    BY <1>2
  <1> HIDE DEF iter
  <1> QED BY <1>1, <1>3

LEMMA RunOne ==
  ASSUME NEW at, NEW m, NEW lang, NEW from
  PROVE  Run(at, <<m>>, lang, from) = Go(at, m, lang, from)
  <1> DEFINE P(g) == g = [s \in SUBSET {1} |-> IF s = {} THEN at
                            ELSE LET i == Max(s) IN Go(g[s \ {i}], <<m>>[i], lang, from)]
             iter == CHOOSE g : P(g)
             h == [s \in SUBSET {1} |-> IF s = {} THEN at ELSE Go(at, m, lang, from)]
  <1>1. Run(at, <<m>>, lang, from) = iter[{1}]
    BY DEF Run, FoldLeft, MapThenFoldSet
  <1>2. P(h)
    <2>1. SUBSET {1} = {{}, {1}}
      OBVIOUS
    <2>2. h[{}] = at
      OBVIOUS
    <2>3. {1} \ {Max({1})} = {} /\ <<m>>[Max({1})] = m
      BY MaxOfTwo
    <2> QED BY <2>1, <2>2, <2>3
  <1>3. P(iter)
    BY <1>2
  <1> HIDE DEF iter
  <1>4. iter[{}] = at
    BY <1>3
  <1>5. iter[{1}] = Go(iter[{1} \ {Max({1})}], <<m>>[Max({1})], lang, from)
    BY <1>3
  <1> QED BY <1>1, <1>4, <1>5, MaxOfTwo

LEMMA RunTwo ==
  ASSUME NEW at, NEW m, NEW n, NEW lang, NEW from
  PROVE  Run(at, <<m, n>>, lang, from) = Go(Go(at, m, lang, from), n, lang, from)
  <1> DEFINE P(g) == g = [s \in SUBSET {1, 2} |-> IF s = {} THEN at
                            ELSE LET i == Max(s) IN Go(g[s \ {i}], <<m, n>>[i], lang, from)]
             iter == CHOOSE g : P(g)
             one == Go(at, m, lang, from)
             h == [s \in SUBSET {1, 2} |->
                     IF s = {} THEN at ELSE IF s = {1} THEN one
                     ELSE IF s = {2} THEN Go(at, n, lang, from) ELSE Go(one, n, lang, from)]
  <1>1. Run(at, <<m, n>>, lang, from) = iter[{1, 2}]
    BY DEF Run, FoldLeft, MapThenFoldSet
  <1>2. P(h)
    <2>1. SUBSET {1, 2} = {{}, {1}, {2}, {1, 2}}
      OBVIOUS
    <2>2. h[{}] = at /\ h[{1}] = one
      OBVIOUS
    <2>3. /\ {1} \ {Max({1})} = {} /\ <<m, n>>[Max({1})] = m
          /\ {2} \ {Max({2})} = {} /\ <<m, n>>[Max({2})] = n
          /\ {1, 2} \ {Max({1, 2})} = {1} /\ <<m, n>>[Max({1, 2})] = n
      BY MaxOfTwo
    <2> DEFINE then(s) == IF s = {} THEN at
                          ELSE Go(h[s \ {Max(s)}], <<m, n>>[Max(s)], lang, from)
    <2>4. h[{}] = then({}) /\ h[{1}] = then({1})
      BY <2>2, <2>3
    <2>5. h[{2}] = then({2})
      <3>1. h[{2}] = Go(at, n, lang, from)
        BY {2} # {} /\ {2} # {1}
      <3> QED BY <3>1, <2>2, <2>3
    <2>6. h[{1, 2}] = then({1, 2})
      <3>1. h[{1, 2}] = Go(one, n, lang, from)
        BY {1, 2} # {} /\ {1, 2} # {1} /\ {1, 2} # {2}
      <3> QED BY <3>1, <2>2, <2>3
    <2>7. \A s \in SUBSET {1, 2} : h[s] = then(s)
      <3> HIDE DEF h, then
      <3> QED BY <2>1, <2>4, <2>5, <2>6, Zenon
    <2> QED BY <2>7
  <1>3. P(iter)
    BY <1>2
  <1> HIDE DEF iter
  <1>4. iter[{}] = at
    BY <1>3
  <1>5. iter[{1}] = Go(iter[{1} \ {Max({1})}], <<m, n>>[Max({1})], lang, from)
    BY <1>3
  <1>6. iter[{1, 2}] = Go(iter[{1, 2} \ {Max({1, 2})}], <<m, n>>[Max({1, 2})], lang, from)
    BY <1>3
  <1>7. {1} \ {1} = {} /\ {1, 2} \ {2} = {1}
    OBVIOUS
  <1> QED BY <1>1, <1>4, <1>5, <1>6, <1>7, MaxOfTwo

-----------------------------------------------------------------------------
(* Where the moves lead. *)

\* A value that moves lead through: a history, and who is signed in.
Going(at) ==
    /\ at = [hist |-> at.hist, in |-> at.in] /\ at.in \in BOOLEAN
    /\ at.hist \in Seq(Stop) /\ at.hist # <<>>

\* What Language(hist) is, in every step.
Speaking == Language(hist) \in Languages

LEMMA Changed ==
  ASSUME NEW at, at = [hist |-> at.hist, in |-> at.in], NEW x
  PROVE  /\ [at EXCEPT !.hist = x] = [hist |-> x, in |-> at.in]
         /\ [at EXCEPT !.in = x] = [hist |-> at.hist, in |-> x]
  <1>1. ASSUME NEW h, NEW i
        PROVE  /\ [[hist |-> h, in |-> i] EXCEPT !.hist = x] = [hist |-> x, in |-> i]
               /\ [[hist |-> h, in |-> i] EXCEPT !.in = x] = [hist |-> h, in |-> x]
    OBVIOUS
  <1>2. /\ [[hist |-> at.hist, in |-> at.in] EXCEPT !.hist = x] = [hist |-> x, in |-> at.in]
        /\ [[hist |-> at.hist, in |-> at.in] EXCEPT !.in = x] = [hist |-> at.hist, in |-> x]
    BY <1>1
  <1> QED BY <1>2, Zenon

LEMMA GoingIs ==
  ASSUME NEW h \in Seq(Stop), h # <<>>, NEW in \in BOOLEAN
  PROVE  Going([hist |-> h, in |-> in])
  BY DEF Going

LEMMA LastStop ==
  ASSUME NEW h \in Seq(Stop), h # <<>>
  PROVE  /\ Last(h) \in Stop /\ Len(h) \in Nat \ {0}
         /\ Front(h) \in Seq(Stop) /\ Len(Front(h)) = Len(h) - 1
  <1>1. Len(h) \in Nat \ {0} /\ \A i \in 1..Len(h) : h[i] \in Stop
    BY EmptySeq, LenProperties, ElementOfSeq
  <1>2. Last(h) \in Stop
    BY <1>1 DEF Last
  <1>3. Front(h) \in Seq(Stop) /\ Len(Front(h)) = Len(h) - 1
    <2>1. 1 \in Int /\ Len(h) - 1 \in Int /\ \A i \in 1..(Len(h) - 1) : h[i] \in Stop
      BY <1>1
    <2>2. /\ SubSeq(h, 1, Len(h) - 1) \in Seq(Stop)
          /\ Len(SubSeq(h, 1, Len(h) - 1))
               = IF 1 <= Len(h) - 1 THEN (Len(h) - 1) - 1 + 1 ELSE 0
      BY <2>1, SubSeqProperties
    <2>3. \A n \in Nat \ {0} : (IF 1 <= n - 1 THEN (n - 1) - 1 + 1 ELSE 0) = n - 1
      OBVIOUS
    <2>4. Len(SubSeq(h, 1, Len(h) - 1)) = Len(h) - 1
      BY <1>1, <2>2, <2>3, Zenon
    <2> QED BY <2>2, <2>4 DEF Front
  <1> QED BY <1>1, <1>2, <1>3

LEMMA Appended ==
  ASSUME NEW h \in Seq(Stop), NEW e \in Stop
  PROVE  /\ Append(h, e) \in Seq(Stop) /\ Append(h, e) # <<>> /\ Last(Append(h, e)) = e
         /\ Page(Append(h, e)) = PageAt(Tail(e.path))
  <1>1. /\ Append(h, e) \in Seq(Stop) /\ Len(Append(h, e)) = Len(h) + 1
        /\ Append(h, e)[Len(h) + 1] = e /\ Len(h) \in Nat
    BY AppendProperties
  <1>2. Append(h, e) # <<>>
    BY <1>1
  <1>3. Last(Append(h, e)) = e
    BY <1>1 DEF Last
  <1> QED BY <1>1, <1>2, <1>3 DEF Page, Shown

\* A new entry, on top of the history or in the place of the last.
LEMMA Arrives ==
  ASSUME Speaking, NEW at, Going(at), NEW path \in Seq(Seg), NEW from \in Seq(Seg)
  PROVE  LET e == Entry(path, from)
             r == Route(e, Language(hist), at.in)
         IN /\ Going(Pushed(at, e)) /\ Going(Swapped(at, e))
            /\ Pushed(at, e).in = at.in /\ Swapped(at, e).in = at.in
            /\ Page(Pushed(at, e).hist) = PageAt(Tail(r.path))
            /\ Page(Swapped(at, e).hist) = PageAt(Tail(r.path))
  <1> DEFINE e == Entry(path, from)
             r == Route(e, Language(hist), at.in)
  <1>1. r \in Stop
    BY RouteStops DEF Going, Speaking
  <1>2. /\ at = [hist |-> at.hist, in |-> at.in] /\ at.in \in BOOLEAN
        /\ at.hist \in Seq(Stop) /\ Front(at.hist) \in Seq(Stop)
    BY LastStop DEF Going
  <1> HIDE DEF r
  <1>3. Settled(at, e) = r
    BY DEF Settled, r
  <1> HIDE DEF e
  <1>4. /\ Pushed(at, e) = [hist |-> Append(at.hist, r), in |-> at.in]
        /\ Swapped(at, e) = [hist |-> Append(Front(at.hist), r), in |-> at.in]
    BY <1>2, <1>3, Changed DEF Pushed, Swapped
  <1>5. /\ Going(Pushed(at, e)) /\ Going(Swapped(at, e))
        /\ Pushed(at, e).in = at.in /\ Swapped(at, e).in = at.in
    <2>1. /\ Append(at.hist, r) \in Seq(Stop) /\ Append(at.hist, r) # <<>>
          /\ Append(Front(at.hist), r) \in Seq(Stop) /\ Append(Front(at.hist), r) # <<>>
      BY <1>1, <1>2, Appended
    <2>2. /\ Going([hist |-> Append(at.hist, r), in |-> at.in])
          /\ Going([hist |-> Append(Front(at.hist), r), in |-> at.in])
      BY <1>2, <2>1, GoingIs
    <2>3. \A h, i : [hist |-> h, in |-> i].in = i
      OBVIOUS
    <2> QED BY <1>4, <2>2, <2>3, Zenon
  <1>6. /\ Pushed(at, e).hist = Append(at.hist, r)
        /\ Swapped(at, e).hist = Append(Front(at.hist), r)
    BY <1>4
  <1>7. /\ Page(Pushed(at, e).hist) = PageAt(Tail(r.path))
        /\ Page(Swapped(at, e).hist) = PageAt(Tail(r.path))
    BY <1>1, <1>2, <1>6, Appended
  <1> QED BY <1>5, <1>7 DEF e, r

\* An entry that was settled before is settled again.
LEMMA SwappedGoes ==
  ASSUME Speaking, NEW at, Going(at), NEW e \in Stop
  PROVE  Going(Swapped(at, e))
  <1>1. e = Entry(e.path, e.returnUrl) /\ e.path \in Seq(Seg) /\ e.returnUrl \in Seq(Seg)
    BY DEF Stop, Entry
  <1> QED BY <1>1, Arrives

LEMMA MovesAre ==
  /\ \A s \in Screens \union {"RETURN"} :
        /\ \A t \in {"locale", "replaced", "bare"} :
              /\ To(t, s) \notin {SignIn, SignOut, GoBack}
              /\ To(t, s).tab = t /\ To(t, s).screen = s
  /\ SignIn # SignOut /\ SignIn # GoBack /\ SignOut # GoBack
  /\ SignIn.tab = "here" /\ SignOut.tab = "here" /\ GoBack.tab = "here"
  BY DEF To, SignIn, SignOut, GoBack, Here

\* A control of page p is pressed, or its answer arrives, on whatever page is shown.
LEMMA GoGoes ==
  ASSUME Speaking, NEW at, Going(at), NEW p, NEW m, Aims(p, m), NEW lang \in Languages,
         NEW from \in Seq(Seg)
  PROVE  Going(Go(at, m, lang, from))
  <1> DEFINE now(in) == [hist |-> at.hist, in |-> in]
  <1>0. /\ at = [hist |-> at.hist, in |-> at.in] /\ at.in \in BOOLEAN
        /\ at.hist \in Seq(Stop) /\ at.hist # <<>>
    BY DEF Going
  <1>1. ASSUME NEW in \in BOOLEAN PROVE Going(Swapped(now(in), Shown(now(in).hist)))
    <2>1. Going(now(in)) /\ now(in).hist = at.hist
      BY <1>0, GoingIs
    <2>2. Shown(now(in).hist) \in Stop
      BY <1>0, <2>1, LastStop DEF Shown
    <2> HIDE DEF now
    <2> QED BY <2>1, <2>2, SwappedGoes
  <1>2. [at EXCEPT !.in = TRUE] = now(TRUE) /\ [at EXCEPT !.in = FALSE] = now(FALSE)
    BY <1>0, Changed
  <1>3. CASE m = SignIn
    <2>1. Go(at, m, lang, from) = Swapped(now(TRUE), Shown(now(TRUE).hist))
      <3>1. Go(at, m, lang, from)
              = Swapped([at EXCEPT !.in = TRUE], Shown([at EXCEPT !.in = TRUE].hist))
        BY <1>3, MovesAre DEF Go
      <3> HIDE DEF now
      <3> QED BY <1>2, <3>1
    <2> QED BY <1>1, <2>1
  <1>4. CASE m = SignOut
    <2>1. Go(at, m, lang, from) = Swapped(now(FALSE), Shown(now(FALSE).hist))
      <3>1. Go(at, m, lang, from)
              = Swapped([at EXCEPT !.in = FALSE], Shown([at EXCEPT !.in = FALSE].hist))
        BY <1>4, MovesAre DEF Go
      <3> HIDE DEF now
      <3> QED BY <1>2, <3>1
    <2> QED BY <1>1, <2>1
  <1>5. CASE m = GoBack
    <2>1. CASE Len(at.hist) = 1
      BY <1>5, <2>1, MovesAre DEF Go
    <2>2. CASE Len(at.hist) # 1
      <3> DEFINE back == [at EXCEPT !.hist = Front(@)]
                 e == at.hist[Len(at.hist) - 1]
      <3>1. Len(at.hist) - 1 \in 1..Len(at.hist) /\ Len(at.hist) - 1 \in Nat \ {0}
        <4>1. Len(at.hist) \in Nat \ {0}
          BY <1>0, LastStop
        <4>2. \A n \in Nat \ {0} : n # 1 => n - 1 \in 1..n /\ n - 1 \in Nat \ {0}
          OBVIOUS
        <4> QED BY <2>2, <4>1, <4>2, Zenon
      <3>2. e \in Stop
        BY <1>0, <3>1, ElementOfSeq
      <3>3. Front(at.hist) \in Seq(Stop) /\ Front(at.hist) # <<>>
        BY <1>0, <3>1, LastStop, EmptySeq
      <3>4. back = [hist |-> Front(at.hist), in |-> at.in]
        BY <1>0, Changed
      <3>5. Going(back)
        BY <1>0, <3>3, <3>4, GoingIs
      <3>6. Go(at, m, lang, from) = Swapped(back, e)
        BY <1>5, <2>2, MovesAre DEF Go
      <3> HIDE DEF back, e
      <3> QED BY <3>2, <3>5, <3>6, SwappedGoes
    <2> QED BY <2>1, <2>2
  <1>6. CASE \E t \in {"locale", "replaced", "bare"}, s \in Screens : m = To(t, s)
    <2>1. PICK t \in {"locale", "replaced", "bare"}, s \in Screens : m = To(t, s)
      BY <1>6
    <2>2. PathTo(s) \in Seq(Seg) /\ <<>> \in Seq(Seg)
      BY WordPaths DEF Screens
    <2>3. <<lang>> \o PathTo(s) \in Seq(Seg)
      BY <2>2, InFront
    <2>4. m \notin {SignIn, SignOut, GoBack} /\ m.tab = t /\ m.screen = s /\ s # "RETURN"
      BY <2>1, MovesAre, PagesAre DEF Screens, ServerPaths
    <2>5. Go(at, m, lang, from) \in
            {Swapped(at, Entry(<<lang>> \o PathTo(s), <<>>)), Pushed(at, Entry(PathTo(s), <<>>)),
             Pushed(at, Entry(<<lang>> \o PathTo(s), <<>>))}
      BY <2>1, <2>4 DEF Go
    <2> QED BY <2>2, <2>3, <2>5, Arrives
  <1>7. CASE m = To("replaced", "RETURN")
    <2>1. <<lang>> \o from \in Seq(Seg) /\ <<>> \in Seq(Seg)
      BY InFront, WordPaths
    <2>2. m \notin {SignIn, SignOut, GoBack} /\ m.tab = "replaced" /\ m.screen = "RETURN"
      BY <1>7, MovesAre
    <2>3. Go(at, m, lang, from) = Swapped(at, Entry(<<lang>> \o from, <<>>))
      BY <2>2 DEF Go
    <2> QED BY <2>1, <2>3, Arrives
  <1>8. "HOME" \in Screens
    BY DEF Screens, Pages, PATHS
  <1> QED BY <1>3, <1>4, <1>5, <1>6, <1>7, <1>8 DEF Aims, Screens

\* The links that lead elsewhere.
KnownMiss(p, s) ==
    \/ s \in DOMAIN ServerPaths
    \/ <<p, s>> \in BareLinks
    \/ <<p, s>> = <<"LOGIN", "RETURN">>

\* The page of a move is the page meant, but for those.
LEMMA GoLands ==
  ASSUME Speaking, NEW at, Going(at), NEW p, NEW m, Aims(p, m), NEW lang \in Languages,
         NEW from \in Seq(Seg), m.tab # "here", ~KnownMiss(p, m.screen)
  PROVE  LET to == Go(at, m, lang, from) IN Page(to.hist) = Meant(m, to.in, from)
  <1>1. m \notin {SignIn, SignOut, GoBack}
    <2>1. SignIn.tab = "here" /\ SignOut.tab = "here" /\ GoBack.tab = "here"
      BY MovesAre
    <2> QED BY <2>1
  <1>2. /\ "HOME" \in Pages /\ <<>> \in Seq(Seg) /\ at.in \in BOOLEAN
        /\ \A s \in Pages : s # "RETURN"
    BY WordPaths, PagesAre DEF Pages, PATHS, Going
  <1>3. CASE m = To("bare", "HOME")
    <2>1. m.tab = "bare" /\ m.screen = "HOME"
      BY <1>3 DEF To
    <2>2. PathTo("HOME") \in Seq(Seg)
      BY <1>2, WordPaths
    <2>3. Go(at, m, lang, from) = Pushed(at, Entry(PathTo("HOME"), <<>>))
      BY <1>1, <2>1 DEF Go
    <2>4. "HOME" \in Bare
      BY DEF Bare
    <2>5. PageAt(Tail(Route(Entry(PathTo("HOME"), <<>>), Language(hist), at.in).path))
            = Allowed("HOME", at.in)
      BY <1>2, <2>4, BareLands DEF Speaking
    <2>6. Page(Pushed(at, Entry(PathTo("HOME"), <<>>)).hist) = Allowed("HOME", at.in)
          /\ Pushed(at, Entry(PathTo("HOME"), <<>>)).in = at.in
      BY <1>2, <2>2, <2>5, Arrives
    <2> QED BY <1>2, <2>1, <2>3, <2>6, MeantIsAllowed
  <1>4. CASE \E t \in {"locale", "replaced"}, s \in Pages : m = To(t, s)
    <2>1. PICK t \in {"locale", "replaced"}, s \in Pages : m = To(t, s)
      BY <1>4
    <2>2. m.tab = t /\ m.screen = s
      BY <2>1 DEF To
    <2>3. <<lang>> \o PathTo(s) \in Seq(Seg)
      BY WordPaths, InFront
    <2> DEFINE e == Entry(<<lang>> \o PathTo(s), <<>>)
    <2>4. Go(at, m, lang, from) \in {Swapped(at, e), Pushed(at, e)}
      BY <1>1, <1>2, <2>1, <2>2 DEF Go
    <2>5. PageAt(Tail(Route(e, Language(hist), at.in).path)) = Allowed(s, at.in)
      BY <1>2, LocalLands
    <2>6. /\ Page(Swapped(at, e).hist) = Allowed(s, at.in) /\ Swapped(at, e).in = at.in
          /\ Page(Pushed(at, e).hist) = Allowed(s, at.in) /\ Pushed(at, e).in = at.in
      BY <1>2, <2>3, <2>5, Arrives
    <2> HIDE DEF e
    <2> QED BY <1>2, <2>2, <2>4, <2>6, MeantIsAllowed
  <1>5. CASE \E s \in DOMAIN ServerPaths, t \in {"locale", "replaced"} : m = To(t, s)
    BY <1>5 DEF To, KnownMiss
  <1>6. CASE \E s \in Pages : m = To("bare", s) /\ <<p, s>> \in BareLinks
    BY <1>6 DEF To, KnownMiss
  <1>7. CASE p = "LOGIN" /\ m = To("replaced", "RETURN")
    BY <1>7 DEF To, KnownMiss
  <1> QED BY <1>1, <1>3, <1>4, <1>5, <1>6, <1>7 DEF Aims, Screens

LEMMA RunGoes ==
  ASSUME Speaking, NEW at, Going(at), NEW p, NEW moves, Aimed(p, moves), NEW lang \in Languages,
         NEW from \in Seq(Seg)
  PROVE  LET to == Run(at, moves, lang, from)
             x  == Missed(p, moves, to, from)
         IN /\ Going(to)
            /\ x[1] # "late"
            /\ moves # <<>> /\ x[1] = "missed" => KnownMiss(x[2], x[3])
  <1> DEFINE to == Run(at, moves, lang, from)
             x  == Missed(p, moves, to, from)
  <1>1. CASE moves = <<>>
    BY <1>1, RunNone DEF Missed, NoLapse
  <1>2. ASSUME NEW a, Going(a), NEW m, Aims(p, m), to = Go(a, m, lang, from), Last(moves) = m
        PROVE  Going(to) /\ x[1] # "late" /\ (x[1] = "missed" => KnownMiss(x[2], x[3]))
    <2>1. Going(to)
      BY <1>2, GoGoes
    <2>2. x = IF m.tab # "here" /\ Page(to.hist) # Meant(m, to.in, from)
              THEN <<"missed", p, m.screen>> ELSE NoLapse
      <3> HIDE DEF to
      <3> QED BY <1>2 DEF Missed
    <2>3. CASE m.tab # "here" /\ ~KnownMiss(p, m.screen)
      BY <1>2, <2>1, <2>2, <2>3, GoLands DEF NoLapse
    <2>4. CASE m.tab = "here"
      BY <2>1, <2>2, <2>4 DEF NoLapse
    <2>5. CASE KnownMiss(p, m.screen)
      BY <2>1, <2>2, <2>5 DEF NoLapse
    <2> QED BY <2>3, <2>4, <2>5
  <1>3. CASE moves = <<moves[1]>> /\ Aims(p, moves[1])
    <2>1. to = Go(at, moves[1], lang, from)
      BY <1>3, RunOne
    <2>2. Last(moves) = moves[1]
      BY <1>3 DEF Last
    <2> HIDE DEF to, x
    <2> QED BY <1>2, <1>3, <2>1, <2>2 DEF to, x
  <1>4. CASE moves = <<moves[1], moves[2]>> /\ Aims(p, moves[1]) /\ Aims(p, moves[2])
    <2>1. to = Go(Go(at, moves[1], lang, from), moves[2], lang, from)
      BY <1>4, RunTwo
    <2>2. Going(Go(at, moves[1], lang, from))
      BY <1>4, GoGoes
    <2>3. Last(moves) = moves[2]
      BY <1>4 DEF Last
    <2> QED BY <1>2, <1>4, <2>1, <2>2, <2>3
  <1> QED BY <1>1, <1>3, <1>4 DEF Aimed

-----------------------------------------------------------------------------
(* The controls of the pages. *)

AllTame(p, controls) == \A c \in controls : Tame(p, c)

LEMMA AimedMoves ==
  ASSUME NEW p
  PROVE  /\ Aimed(p, <<>>)
         /\ \A m : Aims(p, m) => Aimed(p, <<m>>)
         /\ \A m, n : Aims(p, m) /\ Aims(p, n) => Aimed(p, <<m, n>>)
  BY DEF Aimed

LEMMA AimsAre ==
  ASSUME NEW p
  PROVE  /\ Aims(p, SignIn) /\ Aims(p, SignOut) /\ Aims(p, GoBack) /\ Aims(p, To("bare", "HOME"))
         /\ \A s \in Screens : Aims(p, navigate(s)) /\ Aims(p, Replaced(s))
  BY DEF Aims, navigate, Replaced

LEMMA TameCall ==
  ASSUME NEW p, NEW hook, NEW moves, Aimed(p, moves)
  PROVE  /\ Tame(p, Press(moves)) /\ Tame(p, Call(hook, moves)) /\ Tame(p, Once(hook, moves))
         /\ hook \in LeadingOn => /\ Tame(p, Kept(Call(hook, moves)))
                                  /\ Tame(p, Kept(Once(hook, moves)))
  <1>1. Tame(p, Press(moves)) /\ Tame(p, Call(hook, moves)) /\ Tame(p, Once(hook, moves))
    BY DEF Tame, Press, Call, Once
  <1>2. ASSUME hook \in LeadingOn
        PROVE  Tame(p, Kept(Call(hook, moves))) /\ Tame(p, Kept(Once(hook, moves)))
    BY <1>2 DEF Tame, Press, Call, Once, Kept
  <1> QED BY <1>1, <1>2

\* Links to a page, with its language, and the controls that stay.
LEMMA TameLinks ==
  ASSUME NEW p
  PROVE  /\ Tame(p, Back) /\ Tame(p, Retry) /\ Tame(p, Narrow) /\ Tame(p, Leave)
         /\ \A s \in Screens : /\ Tame(p, LocaleLink(s)) /\ Tame(p, Press(<<navigate(s)>>))
                               /\ Tame(p, Press(<<Replaced(s)>>))
  <1>1. Tame(p, Back)
    BY AimedMoves, AimsAre, TameCall DEF Back
  <1>2. Tame(p, Retry) /\ Tame(p, Narrow) /\ Tame(p, Leave)
    BY AimedMoves DEF Tame, Press, Retry, Narrow, Leave
  <1>3. ASSUME NEW s \in Screens
        PROVE  /\ Tame(p, LocaleLink(s)) /\ Tame(p, Press(<<navigate(s)>>))
               /\ Tame(p, Press(<<Replaced(s)>>))
    <2>1. Tame(p, Press(<<navigate(s)>>)) /\ Tame(p, Press(<<Replaced(s)>>))
      BY AimedMoves, AimsAre, TameCall
    <2>2. LocaleLink(s) = Press(<<navigate(s)>>)
      BY DEF LocaleLink, OpenIn, navigate
    <2> QED BY <2>1, <2>2
  <1> QED BY <1>1, <1>2, <1>3

\* Links without a language: home, and the known ones.
LEMMA TameBare ==
  /\ \A p : Tame(p, Link("HOME"))
  /\ \A p, s : s \in Pages /\ <<p, s>> \in BareLinks => Tame(p, Link(s))
  <1>1. ASSUME NEW p, NEW s, Aims(p, To("bare", s)) PROVE Tame(p, Link(s))
    BY <1>1, AimedMoves, TameCall DEF Link, OpenIn
  <1> QED BY <1>1, AimsAre DEF Aims

\* A mutation whose callback belongs to its page.
LEMMA TameMutation ==
  ASSUME NEW p
  PROVE  /\ \A hook : Tame(p, Once(hook, <<>>)) /\ Tame(p, Call(hook, <<>>))
         /\ \A hook, s : s \in Screens => Tame(p, Once(hook, <<navigate(s)>>))
         /\ \A hook : Tame(p, Once(hook, <<To("bare", "HOME"), SignOut>>))
  BY AimedMoves, AimsAre, TameCall

\* An awaited one.
LEMMA TameKept ==
  ASSUME NEW p, NEW hook \in LeadingOn, NEW s \in Screens
  PROVE  /\ Tame(p, Kept(Once(hook, <<Replaced(s)>>)))
         /\ Tame(p, Kept(Once(hook, <<SignIn, Replaced(s)>>)))
         /\ Tame(p, Kept(Call(hook, <<SignOut, navigate(s)>>)))
  BY AimedMoves, AimsAre, TameCall

LEMMA TameSets ==
  ASSUME NEW p
  PROVE  /\ AllTame(p, {})
         /\ \A A, B : AllTame(p, A) /\ AllTame(p, B) => AllTame(p, A \union B)
         /\ \A c : Tame(p, c) => AllTame(p, {c})
         /\ \A q, A : AllTame(p, A) => AllTame(p, When(q, A))
  BY DEF AllTame, When

\* The screens that the controls name, and the links among them that bear no language.
LEMMA Named ==
  /\ Pages \subseteq Screens /\ "DISCOVER" \in Screens
  /\ \A s \in {"HOME", "LOGIN", "REGISTER", "FORGOT_PASSWORD", "PROFILE", "PROFILE_EDIT",
               "PUBLIC_PROFILE", "SETTINGS", "MY_SHELF", "ADD_BOOK", "BOOK_DETAIL", "EDIT_BOOK",
               "BROWSE", "CATALOGUE", "MAP", "EXCHANGES", "EXCHANGE_DETAIL", "INCOMING_REQUESTS",
               "PRIVACY_POLICY", "TERMS_OF_SERVICE", "ACCOUNT_DELETION", "SUPPORT",
               "HOW_IT_WORKS", "COMMUNITY", "EMAIL_VERIFY_PENDING", "SOCIAL_AUTH_ERROR"} :
        s \in Pages /\ s \in Screens
  BY DEF Pages, PATHS, Screens, ServerPaths

LEMMA BareOnes ==
  /\ \A p \in {"EMAIL_VERIFY_CONFIRM", "EMAIL_VERIFY_PENDING", "PASSWORD_RESET_CONFIRM"} :
        Tame(p, Link("LOGIN"))
  /\ Tame("EMAIL_VERIFY_CONFIRM", Link("EMAIL_VERIFY_PENDING"))
  /\ Tame("SOCIAL_AUTH_ERROR", Link("REGISTER"))
  /\ Tame("PASSWORD_RESET_CONFIRM", Link("FORGOT_PASSWORD"))
  /\ Tame("EXCHANGES", Link("INCOMING_REQUESTS")) /\ Tame("EXCHANGES", Link("CATALOGUE"))
  /\ Tame("BOOK_DETAIL", Link("CATALOGUE")) /\ Tame("MY_SHELF", Link("ADD_BOOK"))
  /\ Tame("CATALOGUE", Link("PROFILE_EDIT")) /\ Tame("ADD_BOOK", Link("PROFILE_EDIT"))
  BY Named, TameBare DEF BareLinks

-----------------------------------------------------------------------------
(* The pages, one by one. *)

LEMMA TameLayout == ASSUME NEW p, NEW in PROVE AllTame(p, Layout(p, in))
  <1>1. AllTame(p, HeaderLinks) /\ AllTame(p, Footer)
    BY TameLinks, Named DEF AllTame, HeaderLinks, Footer
  <1>2. AllTame(p, NotificationPanel)
    BY TameLinks, TameMutation, Named DEF AllTame, NotificationPanel, NotificationRow
  <1>3. AllTame(p, ProfileDropdown)
    <2>1. Tame(p, handleLogout)
      BY TameKept, Named DEF handleLogout, LeadingOn
    <2> QED BY <2>1, TameLinks, Named DEF AllTame, ProfileDropdown
  <1>4. AllTame(p, MobileNavDrawer(in))
    BY <1>1, TameLinks, TameSets, Named DEF MobileNavDrawer
  <1>5. AllTame(p, HeaderBar(in))
    BY <1>2, <1>3, <1>4, TameSets DEF HeaderBar
  <1> QED BY <1>1, <1>5, TameSets DEF Layout

LEMMA TameAuthPages == ASSUME NEW page \in AuthPages, NEW d PROVE AllTame(page, AuthPage(page, d))
  <1>1. /\ Tame("LOGIN", handleLoginSubmit)
        /\ Tame("REGISTER", Kept(Once("register", <<Replaced("LOGIN")>>)))
    <2>1. Tame("REGISTER", Kept(Once("register", <<Replaced("LOGIN")>>)))
      BY TameKept, Named DEF LeadingOn
    <2>2. Aims("LOGIN", SignIn) /\ Aims("LOGIN", Replaced("RETURN"))
      BY AimsAre DEF Aims, Replaced
    <2>3. Aimed("LOGIN", <<SignIn, Replaced("RETURN")>>) /\ "login" \in LeadingOn
      BY <2>2, AimedMoves DEF LeadingOn
    <2> QED BY <2>1, <2>3, TameCall DEF handleLoginSubmit
  <1>2. AllTame(page, AuthSplitPanel) /\ AllTame(page, SocialLogin)
    BY TameLinks, Named DEF AllTame, AuthSplitPanel, SocialLogin
  <1>3. AllTame("LOGIN", LoginForm(d))
    BY <1>1, TameLinks, Named DEF LoginForm, AllTame, When, navigateTo, SocialLogin
  <1>4. AllTame("REGISTER", RegisterForm(d))
    BY <1>1, TameLinks, Named DEF RegisterForm, AllTame, When, navigateTo, SocialLogin
  <1>5. AllTame("FORGOT_PASSWORD", ForgotPasswordForm(d))
    BY TameLinks, TameMutation, Named DEF ForgotPasswordForm, AllTame, When, navigateTo
  <1>6. page = "LOGIN" \/ page = "REGISTER" \/ page = "FORGOT_PASSWORD"
    BY DEF AuthPages
  <1> QED BY <1>2, <1>3, <1>4, <1>5, <1>6, TameSets DEF AuthPage

LEMMA TameLonePages ==
  ASSUME NEW d
  PROVE  /\ AllTame("ONBOARDING", OnboardingPage(d))
         /\ AllTame("SOCIAL_AUTH_CALLBACK", SocialAuthCallbackPage(d))
         /\ AllTame("SOCIAL_AUTH_ERROR", SocialAuthErrorPage)
         /\ AllTame("EMAIL_VERIFY_CONFIRM", EmailVerifyConfirmPage(d))
         /\ AllTame("EMAIL_VERIFY_PENDING", EmailVerifyPendingPage(d))
         /\ AllTame("PASSWORD_RESET_CONFIRM", PasswordResetConfirmPage(d))
  <1>1. \A p : /\ Tame(p, Kept(Once("onboarding", <<Replaced("HOME")>>)))
               /\ Tame(p, Kept(Once("exchangeSocialToken", <<SignIn, Replaced("HOME")>>)))
               /\ Tame(p, Kept(Once("exchangeSocialToken", <<Replaced("SOCIAL_AUTH_ERROR")>>)))
    BY TameKept, Named DEF LeadingOn
  <1>2. AllTame("ONBOARDING", OnboardingPage(d))
    BY <1>1, TameLinks, Named DEF OnboardingPage, AllTame, When
  <1>3. AllTame("SOCIAL_AUTH_CALLBACK", SocialAuthCallbackPage(d))
    BY <1>1, TameLinks, Named DEF SocialAuthCallbackPage, AllTame
  <1>4. AllTame("SOCIAL_AUTH_ERROR", SocialAuthErrorPage)
    BY BareOnes DEF SocialAuthErrorPage, AllTame
  <1>5. AllTame("EMAIL_VERIFY_CONFIRM", EmailVerifyConfirmPage(d))
    BY BareOnes DEF EmailVerifyConfirmPage, AllTame
  <1>6. AllTame("EMAIL_VERIFY_PENDING", EmailVerifyPendingPage(d))
    BY BareOnes, TameMutation DEF EmailVerifyPendingPage, AllTame, When
  <1>7. AllTame("PASSWORD_RESET_CONFIRM", PasswordResetConfirmPage(d))
    BY BareOnes, TameMutation DEF PasswordResetConfirmPage, AllTame, When
  <1> QED BY <1>2, <1>3, <1>4, <1>5, <1>6, <1>7

LEMMA TameSwapModal == ASSUME NEW p, NEW d PROVE AllTame(p, SwapFlowModal(d))
  <1>1. AllTame(p, SelectOfferStep(d))
    BY TameLinks, Named DEF SelectOfferStep, AllTame, When
  <1>2. AllTame(p, ConfirmSwapStep(d))
    BY TameMutation DEF ConfirmSwapStep, AllTame, When
  <1>3. AllTame(p, SuccessStep)
    BY TameLinks, Named DEF SuccessStep, AllTame
  <1> QED BY <1>1, <1>2, <1>3 DEF SwapFlowModal, AllTame

LEMMA TameBookDetail == ASSUME NEW d PROVE AllTame("BOOK_DETAIL", BookDetailPage(d))
  <1> DEFINE p     == "BOOK_DETAIL"
             other == When(d.filled, AddToWishlist \union RequestSwap(d))
             mine  == IF d.mine THEN {LocaleLink("EDIT_BOOK")} ELSE other
  <1>1. AllTame(p, OwnerLink(d)) /\ AllTame(p, AddToWishlist) /\ AllTame(p, RequestSwap(d))
    BY TameLinks, TameMutation, TameSwapModal, Named
       DEF OwnerLink, AddToWishlist, RequestSwap, AllTame
  <1>2. AllTame(p, {}) /\ AllTame(p, {Back}) /\ AllTame(p, {LocaleLink("EDIT_BOOK")})
        /\ AllTame(p, EmptyPlaceholder("CATALOGUE"))
    BY TameLinks, BareOnes, Named DEF AllTame, EmptyPlaceholder
  <1>3. AllTame(p, other)
    BY <1>1, TameSets
  <1> HIDE DEF other
  <1>4. AllTame(p, mine)
    BY <1>2, <1>3
  <1>5. BookDetailPage(d) \in {{}, {Back} \union EmptyPlaceholder("CATALOGUE"),
                               {Back} \union OwnerLink(d) \union mine}
    BY DEF BookDetailPage, other
  <1> HIDE DEF mine
  <1>6. AllTame(p, {Back} \union EmptyPlaceholder("CATALOGUE"))
        /\ AllTame(p, {Back} \union OwnerLink(d))
    BY <1>1, <1>2, TameSets
  <1>7. AllTame(p, {Back} \union OwnerLink(d) \union mine)
    BY <1>4, <1>6, TameSets
  <1> QED BY <1>2, <1>5, <1>6, <1>7

LEMMA TameBookPages ==
  ASSUME NEW in, NEW d
  PROVE  /\ AllTame("ADD_BOOK", AddBookPage(d)) /\ AllTame("EDIT_BOOK", EditBookPage(d))
         /\ AllTame("MY_SHELF", MyShelfPage(d)) /\ AllTame("CATALOGUE", CataloguePage(in, d))
         /\ AllTame("MAP", MapPage(d))
  <1>1. AllTame("ADD_BOOK", AddBookPage(d))
    BY TameLinks, TameMutation, BareOnes, Named
       DEF AddBookPage, BarcodeScanner, ISBNLookup, TitleSearch, LocationMismatchBanner,
           BookForm, BookGenrePicker, AllTame, When
  <1>2. AllTame("EDIT_BOOK", EditBookPage(d))
    BY TameLinks, TameMutation, Named
       DEF EditBookPage, SaveBook, DeleteBook, PhotoUploader, BookForm, BookGenrePicker,
           AllTame, When
  <1>3. AllTame("MY_SHELF", MyShelfPage(d))
    BY TameLinks, TameMutation, BareOnes, Named
       DEF MyShelfPage, WishlistForm, WishlistItem, EmptyPlaceholder, BookCard, AllTame, When
  <1>4. AllTame("CATALOGUE", CataloguePage(in, d))
    <2> DEFINE p == "CATALOGUE"
    <2>1. /\ AllTame(p, BrowseBookCard(d)) /\ AllTame(p, MapView) /\ AllTame(p, Paging)
          /\ AllTame(p, BrowseEmptyState) /\ AllTame(p, SetLocationPrompt)
          /\ AllTame(p, SearchBar) /\ AllTame(p, FilterPanel) /\ AllTame(p, MobileFilterSheet)
          /\ AllTame(p, FilterChips) /\ AllTame(p, LocationMismatchBanner)
          /\ AllTame(p, CurrentLocationToggle)
      BY TameLinks, TameSwapModal, BareOnes, Named
         DEF BrowseBookCard, MapView, BookPopup, Paging, BrowseEmptyState, SetLocationPrompt,
             SearchBar, FilterPanel, MobileFilterSheet, FilterChips, LocationMismatchBanner,
             CurrentLocationToggle, AllTame
    <2> HIDE DEF p
    <2>2. AllTame(p, CataloguePage(in, d))
      BY <2>1, TameSets DEF CataloguePage
    <2> QED BY <2>2 DEF p
  <1>5. AllTame("MAP", MapPage(d))
    BY TameLinks, Named
       DEF MapPage, SidePanel, SidePanelHeader, SidePanelFilters, SidePanelBookList,
           BookMarker, AllTame, When
  <1> QED BY <1>1, <1>2, <1>3, <1>4, <1>5

LEMMA TameExchangePages ==
  ASSUME NEW d
  PROVE  /\ AllTame("EXCHANGE_DETAIL", ExchangeDetailPage(d))
         /\ AllTame("EXCHANGES", ExchangesPage(d))
         /\ AllTame("INCOMING_REQUESTS", IncomingRequestsPage(d))
  <1> DEFINE p == "EXCHANGE_DETAIL"
  <1>1. ASSUME NEW x PROVE AllTame(p, DetailActions(x))
    <2>1. AllTame(p, OwnerPending(x)) /\ AllTame(p, RequesterPending(x))
      BY TameMutation
         DEF OwnerPending, RequesterPending, ApproveCounter, CounterPicker, AllTame, When
    <2>2. /\ AllTame(p, Conditions(x)) /\ AllTame(p, ConfirmSwap(x)) /\ AllTame(p, SwapConfirmed)
          /\ AllTame(p, ReturnRequested(x)) /\ AllTame(p, {})
      BY TameMutation
         DEF Conditions, ConfirmSwap, SwapConfirmed, ReturnRequested, AllTame, When
    <2> QED BY <2>1, <2>2 DEF DetailActions
  <1>2. AllTame(p, UNION {DetailActions(x) : x \in SomeView(d)})
    BY <1>1 DEF AllTame
  <1>3. AllTame(p, RatingPrompt(d)) /\ AllTame(p, ChatPanel(d)) /\ AllTame(p, {Back})
    BY TameLinks, TameMutation
       DEF RatingPrompt, ChatPanel, MessageInput, MeetupSuggestionPanel, AllTame, When
  <1>4. AllTame(p, ExchangeDetailPage(d))
    <2> DEFINE actions == UNION {DetailActions(x) : x \in SomeView(d)}
               rating == When(d.deal \in {"completed", "returned"}, RatingPrompt(d))
               chat == When(d.deal \in CHAT_ELIGIBLE, ChatPanel(d))
    <2>1. AllTame(p, rating) /\ AllTame(p, chat)
      BY <1>3, TameSets
    <2>2. ExchangeDetailPage(d)
            = When(d.load = "ready", {Back} \union actions \union rating \union chat)
      BY DEF ExchangeDetailPage
    <2>3. AllTame(p, actions)
      BY <1>2
    <2> HIDE DEF actions, rating, chat
    <2>4. AllTame(p, {Back} \union actions)
      BY <1>3, <2>3, TameSets
    <2>5. AllTame(p, {Back} \union actions \union rating)
      BY <2>1, <2>4, TameSets
    <2>6. AllTame(p, {Back} \union actions \union rating \union chat)
      BY <2>1, <2>5, TameSets
    <2> QED BY <2>2, <2>6, TameSets
  <1>5. AllTame("EXCHANGES", ExchangesPage(d))
    BY TameLinks, BareOnes, Named DEF ExchangesPage, ExchangeCard, EmptyPlaceholder, AllTame, When
  <1>6. AllTame("INCOMING_REQUESTS", IncomingRequestsPage(d))
    BY TameLinks, TameMutation, Named DEF IncomingRequestsPage, IncomingCard, AllTame, When
  <1> QED BY <1>4, <1>5, <1>6

LEMMA TameSitePages ==
  ASSUME NEW p, NEW in, NEW d
  PROVE  /\ AllTame(p, HomePage(in, d)) /\ AllTame(p, BrowseLandingPage(in, d))
         /\ AllTame(p, HowItWorksPage(in)) /\ AllTame(p, CommunityPage(in))
         /\ AllTame(p, SupportPage) /\ AllTame(p, AccountDeletionPage)
         /\ AllTame(p, PrivacyPolicyPage) /\ AllTame(p, TermsOfServicePage)
         /\ AllTame(p, UnsubscribePage(d)) /\ AllTame(p, NotFoundPage)
  <1>1. AllTame(p, HomePage(in, d))
    <2>1. AllTame(p, HomeSearch) /\ AllTame(p, HomeCta(in)) /\ AllTame(p, BookCards)
      BY TameLinks, Named DEF HomeSearch, HomeCta, BookCards, AllTame
    <2>2. AllTame(p, RecentlyAdded(d))
      BY <2>1, TameLinks, Named DEF RecentlyAdded, AllTame, When
    <2> QED BY <2>1, <2>2, TameSets DEF HomePage
  <1>2. AllTame(p, BrowseLandingPage(in, d))
    <2>1. AllTame(p, BrowseSearch) /\ AllTame(p, GenrePills) /\ AllTame(p, BookCards)
      BY TameLinks, Named DEF BrowseSearch, GenrePills, BookCards, AllTame
    <2>2. AllTame(p, BrowseRecent(in, d)) /\ AllTame(p, BrowseNearby(d))
      BY <2>1, TameLinks, Named DEF BrowseRecent, BrowseNearby, AllTame
    <2> QED BY <2>1, <2>2, TameSets DEF BrowseLandingPage
  <1>3. AllTame(p, HowItWorksPage(in)) /\ AllTame(p, CommunityPage(in))
    BY TameLinks, Named
       DEF HowItWorksPage, CommunityPage, CommunityHero, CommunityFaq, CommunityCta, AllTame
  <1>4. /\ AllTame(p, SupportPage) /\ AllTame(p, AccountDeletionPage)
        /\ AllTame(p, PrivacyPolicyPage) /\ AllTame(p, TermsOfServicePage)
        /\ AllTame(p, UnsubscribePage(d)) /\ AllTame(p, NotFoundPage)
    BY TameLinks, TameBare, Named
       DEF SupportPage, AccountDeletionPage, PrivacyPolicyPage, TermsOfServicePage,
           UnsubscribePage, NotFoundPage, AllTame, When
  <1> QED BY <1>1, <1>2, <1>3, <1>4

LEMMA TameAccountPages ==
  ASSUME NEW p, NEW d
  PROVE  /\ AllTame(p, ProfilePage(d)) /\ AllTame(p, EditProfilePage(d))
         /\ AllTame(p, PublicProfilePage(d)) /\ AllTame(p, SettingsPage(d))
  <1>1. AllTame(p, ProfilePage(d)) /\ AllTame(p, EditProfilePage(d))
    BY TameLinks, TameMutation, Named
       DEF ProfilePage, EditProfilePage, EditProfileForm, GenrePicker, AvatarUpload, AllTame, When
  <1>2. AllTame(p, PublicProfilePage(d))
    BY TameLinks, TameMutation, Named
       DEF PublicProfilePage, BlockUserButton, ReportDialog, RatingsList, AllTame, When
  <1>3. AllTame(p, SettingsPage(d))
    BY TameMutation
       DEF SettingsPage, LocationSection, NotificationPreferencesSection, PrivacySection,
           PasswordChangeSection, BlockedUsersList, UnblockButton, DataExportButton,
           CancelDeletion, DeleteAccountDialog, AllTame, When
  <1> QED BY <1>1, <1>2, <1>3

LEMMA TameViews ==
  ASSUME NEW page \in Pages \union {"NOT_FOUND"}, NEW in, NEW d
  PROVE  AllTame(page, View(page, in, d))
  <1>1. CASE page \in AuthPages
    BY <1>1, TameAuthPages DEF View, AuthPages
  <1>2. CASE page \notin AuthPages
    BY <1>2, TameLonePages, TameBookDetail, TameBookPages, TameExchangePages, TameSitePages,
       TameAccountPages DEF View
  <1> QED BY <1>1, <1>2

\* Whatever page is shown, to whomever.
LEMMA TameOffered ==
  ASSUME NEW page \in Pages \union {"NOT_FOUND"}, NEW in \in BOOLEAN,
         NEW c \in Offered[page][in]
  PROVE  Tame(page, c) /\ c.moves # <<>>
  <1> DEFINE shown(p, n) == {x \in Layout(p, n) \union UNION {View(p, n, d) : d \in Data} :
                               x.moves # <<>>}
             S == Pages \union {"NOT_FOUND"}
  <1>1. Offered = [p \in S |-> [n \in BOOLEAN |-> shown(p, n)]]
    BY DEF Offered
  <1> HIDE DEF shown
  <1>2. Offered[page][in] = shown(page, in)
    <2> HIDE DEF S
    <2>1. page \in S
      BY DEF S
    <2> QED BY <1>1, <2>1
  <1>3. c \in Layout(page, in) \union UNION {View(page, in, d) : d \in Data} /\ c.moves # <<>>
    BY <1>2 DEF shown
  <1> QED BY <1>3, TameLayout, TameViews DEF AllTame

-----------------------------------------------------------------------------
(* The inductive invariant. *)

\* A call under way was asked with a control of its page, in a language of the site.
Asked(call) ==
    /\ Tame(call.page, call.control)
    /\ call = [control |-> call.control, page |-> call.page, lang |-> call.lang,
               from |-> call.from, alive |-> call.alive]
    /\ call.lang \in Languages /\ call.from \in Seq(Seg)

Waiting ==
    /\ calls \in Seq({calls[i] : i \in DOMAIN calls})
    /\ \A i \in DOMAIN calls : Asked(calls[i])

\* Every entry of the history starts with a language, and whoever waits for an answer asked
\* with a control of some page.
NavInv ==
    /\ Going(At(hist, member))
    /\ Waiting
    /\ AnswersStayWhereAsked /\ LinksLand

LEMMA StartGoes ==
  ASSUME NavInv
  PROVE  /\ Going(At(hist, member)) /\ Speaking /\ member \in BOOLEAN
         /\ hist \in Seq(Stop) /\ hist # <<>> /\ Shown(hist) \in Stop
         /\ Page(hist) \in Pages \union {"NOT_FOUND"} /\ <<>> \in Seq(Seg)
  <1>1. Going(At(hist, member)) /\ <<>> \in Seq(Seg)
    BY WordPaths DEF NavInv
  <1>2. hist \in Seq(Stop) /\ hist # <<>> /\ member \in BOOLEAN
    BY <1>1 DEF Going, At
  <1>3. Shown(hist) \in Stop
    BY <1>2, LastStop DEF Shown
  <1>4. Speaking
    BY <1>3 DEF Speaking, Language, Stop
  <1>5. Page(hist) \in Pages \union {"NOT_FOUND"}
    BY SomePage DEF Page
  <1> QED BY <1>1, <1>2, <1>3, <1>4, <1>5

LEMMA NoLapseAtAll ==
  ASSUME lapse' = NoLapse PROVE AnswersStayWhereAsked' /\ LinksLand'
  BY DEF NoLapse, AnswersStayWhereAsked, LinksLand

\* What waits goes on waiting, whatever page comes next.
LEMMA ArriveKeeps ==
  ASSUME NEW at, Going(at), NEW T, NEW rest \in Seq(T),
         \A i \in DOMAIN rest : Asked(rest[i]),
         Arrive(at, rest)
  PROVE  Going(At(hist, member))' /\ Waiting'
  <1>1. Going(At(hist, member))'
    BY DEF Arrive, Going, At
  <1>2. calls' = [i \in DOMAIN rest |->
                    [rest[i] EXCEPT !.alive = @ /\ Mounted(at.hist) = Mounted(hist)]]
    BY DEF Arrive
  <1>3. DOMAIN rest = 1..Len(rest) /\ Len(rest) \in Nat
    OBVIOUS
  <1>4. DOMAIN calls' = 1..Len(rest)
    BY <1>2, <1>3
  <1>5. calls' \in Seq({calls'[i] : i \in DOMAIN calls'})
    <2>1. calls' = [i \in 1..Len(rest) |-> calls'[i]]
      BY <1>2, <1>3
    <2> QED BY <1>3, <1>4, <2>1, IsASeq
  <1>6. ASSUME NEW i \in DOMAIN calls' PROVE Asked(calls'[i])
    <2>1. i \in DOMAIN rest /\ Asked(rest[i])
      BY <1>3, <1>4
    <2>2. calls'[i] = [rest[i] EXCEPT !.alive = @ /\ Mounted(at.hist) = Mounted(hist)]
      BY <1>2, <2>1
    <2> QED BY <2>1, <2>2 DEF Asked
  <1> QED BY <1>1, <1>5, <1>6 DEF Waiting

LEMMA PressedKeeps ==
  ASSUME NavInv, NEW c, Tame(Page(hist), c), c.moves # <<>>, Pressed(c) PROVE NavInv'
  <1> DEFINE at == Run(At(hist, member), c.moves, Language(hist), <<>>)
             x  == Missed(Page(hist), c.moves, at, <<>>)
  <1>1. Arrive(at, calls) /\ lapse' = x
    BY DEF Pressed
  <1>2. Going(at) /\ x[1] # "late" /\ (x[1] = "missed" => KnownMiss(x[2], x[3]))
    BY StartGoes, RunGoes DEF Speaking, Tame
  <1> HIDE DEF at, x
  <1>3. Going(At(hist, member))' /\ Waiting'
    BY <1>1, <1>2, ArriveKeeps DEF NavInv, Waiting
  <1>4. AnswersStayWhereAsked' /\ LinksLand'
    BY <1>1, <1>2 DEF AnswersStayWhereAsked, LinksLand, KnownMiss
  <1> QED BY <1>3, <1>4 DEF NavInv

LEMMA CalledKeeps ==
  ASSUME NavInv, NEW c, Tame(Page(hist), c), Called(c) PROVE NavInv'
  <1> DEFINE call == [control |-> c, page |-> Page(hist), lang |-> Language(hist),
                      from |-> Shown(hist).returnUrl, alive |-> TRUE]
             S == {calls[i] : i \in DOMAIN calls}
  <1>1. calls' = Append(calls, call) /\ lapse' = NoLapse /\ UNCHANGED <<member, hist>>
    BY DEF Called
  <1>2. calls \in Seq(S) /\ \A i \in DOMAIN calls : Asked(calls[i])
    BY DEF NavInv, Waiting
  <1>3. Asked(call)
    <2>1. Language(hist) \in Languages /\ Shown(hist).returnUrl \in Seq(Seg)
      BY StartGoes DEF Speaking, Stop
    <2> QED BY <2>1 DEF Asked
  <1> HIDE DEF call
  <1>4. /\ DOMAIN calls = 1..Len(calls) /\ DOMAIN calls' = 1..(Len(calls) + 1)
        /\ Len(calls) \in Nat
        /\ \A i \in 1..Len(calls) : calls'[i] = calls[i]
        /\ calls'[Len(calls) + 1] = call
    <2>1. calls \in Seq(S \union {call})
      BY <1>2
    <2> HIDE DEF S
    <2> QED BY <1>1, <2>1, AppendProperties
  <1>5. calls' \in Seq({calls'[i] : i \in DOMAIN calls'})
    <2>1. calls' \in Seq(S \union {call})
      BY <1>1, <1>2
    <2>2. calls' = [i \in DOMAIN calls' |-> calls'[i]]
      BY <2>1
    <2> QED BY <1>4, <2>2, IsASeq
  <1>6. \A i \in DOMAIN calls' : Asked(calls'[i])
    BY <1>2, <1>3, <1>4
  <1>7. Going(At(hist, member))'
    BY <1>1 DEF NavInv, Going, At
  <1> QED BY <1>1, <1>5, <1>6, <1>7, NoLapseAtAll DEF NavInv, Waiting

LEMMA PressesKeep == ASSUME NavInv, Presses PROVE NavInv'
  <1>1. PICK c \in Offered[Page(hist)][member] : Pressed(c) \/ Called(c)
    BY DEF Presses
  <1>2. Tame(Page(hist), c) /\ c.moves # <<>>
    BY StartGoes, TameOffered
  <1> QED BY <1>1, <1>2, PressedKeeps, CalledKeeps

LEMMA LanguageToggleKeeps == ASSUME NavInv, LanguageToggle PROVE NavInv'
  <1>1. PICK l \in Languages \ {Language(hist)} :
          Arrive(Swapped(At(hist, member), Entry(<<l>> \o Tail(Shown(hist).path), <<>>)), calls)
    BY DEF LanguageToggle
  <1> DEFINE at == Swapped(At(hist, member), Entry(<<l>> \o Tail(Shown(hist).path), <<>>))
  <1>2. Going(at)
    <2>1. Tail(Shown(hist).path) \in Seq(Seg) /\ <<>> \in Seq(Seg)
      BY StartGoes DEF Stop
    <2>2. <<l>> \o Tail(Shown(hist).path) \in Seq(Seg)
      BY <2>1, InFront
    <2> QED BY <2>1, <2>2, StartGoes, Arrives
  <1> HIDE DEF at
  <1>3. Arrive(at, calls)
    BY <1>1 DEF at
  <1>4. Going(At(hist, member))' /\ Waiting'
    BY <1>2, <1>3, ArriveKeeps DEF NavInv, Waiting
  <1> QED BY <1>4, NoLapseAtAll DEF NavInv, LanguageToggle

\* Back in the browser, or out of the session.
LEMMA OneMoveKeeps ==
  ASSUME NavInv, NEW m \in {GoBack, SignOut},
         Arrive(Run(At(hist, member), <<m>>, Language(hist), <<>>), calls),
         lapse' = NoLapse
  PROVE  NavInv'
  <1> DEFINE at == Run(At(hist, member), <<m>>, Language(hist), <<>>)
  <1>1. Going(at)
    <2>1. Aimed("HOME", <<m>>)
      BY AimedMoves, AimsAre
    <2> QED BY <2>1, StartGoes, RunGoes DEF Speaking
  <1> HIDE DEF at
  <1>2. Arrive(at, calls)
    BY DEF at
  <1>3. Going(At(hist, member))' /\ Waiting'
    BY <1>1, <1>2, ArriveKeeps DEF NavInv, Waiting
  <1> QED BY <1>3, NoLapseAtAll DEF NavInv

LEMMA RemoveAtIndex ==
  ASSUME NEW T, NEW s \in Seq(T), NEW i \in 1..Len(s)
  PROVE  /\ RemoveAt(s, i) \in Seq(T) /\ Len(RemoveAt(s, i)) <= Len(s)
         /\ \A j \in DOMAIN RemoveAt(s, i) : \E k \in DOMAIN s : RemoveAt(s, i)[j] = s[k]
  <1> DEFINE a == SubSeq(s, 1, i - 1)
             b == SubSeq(s, i + 1, Len(s))
  <1>1. /\ a \in Seq(T) /\ Len(a) = i - 1
        /\ \A j \in 1..(i - 1) : a[j] = s[j]
    OBVIOUS
  <1>2. /\ b \in Seq(T) /\ Len(b) = Len(s) - i
        /\ \A j \in 1..(Len(s) - i) : b[j] = s[i + j]
    OBVIOUS
  <1>3. RemoveAt(s, i) = a \o b
    BY DEF RemoveAt
  <1> HIDE DEF a, b
  <1>4. /\ a \o b \in Seq(T) /\ Len(a \o b) <= Len(s)
        /\ DOMAIN (a \o b) = 1..(Len(s) - 1) /\ DOMAIN s = 1..Len(s)
    BY <1>1, <1>2
  <1>5. ASSUME NEW j \in 1..(Len(s) - 1) PROVE \E k \in DOMAIN s : (a \o b)[j] = s[k]
    <2>1. CASE j <= i - 1
      <3>1. (a \o b)[j] = s[j]
        BY <1>1, <1>2, <2>1
      <3>2. j \in DOMAIN s
        BY Len(s) \in Nat, DOMAIN s = 1..Len(s)
      <3> QED BY <3>1, <3>2
    <2>2. CASE ~(j <= i - 1)
      <3>1. (a \o b)[j] = b[j - (i - 1)]
        BY <1>1, <1>2, <2>2
      <3>2. b[j - (i - 1)] = s[j + 1]
        BY <1>2, <2>2
      <3>3. j + 1 \in DOMAIN s
        BY Len(s) \in Nat, DOMAIN s = 1..Len(s)
      <3> QED BY <3>1, <3>2, <3>3
    <2> QED BY <2>1, <2>2
  <1> QED BY <1>3, <1>4, <1>5

LEMMA AnsweredKeeps ==
  ASSUME NavInv, NEW i \in DOMAIN calls, NEW accepted \in BOOLEAN, Answered(i, accepted)
  PROVE  NavInv' /\ Len(calls') <= Len(calls)
  <1> DEFINE call  == calls[i]
             moves == Moved(call, accepted)
             at    == Run(At(hist, member), moves, call.lang, call.from)
             rest  == RemoveAt(calls, i)
             S     == {calls[k] : k \in DOMAIN calls}
             x     == Missed(call.page, moves, at, call.from)
  <1>1. /\ Arrive(at, rest)
        /\ lapse' = IF moves = <<>> THEN NoLapse
                    ELSE IF call.alive THEN x
                    ELSE <<"late", call.page, call.control.call>>
    BY DEF Answered
  <1>2. /\ calls \in Seq(S) /\ \A k \in DOMAIN calls : Asked(calls[k])
        /\ Tame(call.page, call.control)
        /\ call.lang \in Languages /\ call.from \in Seq(Seg)
    BY DEF NavInv, Waiting, Asked
  <1>3. Aimed(call.page, moves)
    BY <1>2, AimedMoves DEF Moved, Tame
  <1>4. Going(at) /\ x[1] # "late" /\ (moves # <<>> /\ x[1] = "missed" => KnownMiss(x[2], x[3]))
    BY <1>2, <1>3, StartGoes, RunGoes
  <1>5. rest \in Seq(S) /\ (\A j \in DOMAIN rest : Asked(rest[j])) /\ Len(rest) <= Len(calls)
    <2> HIDE DEF S, rest
    <2>1. DOMAIN calls = 1..Len(calls)
      BY <1>2
    <2>2. /\ rest \in Seq(S) /\ Len(rest) <= Len(calls)
          /\ \A j \in DOMAIN rest : \E k \in DOMAIN calls : rest[j] = calls[k]
      BY <1>2, <2>1, RemoveAtIndex DEF rest
    <2> QED BY <1>2, <2>2
  <1>6. Going(At(hist, member))' /\ Waiting' /\ Len(calls') <= Len(calls)
    <2> HIDE DEF at, rest, S
    <2>1. Going(At(hist, member))' /\ Waiting'
      BY <1>1, <1>4, <1>5, ArriveKeeps
    <2>2. Len(calls') = Len(rest)
      BY <1>1, <1>5 DEF Arrive
    <2> QED BY <1>5, <2>1, <2>2
  <1>7. CASE moves = <<>>
    <2>1. lapse' = NoLapse
      <3> HIDE DEF call, moves, at, x
      <3> QED BY <1>1, <1>7
    <2> QED BY <1>6, <2>1, NoLapseAtAll DEF NavInv
  <1>8. CASE moves # <<>> /\ ~call.alive
    <2>1. call.control.kept
      BY <1>8 DEF Moved
    <2>2. call.control.call \in LeadingOn
      BY <1>2, <2>1 DEF Tame
    <2>3. lapse' = <<"late", call.page, call.control.call>>
      <3> HIDE DEF call, moves, at, x
      <3> QED BY <1>1, <1>8
    <2>4. lapse'[1] = "late" /\ lapse'[3] = call.control.call
      <3> HIDE DEF call
      <3> QED BY <2>3
    <2> QED BY <1>6, <2>2, <2>4 DEF NavInv, AnswersStayWhereAsked, LinksLand, LeadingOn
  <1>9. CASE moves # <<>> /\ call.alive
    <2> HIDE DEF call, moves, at, x
    <2>1. lapse' = x
      BY <1>1, <1>9
    <2>2. AnswersStayWhereAsked' /\ LinksLand'
      BY <1>4, <1>9, <2>1 DEF AnswersStayWhereAsked, LinksLand, KnownMiss
    <2> QED BY <1>6, <2>2 DEF NavInv
  <1> QED BY <1>6, <1>7, <1>8, <1>9

LEMMA NextKeeps == NavInv /\ [Next]_vars => NavInv'
  <1> SUFFICES ASSUME NavInv, [Next]_vars PROVE NavInv'
    OBVIOUS
  <1>1. CASE Presses
    BY <1>1, PressesKeep
  <1>2. CASE LanguageToggle
    BY <1>2, LanguageToggleKeeps
  <1>3. CASE BrowserBack
    BY <1>3, OneMoveKeeps DEF BrowserBack
  <1>4. CASE SessionEnds
    BY <1>4, OneMoveKeeps DEF SessionEnds
  <1>5. CASE Answer
    BY <1>5, AnsweredKeeps DEF Answer
  <1>6. CASE UNCHANGED vars
    BY <1>6 DEF vars, NavInv, Waiting, Going, At, AnswersStayWhereAsked, LinksLand
  <1> QED BY <1>1, <1>2, <1>3, <1>4, <1>5, <1>6 DEF Next

\* The app is opened at an address, with a language or without.
\* A page's address, with a language.
LocalPath(l, p) == <<l>> \o PathTo(p)

LEMMA AddressesAre ==
  ASSUME NEW a \in Addresses
  PROVE  \/ \E p \in Pages, l \in Languages : a = <<<<l>> \o PathTo(p), p>>
         \/ \E p \in Pages \union DOMAIN ServerPaths : a = <<PathTo(p), p>>
  <1>1. Addresses = {<<PathTo(p), p>> : p \in Pages \union DOMAIN ServerPaths}
                      \union {<<LocalPath(l, p), p>> : l \in Languages, p \in Pages}
    BY DEF Addresses, LocalPath
  <1>2. \/ \E p \in Pages, l \in Languages : a = <<LocalPath(l, p), p>>
        \/ \E p \in Pages \union DOMAIN ServerPaths : a = <<PathTo(p), p>>
    BY <1>1
  <1> QED BY <1>2, Zenon DEF LocalPath

LEMMA AddressLands ==
  ASSUME NEW a \in Addresses, NEW lang \in Languages, NEW in \in BOOLEAN
  PROVE  LET e == Route(Entry(a[1], <<>>), lang, in)
         IN /\ e \in Stop
            /\ \/ PageAt(Tail(e.path)) = Meant(To("address", a[2]), in, <<>>)
               \/ KnownMiss("address", a[2])
  <1> DEFINE e == Route(Entry(a[1], <<>>), lang, in)
  <1>1. <<>> \in Seq(Seg) /\ \A p : To("address", p).screen = p
    BY WordPaths DEF To
  <1>2. CASE \E p \in Pages, l \in Languages : a = <<<<l>> \o PathTo(p), p>>
    <2>1. PICK p \in Pages, l \in Languages : a = <<<<l>> \o PathTo(p), p>>
      BY <1>2
    <2>2. a[1] = <<l>> \o PathTo(p) /\ a[2] = p
      BY <2>1
    <2>3. <<l>> \o PathTo(p) \in Seq(Seg)
      BY WordPaths, InFront
    <2>4. e \in Stop
      BY <1>1, <2>2, <2>3, RouteStops
    <2>5. PageAt(Tail(e.path)) = Allowed(p, in)
      BY <2>2, LocalLands
    <2>6. Meant(To("address", p), in, <<>>) = Allowed(p, in)
      BY <1>1, MeantIsAllowed
    <2> QED BY <2>2, <2>4, <2>5, <2>6
  <1>3. CASE \E p \in Pages \union DOMAIN ServerPaths : a = <<PathTo(p), p>>
    <2>1. PICK p \in Pages \union DOMAIN ServerPaths : a = <<PathTo(p), p>>
      BY <1>3
    <2>2. a[1] = PathTo(p) /\ a[2] = p
      BY <2>1
    <2>3. e \in Stop
      BY <1>1, <2>2, WordPaths, RouteStops
    <2>4. CASE p \in Bare
      <3>1. PageAt(Tail(e.path)) = Allowed(p, in)
        BY <2>2, <2>4, BareLands
      <3>2. p \in Pages
        BY <2>4 DEF Bare, Pages, PATHS
      <3>3. Meant(To("address", p), in, <<>>) = Allowed(p, in)
        BY <1>1, <3>2, MeantIsAllowed
      <3> QED BY <2>2, <2>3, <3>1, <3>3
    <2>5. CASE p \notin Bare
      <3>1. KnownMiss("address", p)
        BY <2>5 DEF KnownMiss, BareLinks, Bare
      <3> QED BY <2>2, <2>3, <3>1
    <2> QED BY <2>4, <2>5
  <1>4. \/ \E p \in Pages, l \in Languages : a = <<<<l>> \o PathTo(p), p>>
        \/ \E p \in Pages \union DOMAIN ServerPaths : a = <<PathTo(p), p>>
    BY AddressesAre
  <1> QED BY <1>2, <1>3, <1>4, Zenon

LEMMA InitKeeps == Init => NavInv
  <1> SUFFICES ASSUME Init PROVE NavInv
    OBVIOUS
  <1>1. member \in BOOLEAN /\ calls = <<>>
    BY DEF Init
  <1>2. Waiting
    BY <1>1 DEF Waiting
  <1>3. PICK a \in Addresses, lang \in Languages :
          LET e == Route(Entry(a[1], <<>>), lang, member) IN
          /\ hist = <<e>>
          /\ lapse = IF PageAt(Tail(e.path)) = Meant(To("address", a[2]), member, <<>>)
                     THEN NoLapse ELSE <<"missed", "address", a[2]>>
    BY DEF Init
  <1> DEFINE e == Route(Entry(a[1], <<>>), lang, member)
  <1>4. e \in Stop
    BY <1>1, AddressLands
  <1>5. \/ lapse = NoLapse
        \/ lapse = <<"missed", "address", a[2]>> /\ KnownMiss("address", a[2])
    <2>1. \/ PageAt(Tail(e.path)) = Meant(To("address", a[2]), member, <<>>)
          \/ KnownMiss("address", a[2])
      BY <1>1, AddressLands, Zenon
    <2>2. lapse = IF PageAt(Tail(e.path)) = Meant(To("address", a[2]), member, <<>>)
                  THEN NoLapse ELSE <<"missed", "address", a[2]>>
      BY <1>3, Zenon
    <2> DEFINE here == PageAt(Tail(e.path))
               there == Meant(To("address", a[2]), member, <<>>)
    <2>3. here = there \/ KnownMiss("address", a[2])
      BY <2>1, Zenon
    <2>4. lapse = IF here = there THEN NoLapse ELSE <<"missed", "address", a[2]>>
      BY <2>2, Zenon
    <2> HIDE DEF here, there
    <2> QED BY <2>3, <2>4
  <1>6. Going(At(hist, member))
    <2> HIDE DEF e
    <2>1. hist = <<e>>
      BY <1>3 DEF e
    <2> QED BY <1>1, <1>4, <2>1 DEF Going, At
  <1>7. AnswersStayWhereAsked /\ LinksLand
    BY <1>5 DEF NoLapse, AnswersStayWhereAsked, LinksLand, KnownMiss
  <1> QED BY <1>2, <1>6, <1>7 DEF NavInv

-----------------------------------------------------------------------------
(* The theorems. *)

\* Wherever the user goes, every entry of the history has an address with a language, and
\* every call under way was made by a control of the page it says.
THEOREM RouterStands == Spec => []NavInv
  BY InitKeeps, NextKeeps, PTL DEF Spec

\* However many calls are under way, and wherever the user goes in the meantime: an answer
\* moves only who has stayed on the page that asked, but for those that lead into the app or
\* out of it. The callbacks of mutate() end with their page; what follows an await does not.
THEOREM AnswersStay == Spec => []AnswersStayWhereAsked
  <1>1. NavInv => AnswersStayWhereAsked
    BY DEF NavInv
  <1> QED BY <1>1, RouterStands, PTL

\* Whatever languages the site has: every control, answer and address leads to the page it
\* names, or where the guards send the user instead, but for the server's two addresses
\* without a page, the known links without a language, and the way back to the page that a
\* guest was sent away from.
THEOREM EveryAddressLands == Spec => []LinksLand
  <1>1. NavInv => LinksLand
    BY DEF NavInv
  <1> QED BY <1>1, RouterStands, PTL

-----------------------------------------------------------------------------
(* The types. *)

Bounded ==
    /\ Len(hist) <= MaxHistory /\ Len(calls) <= MaxCalls
    /\ lapse[1] \in {"none", "missed", "late"}

LEMMA NextBounds ==
  ASSUME NavInv, Bounded, [Next]_vars
  PROVE  Bounded'
  <1> DEFINE S == {calls[k] : k \in DOMAIN calls}
  <1>1. /\ calls \in Seq(S) /\ Len(calls) \in Nat /\ Len(calls) <= MaxCalls
        /\ \A k \in DOMAIN calls : Asked(calls[k])
    BY LenProperties DEF NavInv, Waiting, Bounded
  <1> HIDE DEF S
  <1>2. ASSUME NEW at, Arrive(at, calls)
        PROVE  Len(hist') <= MaxHistory /\ Len(calls') <= MaxCalls
    BY <1>1, <1>2 DEF Arrive
  <1>3. \A p, moves, at, from : Missed(p, moves, at, from)[1] \in {"none", "missed"}
    BY DEF Missed, NoLapse
  <1>4. NoLapse[1] = "none"
    BY DEF NoLapse
  <1>5. CASE Presses
    <2>1. PICK c \in Offered[Page(hist)][member] : Pressed(c) \/ Called(c)
      BY <1>5 DEF Presses
    <2>2. CASE Pressed(c)
      BY <1>2, <1>3, <2>2 DEF Pressed, Bounded
    <2>3. CASE Called(c)
      <3>1. PICK call : calls' = Append(calls, call)
        BY <2>3 DEF Called
      <3>2. calls \in Seq(S \union {call})
        BY <1>1
      <3>3. Len(calls') = Len(calls) + 1
        BY <3>1, <3>2, AppendProperties
      <3>4. Len(calls') <= MaxCalls
        BY <1>1, <2>3, <3>3, HistoryAssumption DEF Called
      <3> QED BY <1>4, <2>3, <3>4 DEF Called, Bounded
    <2> QED BY <2>1, <2>2, <2>3
  <1>6. CASE LanguageToggle \/ BrowserBack \/ SessionEnds
    BY <1>2, <1>4, <1>6 DEF LanguageToggle, BrowserBack, SessionEnds, Bounded
  <1>7. CASE Answer
    <2>1. PICK i \in DOMAIN calls, accepted \in BOOLEAN : Answered(i, accepted)
      BY <1>7 DEF Answer
    <2>2. Len(calls') <= Len(calls) /\ Len(calls') \in Nat
      BY <2>1, AnsweredKeeps, LenProperties DEF NavInv, Waiting
    <2>3. Len(hist') <= MaxHistory
      BY <2>1 DEF Answered, Arrive
    <2>4. lapse'[1] \in {"none", "missed", "late"}
      BY <1>3, <1>4, <2>1 DEF Answered
    <2>5. Len(calls') <= MaxCalls
      BY <1>1, <2>2, HistoryAssumption
    <2> QED BY <2>3, <2>4, <2>5 DEF Bounded
  <1>8. CASE UNCHANGED vars
    BY <1>8 DEF vars, Bounded
  <1> QED BY <1>5, <1>6, <1>7, <1>8 DEF Next

LEMMA InitBounds == ASSUME Init PROVE Bounded
  <1>1. PICK e : hist = <<e>>
    BY DEF Init
  <1>2. Len(hist) = 1 /\ Len(calls) = 0
    BY <1>1 DEF Init
  <1>3. lapse[1] \in {"none", "missed"}
    BY DEF Init, NoLapse
  <1> QED BY <1>2, <1>3, HistoryAssumption DEF Bounded

\* The router keeps its types: a history that is never empty, of addresses with a language.
THEOREM RouterTypes == Spec => []TypeOK
  <1>1. Init => NavInv /\ Bounded
    BY InitKeeps, InitBounds
  <1>2. NavInv /\ Bounded /\ [Next]_vars => (NavInv /\ Bounded)'
    BY NextKeeps, NextBounds
  <1>3. NavInv /\ Bounded => TypeOK
    <2> SUFFICES ASSUME NavInv, Bounded PROVE TypeOK
      OBVIOUS
    <2>1. hist \in Seq(Stop) /\ hist # <<>> /\ member \in BOOLEAN
      BY StartGoes
    <2>2. Len(hist) \in Nat \ {0} /\ \A i \in DOMAIN hist : hist[i] \in Stop
      BY <2>1, EmptySeq, LenProperties, ElementOfSeq
    <2>3. \A i \in DOMAIN hist : Head(hist[i].path) \in Languages
      BY <2>2 DEF Stop
    <2>4. Len(hist) \in 1..MaxHistory
      BY <2>2, HistoryAssumption DEF Bounded
    <2> QED BY <2>1, <2>3, <2>4 DEF TypeOK, Bounded
  <1> QED BY <1>1, <1>2, <1>3, PTL DEF Spec

=============================================================================
