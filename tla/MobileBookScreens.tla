---------------------------- MODULE MobileBookScreens ----------------------------
(***************************************************************************)
(* The screens of the mobile app about books: features/books/screens and    *)
(* the components they are made of.                                         *)
(***************************************************************************)
EXTENDS MobileMessageScreens

-----------------------------------------------------------------------------
(* HomeScreen *)

HomeSearchBar == {OpenIn("BrowseTab", "BrowseMap")}

\* Mutant: the scan button opens the search by title.
HomeQuickActionsSearch == {OpenIn("ScanTab", "BookSearch"), OpenTab("BrowseTab")}

HomeQuickActions == {OpenTab("ScanTab"), OpenTab("BrowseTab"), OpenIn("ProfileTab", "MyBooks")}

\* The steps that are not done yet; the third, a first exchange, opens nothing.
HomeGettingStarted(d) == When(d.empty, {OpenTab("ScanTab"), OpenTab("BrowseTab")})

\* Only the screen's own location permission decides whether books are shown.
HomeRecentlyAdded(d) ==
    CASE d.load = "loading" -> {}
      [] d.load = "missing" -> {Leave}
      [] OTHER -> IF d.empty THEN {OpenTab("ScanTab")}
                  ELSE {Open("BookDetail"), OpenTab("BrowseTab")}

HomeCommunitySection == {OpenTab("BrowseTab")}

\* A location that was denied is "missing" here; pulling the list down refreshes it all.
HomeScreen(d) ==
    HomeSearchBar \union HomeQuickActions \union HomeGettingStarted(d)
        \union HomeRecentlyAdded(d) \union HomeCommunitySection
        \union {Retry} \union When(d.load = "missing", {Leave})

-----------------------------------------------------------------------------
(* MyBooksScreen *)

\* A long press forgets the remembered choice and opens the sheet without the gate.
AddBookChoice == {OpenTab("ScanTab"), Open("AddBook")}
AddBookButton == {Verified(c) : c \in AddBookChoice}
LongPress     == AddBookChoice

MyBooksRow    == {Open("BookDetail"), Call("useDeleteBook", <<>>)}
MyBooksHeader == {Narrow}

MyBooksScreen(d) ==
    CASE d.load = "loading" -> {}
      [] d.load = "failed"  -> {Retry}
      [] OTHER              -> AddBookButton \union LongPress \union MyBooksHeader
                                   \union {Retry} \union When(~d.empty, MyBooksRow)

-----------------------------------------------------------------------------
(* BookDetailScreen *)

OwnerStrip(d) == When(~d.mine, {Open("UserProfile")})

OwnerCta == {Open("EditBook"), Once("useUpdateBook", <<>>)}

\* The requester's exchange of this book, if one runs, stands in place of the buttons.
ActiveExchange(d) ==
    IF d.deal = "pending" THEN {Once("useCancelExchange", <<>>)} ELSE {Open("ExchangeDetail")}

useWishlistToggle == {Once("useAddWishlistItem", <<>>), Once("useRemoveWishlistItem", <<>>)}

RequestCta(d) == When(~d.empty, {Verified(Open("RequestSwap"))}) \union useWishlistToggle

\* The status found is none for an exchange that was cancelled or has expired; after one that
\* was declined the book may be requested again.
useBookExchangeStatus(d) == IF d.deal \in {"cancelled", "expired"} THEN "none" ELSE d.deal

RE_REQUESTABLE_STATUSES == {"cancelled", "expired", "declined"}

ExchangeAwareCta(d) ==
    IF useBookExchangeStatus(d) \in Deals \ RE_REQUESTABLE_STATUSES
    THEN ActiveExchange(d) ELSE RequestCta(d)

BookDetailView(d) ==
    {Retry} \union OwnerStrip(d)
        \union IF d.mine THEN OwnerCta ELSE ReportSheet(d) \union ExchangeAwareCta(d)

BookDetailScreen(d) ==
    CASE d.load \in {"loading", "missing"} -> {}
      [] d.load = "failed"                 -> {Retry}
      [] OTHER                             -> BookDetailView(d)

-----------------------------------------------------------------------------
(* AddBookScreen, EditBookScreen *)

LocationMismatchBanner == {Once("useLocationManager", <<>>)}

\* After the tick: on to the list of the user's books, or to the new book's photos.
CheckDone ==
    {<<PopToTop, To("ProfileTab", "MyBooks")>>, <<PopToTop, To("ProfileTab", "EditBook")>>}

AddBookForm(d) == When(d.filled, {Once("useCreateBook", moves) : moves \in CheckDone})

AddBookScreen(d) == AddBookForm(d) \union LocationMismatchBanner

\* Three photos at most; the button is disabled while one is sent, the others are not.
BookPhotoManager(d) ==
    When(~d.filled, {Once("useUploadBookPhoto", <<>>)})
        \union When(~d.empty, {Call("useDeleteBookPhoto", <<>>), Call("useReorderBookPhotos", <<>>)})

EditBookSave(d) == When(d.filled, {Once("useUpdateBook", <<GoBack>>)})
EditBookDelete  == {Once("useDeleteBook", <<GoBack>>)}

EditBookScreen(d) ==
    CASE d.load = "loading"             -> {}
      [] d.load \in {"failed", "missing"} -> {Retry}
      [] OTHER -> BookPhotoManager(d) \union EditBookSave(d) \union EditBookDelete

-----------------------------------------------------------------------------
(* WishlistScreen *)

\* An entry that names no book of the app opens nothing.
WishlistCard(d) == When(d.filled, {Open("BookDetail")})
                       \union {Call("useRemoveWishlistItem", <<>>)}

AddWishlistSheet(d) == When(d.filled, {Once("useAddWishlistItem", <<>>)})

WishlistScreen(d) ==
    CASE d.load = "loading" -> {}
      [] d.load = "failed"  -> {Retry}
      [] OTHER -> AddWishlistSheet(d) \union When(~d.empty, {Retry} \union WishlistCard(d))

-----------------------------------------------------------------------------
(* BookSearchScreen, BrowseMapScreen *)

BookSearchResult == {Open("ScanResult")}

BookSearchScreen(d) ==
    {Narrow} \union
    CASE d.load = "loading"          -> {}
      [] d.load = "failed"           -> {Retry}
      [] d.load = "ready" /\ ~d.empty -> BookSearchResult
      [] OTHER                       -> {Open("AddBook")}

MapSearchBar      == {Narrow}
MapFilters        == {Narrow}
MapLoadErrorBanner(d) == When(d.load = "failed", {Retry})

BrowseMapHeader(d) ==
    MapSearchBar \union MapFilters \union MapLoadErrorBanner(d) \union LocationMismatchBanner

\* A marker that stands for one book, or a row of the sheet; a cluster only zooms in.
BrowseMapBooks(d) ==
    When(d.load = "ready" /\ ~d.empty, {Open("BookDetail"), Retry})

BrowseMapScreen(d) == BrowseMapHeader(d) \union BrowseMapBooks(d)

=============================================================================
