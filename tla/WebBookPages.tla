------------------------------ MODULE WebBookPages ------------------------------
(***************************************************************************)
(* The web app's pages about books: features/books, features/discovery, the *)
(* map, and the modal that a swap is asked for with.                        *)
(***************************************************************************)
EXTENDS WebAuthPages

BookCard       == {LocaleLink("BOOK_DETAIL")}
BookPopup      == {LocaleLink("BOOK_DETAIL")}
BookMarker     == {LocaleLink("BOOK_DETAIL")}

LocationMismatchBanner == {Link("PROFILE_EDIT")}
SetLocationPrompt      == {Link("PROFILE_EDIT")}

-----------------------------------------------------------------------------
(* SwapFlowModal: pick a book of one's own, confirm, sent. *)

\* Empty: the user's shelf. A book that is not available can be picked as well.
SelectOfferStep(d) == {LocaleLink("ADD_BOOK")} \union When(~d.empty, {Narrow})

ConfirmSwapStep(d) == When(d.filled, {Once("useCreateExchange", <<>>)})

SuccessStep == {LocaleLink("EXCHANGES"), Narrow}

SwapFlowModal(d) == SelectOfferStep(d) \union ConfirmSwapStep(d) \union SuccessStep

-----------------------------------------------------------------------------
(* BookDetailPage: mine is the user's own book. *)

AddToWishlist   == {Once("useAddWishlistItem", <<>>)}
OwnerLink(d)    == {LocaleLink(IF d.mine THEN "PROFILE" ELSE "PUBLIC_PROFILE")}
RequestSwap(d)  == SwapFlowModal(d)

\* Filled: the owner is not blocked.
BookDetailPage(d) ==
    CASE d.load = "loading"             -> {}
      [] d.load \in {"failed", "missing"} -> {Back} \union EmptyPlaceholder("CATALOGUE")
      [] OTHER ->
            {Back} \union OwnerLink(d)
                \union (IF d.mine THEN {LocaleLink("EDIT_BOOK")}
                        ELSE When(d.filled, AddToWishlist \union RequestSwap(d)))

-----------------------------------------------------------------------------
(* AddBookPage, EditBookPage *)

BarcodeScanner  == {Narrow}
ISBNLookup      == {Retry}
TitleSearch     == {Retry}
BookGenrePicker == {Narrow}

\* The form is checked before it is sent.
BookForm(d, call) == BookGenrePicker \union When(d.filled, {call})

AddBookPage(d) ==
    {Press(<<navigate("MY_SHELF")>>)} \union BarcodeScanner \union ISBNLookup \union TitleSearch
        \union LocationMismatchBanner
        \union BookForm(d, Once("useCreateBook", <<navigate("MY_SHELF")>>))

\* Mutant: the answer is awaited, and leads on from wherever the user is by then.
SaveBookAwaited == Kept(Once("useUpdateBook", <<navigate("BOOK_DETAIL")>>))

SaveBook   == Once("useUpdateBook", <<navigate("BOOK_DETAIL")>>)
DeleteBook == Once("useDeleteBook", <<navigate("MY_SHELF")>>)

\* Up to MAX_PHOTOS, which is more than the server takes.
PhotoUploader(d) == {Call("useDeleteBookPhoto", <<>>), Once("useUploadBookPhoto", <<>>)}

EditBookPage(d) ==
    When(d.load = "ready",
         {Press(<<navigate("BOOK_DETAIL")>>), DeleteBook} \union PhotoUploader(d)
             \union BookForm(d, SaveBook))

-----------------------------------------------------------------------------
(* MyShelfPage *)

WishlistForm(d) == When(d.filled, {Once("useAddWishlistItem", <<>>)})
WishlistItem    == {Call("useRemoveWishlistItem", <<>>)}

MyShelfPage(d) ==
    When(d.load = "ready",
         {Link("ADD_BOOK"), Narrow} \union WishlistForm(d)
             \union (IF d.empty THEN EmptyPlaceholder("ADD_BOOK") ELSE BookCard \union WishlistItem))

-----------------------------------------------------------------------------
(* CataloguePage and its filters *)

SearchBar             == {Narrow}
FilterPanel           == {Narrow}
MobileFilterSheet     == FilterPanel
FilterChips           == {Narrow}
CurrentLocationToggle == {Narrow}
BrowseEmptyState      == {Narrow}
Paging                == {Narrow}
MapView               == BookPopup \union {Narrow}

BrowseBookCard(d) == {LocaleLink("BOOK_DETAIL")} \union SwapFlowModal(d)

\* Missing: the profile has no location. A guest's browser says where it is.
CataloguePage(in, d) ==
    CASE in /\ d.load = "loading" -> {}
      [] in /\ d.load = "missing" -> SetLocationPrompt
      [] OTHER ->
            SearchBar \union FilterPanel \union MobileFilterSheet \union FilterChips
                \union When(in, LocationMismatchBanner \union CurrentLocationToggle)
                \union When(d.load # "failed",
                            IF d.empty THEN BrowseEmptyState
                            ELSE BrowseBookCard(d) \union MapView \union Paging)

-----------------------------------------------------------------------------
(* MapPage *)

SidePanelHeader   == {Narrow}
SidePanelFilters  == {Narrow}
SidePanelBookList == {Narrow}
SidePanel         == SidePanelHeader \union SidePanelFilters \union SidePanelBookList

\* Missing: neither the profile nor the browser says where the user is. Failed: the site
\* has no key for the map.
MapPage(d) ==
    CASE d.load = "missing" -> {LocaleLink("SETTINGS")}
      [] d.load = "failed"  -> {LocaleLink("BROWSE")}
      [] OTHER              -> {LocaleLink("BROWSE")} \union SidePanel
                                   \union When(~d.empty, BookMarker)

=============================================================================
