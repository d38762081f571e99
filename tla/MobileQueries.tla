------------------------------ MODULE MobileQueries ------------------------------
(***************************************************************************)
(* The query and mutation hooks of the mobile app, features/*/hooks.        *)
(*                                                                          *)
(* What an answer is computed from, and a mutation changes, is a set of     *)
(* parts of the server's data (src/backend):                                *)
(*   book, shelf, market   a book's page and who may see it, the user's own *)
(*                         books, the books others see                      *)
(*   cover                 a book's title and photo, which rows of exchanges*)
(*                         carry                                            *)
(*   exchange, rival       an exchange of the user, and another one that an *)
(*                         accept declines or a deleted book takes along    *)
(*   request, incoming     a new exchange, those that wait for the user     *)
(*   messages, chat        a chat's messages, whether it is open            *)
(*   preview               last message and unread count of an exchange     *)
(*   ratings, ratable      the ratings given, whether an exchange takes one *)
(*   average, swaps        a user's average and count of swaps, which his   *)
(*                         profile and the rows that name him carry         *)
(*   picture, place        the user's own avatar; his location and its name *)
(*   profile               whether another user has a public profile        *)
(*   blocks, wishlist, notices, preferences                                 *)
(* Not followed: when a row was last saved (updated_at), the text of a      *)
(* profile, which the app keeps in authStore, and the notices that tasks    *)
(* write later.                                                             *)
(***************************************************************************)
EXTENDS QueryTable

useBrowseBooks     == Query(<<"browse", "filters">>, {"market", "average"})
useRadiusCounts    == Query(<<"radiusCounts", "place">>, {"market"})
useBookDetail ==
    Query(<<"book", "b">>, {"book", "average", "picture", "place"})
useMyBooks         == Query(<<"myBooks">>, {"shelf", "picture", "place"})
useUserBooks       == Query(<<"userBooks", "u">>, {"market", "average"})
useRecentBooks ==
    Query(<<"recentBooks", "place">>, {"market", "place", "average"})
useNearbyCount     == Query(<<"nearbyCount", "place">>, {"market", "place"})
useCommunityStats ==
    Query(<<"communityStats", "place">>, {"market", "place", "exchange", "ratings"})

useWishlist           == Query(<<"wishlist", "list">>, {"wishlist"})
useBookWishlistStatus == Query(<<"wishlist", "book", "b">>, {"wishlist"})

\* The two parties and the two books every row of an exchange carries.
nested == {"average", "swaps", "picture", "cover"}
useExchanges ==
    Query(<<"exchanges", "list">>, {"exchange", "request", "preview"} \cup nested)
useExchangeDetail ==
    Query(<<"exchanges", "detail", "e">>, {"exchange", "preview"} \cup nested)
rivalDetail         == Query(<<"exchanges", "detail", "r">>, {"rival"})
useIncomingRequests == Query(<<"exchanges", "incoming">>, {"incoming"} \cup nested)
useIncomingCount    == Query(<<"exchanges", "incoming", "count">>, {"incoming"})

useMessages ==
    Query(<<"messages", "e">>, {"messages", "chat", "picture"})
useMeetupSuggestions ==
    Query(<<"meetup-suggestions", "e">>, {"chat", "place"})
useNotifications         == Query(<<"notifications">>, {"notices"})
useNotificationPreferences ==
    Query(<<"notificationPreferences">>, {"preferences"})
useExchangeRatingStatus ==
    Query(<<"ratings", "exchange", "e">>, {"ratings", "ratable", "picture"})
useUserRatings           == Query(<<"ratings", "user", "u">>, {"ratings", "picture"})
useBlocks                == Query(<<"blocks", "list">>, {"blocks"})
usePublicProfile ==
    Query(<<"publicProfile", "u">>, {"profile", "average", "swaps"})

Queries ==
    {useBrowseBooks, useRadiusCounts, useBookDetail, useMyBooks, useUserBooks,
     useRecentBooks, useNearbyCount, useCommunityStats, useWishlist,
     useBookWishlistStatus, useExchanges, useExchangeDetail, rivalDetail,
     useIncomingRequests, useIncomingCount, useMessages, useMeetupSuggestions,
     useNotifications, useNotificationPreferences, useExchangeRatingStatus,
     useUserRatings, useBlocks, usePublicProfile}

-----------------------------------------------------------------------------
list     == <<"exchanges", "list">>
detail   == <<"exchanges", "detail", "e">>
incoming == <<"exchanges", "incoming">>
exchanges == {<<"exchanges">>}

useCreateBook ==
    Mutation("createBook", {"shelf", "market"},
             {<<"myBooks">>, <<"browse">>, <<"recentBooks">>, <<"nearbyCount">>})
useUpdateBook ==
    Mutation("updateBook", {"book", "shelf", "market", "cover", "wishlist"},
             {<<"book", "b">>, <<"myBooks">>, <<"browse">>, <<"recentBooks">>})
\* Its exchanges go with it, with their messages and ratings, and its wishlist entries.
deleted == {"book", "shelf", "market", "wishlist", "exchange", "rival", "incoming",
            "messages", "chat", "preview", "ratings"}
useDeleteBook ==
    Mutation("deleteBook", deleted,
             {<<"myBooks">>, <<"browse">>, <<"recentBooks">>, <<"nearbyCount">>})
photos == {"book", "shelf", "market", "cover"}
useUploadBookPhoto ==
    Mutation("uploadBookPhoto", photos, {<<"book", "b">>})
useDeleteBookPhoto ==
    Mutation("deleteBookPhoto", photos, {<<"book", "b">>})
useReorderBookPhotos ==
    Mutation("reorderBookPhotos", photos, {<<"book", "b">>})

useAddWishlistItem ==
    Mutation("addWishlistItem", {"wishlist"},
             {<<"wishlist", "list">>, <<"wishlist", "book", "b">>})
\* From a book; the wishlist screen names no book.
useRemoveWishlistItem ==
    Mutation("removeWishlistItem", {"wishlist"}, useAddWishlistItem.flags)
removeFromList ==
    Mutation("removeFromList", {"wishlist"}, {<<"wishlist", "list">>})

useCreateExchange ==
    Queued(exchanges, Mutation("createExchange", {"request"}, {list, incoming}))
useAcceptExchange ==
    Queued(exchanges,
           Mutation("acceptExchange",
                    {"exchange", "rival", "incoming", "book", "shelf", "market"},
                    {detail, incoming, list}))
useDeclineExchange ==
    Queued(exchanges, Mutation("declineExchange", {"exchange", "incoming", "book"},
                               {detail, incoming, list}))
useCounterExchange ==
    Queued(exchanges, Mutation("counterExchange", {"exchange", "incoming", "book"},
                               {detail, list, incoming}))
useApproveCounter ==
    Queued(exchanges, Mutation("approveCounter", {"exchange"}, {detail, list}))
useCancelExchangeDetailOnly ==
    Queued(exchanges, Mutation("cancelExchange", {"exchange", "book"}, {detail}))
useCancelExchange ==
    Queued(exchanges, Mutation("cancelExchange", {"exchange", "book"}, {detail, list}))
useAcceptConditions ==
    Queued(exchanges, Mutation("acceptConditions", {"exchange", "chat"}, {detail}))
useConfirmSwap ==
    Queued(exchanges \cup {<<"myBooks">>},
           Mutation("confirmSwap", {"exchange", "swaps"}, {detail, list, <<"myBooks">>}))
useCompleteExchange ==
    Mutation("completeExchange", {"exchange", "ratable", "book", "shelf", "market"},
             {detail, list, <<"myBooks">>})
useRequestReturn == Mutation("requestReturn", {"exchange"}, {detail})
useConfirmReturn ==
    Mutation("confirmReturn", {"exchange", "ratable", "book", "shelf", "market"},
             {detail, list, <<"myBooks">>})

useSendMessage ==
    [Queued({<<"messages">>}, Mutation("sendMessage", {"messages", "preview"}, {}))
        EXCEPT !.sets = {<<"messages", "e">>}]
useMarkMessagesRead ==
    Mutation("markMessagesRead", {"messages", "preview"}, {})
useMarkNotificationRead ==
    Mutation("markNotificationRead", {"notices"}, {<<"notifications">>})
useMarkAllRead ==
    Mutation("markAllRead", {"notices"}, {<<"notifications">>})
usePatchNotificationPreferences ==
    [Mutation("patchNotificationPreferences", {"preferences"}, {})
        EXCEPT !.optimistic = {<<"notificationPreferences">>}]
useSubmitRating ==
    Mutation("submitRating", {"ratings", "average"},
             {<<"ratings", "exchange", "e">>, detail})
\* Blocking cancels the exchanges of the two and hides each from the other.
hidden == {"blocks", "exchange", "rival", "incoming", "market", "book", "profile", "chat"}
useBlockUser ==
    Mutation("blockUser", hidden,
             {<<"blocks", "list">>, <<"exchanges">>, <<"browse">>})
useUnblockUser ==
    Mutation("unblockUser", hidden, useBlockUser.flags)
useLocationManager ==
    Mutation("locationManager", {"place"},
             {<<"nearbyCount">>, <<"recentBooks">>, <<"communityStats">>})

\* It sets the user of authStore and says nothing to the cache.
useUpdateProfile == Mutation("updateProfile", {"picture"}, {})

Mutations ==
    {useCreateBook, useUpdateBook, useDeleteBook, useUploadBookPhoto,
     useDeleteBookPhoto, useReorderBookPhotos, useAddWishlistItem,
     useRemoveWishlistItem, removeFromList, useCreateExchange, useAcceptExchange,
     useDeclineExchange, useCounterExchange, useApproveCounter, useCancelExchange,
     useAcceptConditions, useConfirmSwap, useCompleteExchange, useRequestReturn,
     useConfirmReturn, useSendMessage, useMarkMessagesRead, useMarkNotificationRead,
     useMarkAllRead, usePatchNotificationPreferences, useSubmitRating, useBlockUser,
     useUnblockUser, useLocationManager, useUpdateProfile}

-----------------------------------------------------------------------------
\* The hooks leave these lists of other people's books and statistics about them
\* as they are until they are old, but for the ones that somebody who changed a
\* book comes back to.
Listings == {useBrowseBooks, useRadiusCounts, useUserBooks, useRecentBooks,
             useNearbyCount, useCommunityStats}
ListedAgain ==
    ({useBrowseBooks} \X {useCreateBook, useUpdateBook, useDeleteBook,
                          useBlockUser, useUnblockUser})
    \cup ({useRecentBooks} \X {useCreateBook, useUpdateBook, useDeleteBook})
    \cup ({useNearbyCount} \X {useCreateBook, useDeleteBook})
    \cup ({useRecentBooks, useNearbyCount, useCommunityStats} \X {useLocationManager})

\* The other pairs of a query and a hook that changes its answer and says nothing:
\* what the row of an exchange or a book carries of other things,
PhotoHooks == {useUploadBookPhoto, useDeleteBookPhoto, useReorderBookPhotos}
Rows == {useExchanges, useExchangeDetail, useIncomingRequests}
NestedGaps ==
    (Rows \X (PhotoHooks \cup {useUpdateBook, useUpdateProfile}))
    \cup ({useExchanges, useExchangeDetail} \X {useSendMessage, useMarkMessagesRead})
    \cup ({useIncomingRequests, usePublicProfile} \X {useConfirmSwap})
    \cup ({useBookDetail, useMyBooks, useMeetupSuggestions} \X {useLocationManager})
    \cup ({useBookDetail, useMyBooks, useMessages, useUserRatings,
            useExchangeRatingStatus} \X {useUpdateProfile})

\* a partner's average, which a task computes after the rating was answered,
RatedGaps ==
    (Rows \cup {useBookDetail, usePublicProfile}) \X {useSubmitRating}

\* what a deleted book takes with it, what a block hides,
DeletedGaps ==
    {useBookDetail, useWishlist, useBookWishlistStatus, useExchanges, useExchangeDetail,
     rivalDetail, useIncomingRequests, useIncomingCount, useMessages,
     useMeetupSuggestions, useExchangeRatingStatus, useUserRatings} \X {useDeleteBook}
BlockGaps ==
    {useBookDetail, useMessages, useMeetupSuggestions, usePublicProfile}
        \X {useBlockUser, useUnblockUser}

\* and the hooks that forget a query of the thing itself.
KnownGaps ==
    ((Listings \X Mutations) \ ListedAgain)
    \cup NestedGaps \cup RatedGaps \cup DeletedGaps \cup BlockGaps
    \cup ({useBookDetail} \X {useAcceptExchange, useDeclineExchange, useCounterExchange,
                              useCancelExchange, useCompleteExchange, useConfirmReturn})
    \cup ({useMyBooks} \X (PhotoHooks \cup {useAcceptExchange}))
    \cup ({useWishlist, useBookWishlistStatus} \X {useUpdateBook})
    \cup ({useBookWishlistStatus} \X {removeFromList})
    \cup ({useExchanges} \X {useAcceptConditions, useRequestReturn})
    \cup ({rivalDetail} \X {useAcceptExchange})
    \cup ({useMessages} \X {useMarkMessagesRead})
    \cup ({useMessages, useMeetupSuggestions} \X {useAcceptConditions})
    \cup ({useUserRatings} \X {useSubmitRating})
    \cup ({useExchangeRatingStatus} \X {useCompleteExchange, useConfirmReturn})

\* App keeps every entry on the device but the ones under these keys.
Client == [sets |-> "append", persists |-> TRUE, clears |-> TRUE,
           secret |-> {"messages", "notifications", "exchanges"},
           gaps |-> KnownGaps]

MobileCases == CasesOf(Client, Queries, Mutations)

=============================================================================
