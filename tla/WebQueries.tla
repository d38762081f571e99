------------------------------- MODULE WebQueries -------------------------------
(***************************************************************************)
(* The query and mutation hooks of the web app, features/*/hooks, with the  *)
(* parts of the server's data named as in MobileQueries.  The user's own    *)
(* account, which the mobile app keeps in its store, is a query here: "me". *)
(***************************************************************************)
EXTENDS QueryTable

discoveryKeys(k) == <<"discovery", k, "place">>
bookKeys(k)      == <<"books", k>>
detailOfBook     == bookKeys("detail") \o <<"b">>
wishlistKeys     == <<"wishlist", "list">>
exchangeKeys(k)  == <<"exchanges", k>>
detailOfExchange == exchangeKeys("detail") \o <<"e">>
messagingKeys(k) == <<"messaging", k, "e">>
notificationKeys(k) == <<"notifications", k>>
profileKeys(k)   == <<"profile", k>>
ratingKeys(k, id) == <<"ratings", k, id>>
blockKeys        == <<"blocks", "list">>

useBrowseBooks    == Query(discoveryKeys("browse"), {"market", "average"})
useMapBooks       == Query(discoveryKeys("browse"), {"market", "average"})
useRadiusCounts   == Query(discoveryKeys("radius-counts"), {"market"})
useNearbyCount    == Query(discoveryKeys("nearby-count"), {"market"})
useCommunityStats ==
    Query(discoveryKeys("community-stats"), {"market", "exchange", "ratings"})
useBooks ==
    Query(bookKeys("list") \o <<"filters">>, {"market", "average"})
useBook ==
    Query(detailOfBook, {"book", "average", "picture", "place"})
useMyShelf        == Query(bookKeys("my-shelf"), {"shelf", "picture", "place"})
useWishlist       == Query(wishlistKeys, {"wishlist"})
nested == {"average", "swaps", "picture", "cover"}
useExchanges ==
    Query(exchangeKeys("list") \o <<"filters">>,
          {"exchange", "request", "preview"} \cup nested)
useExchange ==
    Query(detailOfExchange, {"exchange", "preview"} \cup nested)
rivalDetail       == Query(exchangeKeys("detail") \o <<"r">>, {"rival"})
useIncomingRequests ==
    Query(exchangeKeys("incoming") \o <<"list", "filters">>, {"incoming"} \cup nested)
useIncomingRequestCount ==
    Query(exchangeKeys("incoming") \o <<"count">>, {"incoming"})
useMessages ==
    Query(messagingKeys("messages"), {"messages", "chat", "picture"})
useMeetupSuggestions ==
    Query(messagingKeys("meetup-suggestions"), {"chat", "place"})
useNotifications  == Query(notificationKeys("list"), {"notices"})
useNotificationPreferences ==
    Query(notificationKeys("preferences"), {"preferences"})
useProfile        == Query(profileKeys("me"), {"me", "swaps"})
usePublicProfile ==
    Query(profileKeys("detail") \o <<"u">>, {"profile", "average", "swaps"})
useExchangeRatingStatus ==
    Query(ratingKeys("exchange-status", "e"), {"ratings", "ratable", "picture"})
useUserRatings ==
    Query(ratingKeys("user-ratings", "u"), {"ratings", "picture"})
useBlocks         == Query(blockKeys, {"blocks"})

Queries ==
    {useBrowseBooks, useMapBooks, useRadiusCounts, useNearbyCount, useCommunityStats,
     useBooks, useBook, useMyShelf, useWishlist, useExchanges, useExchange, rivalDetail,
     useIncomingRequests, useIncomingRequestCount, useMessages, useMeetupSuggestions,
     useNotifications, useNotificationPreferences, useProfile, usePublicProfile,
     useExchangeRatingStatus, useUserRatings, useBlocks}

-----------------------------------------------------------------------------
shelf    == {bookKeys("list"), bookKeys("my-shelf")}
lists    == {exchangeKeys("list")}
incoming == {exchangeKeys("incoming")}
detail   == {detailOfExchange}

useCreateBook == Mutation("createBook", {"shelf", "market"}, shelf)
useUpdateBook ==
    [Mutation("updateBook", {"book", "shelf", "market", "cover", "wishlist"},
              shelf) EXCEPT !.sets = {detailOfBook}]
deleted == {"book", "shelf", "market", "wishlist", "exchange", "rival", "incoming",
            "messages", "chat", "preview", "ratings"}
useDeleteBook      == Mutation("deleteBook", deleted, shelf)
photos == {"book", "shelf", "market", "cover"}
useUploadBookPhoto ==
    Mutation("uploadBookPhoto", photos, {detailOfBook})
useDeleteBookPhoto ==
    Mutation("deleteBookPhoto", photos, {detailOfBook})
useReorderPhotos ==
    Mutation("reorderPhotos", photos, {detailOfBook})
useAddWishlistItem ==
    Mutation("addWishlistItem", {"wishlist"}, {wishlistKeys})
useRemoveWishlistItem ==
    Mutation("removeWishlistItem", {"wishlist"}, {wishlistKeys})

useCreateExchange ==
    Mutation("createExchange", {"request"}, lists \cup incoming)
useAcceptExchange ==
    Mutation("acceptExchange",
             {"exchange", "rival", "incoming", "book", "shelf", "market"},
             detail \cup incoming \cup lists)
useDeclineExchange ==
    Mutation("declineExchange", {"exchange", "incoming", "book"},
             detail \cup incoming \cup lists)
useCounterExchange ==
    Mutation("counterExchange", {"exchange", "incoming", "book"}, lists \cup incoming)
useApproveCounter ==
    Mutation("approveCounter", {"exchange"}, detail \cup lists \cup incoming)
useCancelExchange ==
    Mutation("cancelExchange", {"exchange", "book"}, detail \cup lists)
useAcceptConditions ==
    Mutation("acceptConditions", {"exchange", "chat"}, detail)
useConfirmSwap ==
    Mutation("confirmSwap", {"exchange", "swaps"}, detail \cup shelf)
useRequestReturn   == Mutation("requestReturn", {"exchange"}, detail)
useConfirmReturn ==
    Mutation("confirmReturn", {"exchange", "ratable", "book", "shelf", "market"},
             detail \cup shelf)

chat == {messagingKeys("messages")}
useSendMessage == Mutation("sendMessage", {"messages", "preview"}, chat)
useMarkMessagesRead ==
    Mutation("markMessagesRead", {"messages", "preview"}, chat)
useMarkNotificationRead ==
    Mutation("markNotificationRead", {"notices"}, {notificationKeys("list")})
useMarkAllNotificationsRead ==
    Mutation("markAllNotificationsRead", {"notices"},
             {notificationKeys("list")})
usePatchNotificationPreferences ==
    Mutation("patchNotificationPreferences", {"preferences"},
             {notificationKeys("preferences")})
useUpdateProfile ==
    [Mutation("updateProfile", {"me", "picture"}, {}) EXCEPT !.sets = {profileKeys("me")}]
useSetLocation ==
    Mutation("setLocation", {"me", "place"}, {profileKeys("me")})
\* It only says that the onboarding is done.
useCompleteOnboarding ==
    Mutation("completeOnboarding", {"me"}, {profileKeys("me")})
useSubmitRating ==
    Mutation("submitRating", {"ratings", "average"},
             {ratingKeys("exchange-status", "e")} \cup detail)
hidden == {"blocks", "exchange", "rival", "incoming", "market", "book", "profile", "chat"}
\* No query of the web app has a key that begins with "browse".
useBlockUser ==
    Mutation("blockUser", hidden,
             {<<"blocks">>, <<"exchanges">>, <<"browse">>})
useUnblockUser ==
    Mutation("unblockUser", hidden, useBlockUser.flags)

Mutations ==
    {useCreateBook, useUpdateBook, useDeleteBook, useUploadBookPhoto,
     useDeleteBookPhoto, useReorderPhotos, useAddWishlistItem, useRemoveWishlistItem,
     useCreateExchange, useAcceptExchange, useDeclineExchange, useCounterExchange,
     useApproveCounter, useCancelExchange, useAcceptConditions, useConfirmSwap,
     useRequestReturn, useConfirmReturn, useSendMessage, useMarkMessagesRead,
     useMarkNotificationRead, useMarkAllNotificationsRead,
     usePatchNotificationPreferences, useUpdateProfile, useSetLocation,
     useCompleteOnboarding, useSubmitRating, useBlockUser, useUnblockUser}

-----------------------------------------------------------------------------
\* The hooks leave the pages of discovery as they are until they are old.
Listings == {useBrowseBooks, useMapBooks, useRadiusCounts, useNearbyCount,
             useCommunityStats, useBooks}
ListedAgain ==
    {useBooks} \X {useCreateBook, useUpdateBook, useDeleteBook, useConfirmReturn}

\* The other gaps, grouped as in MobileQueries.
PhotoHooks == {useUploadBookPhoto, useDeleteBookPhoto, useReorderPhotos}
Rows == {useExchanges, useExchange, useIncomingRequests}
NestedGaps ==
    (Rows \X (PhotoHooks \cup {useUpdateBook, useUpdateProfile}))
    \cup ({useExchanges, useExchange} \X {useSendMessage, useMarkMessagesRead})
    \cup ({useIncomingRequests, usePublicProfile, useProfile} \X {useConfirmSwap})
    \cup ({useBook, useMyShelf, useMeetupSuggestions} \X {useSetLocation})
    \cup ({useBook, useMyShelf, useMessages, useUserRatings,
            useExchangeRatingStatus} \X {useUpdateProfile})
RatedGaps ==
    (Rows \cup {useBook, usePublicProfile}) \X {useSubmitRating}
DeletedGaps ==
    {useBook, useWishlist, useExchanges, useExchange, rivalDetail, useIncomingRequests,
     useIncomingRequestCount, useMessages, useMeetupSuggestions,
     useExchangeRatingStatus, useUserRatings} \X {useDeleteBook}
BlockGaps ==
    {useBook, useMessages, useMeetupSuggestions, usePublicProfile}
        \X {useBlockUser, useUnblockUser}

KnownGaps ==
    ((Listings \X Mutations) \ ListedAgain)
    \cup NestedGaps \cup RatedGaps \cup DeletedGaps \cup BlockGaps
    \cup ({useBook} \X {useAcceptExchange, useDeclineExchange, useCounterExchange,
                        useCancelExchange, useConfirmReturn})
    \cup ({useMyShelf} \X (PhotoHooks \cup {useAcceptExchange}))
    \cup ({useWishlist} \X {useUpdateBook})
    \cup ({useExchanges} \X {useAcceptConditions, useConfirmSwap, useRequestReturn,
                             useConfirmReturn})
    \cup ({useExchange} \X {useCounterExchange})
    \cup ({rivalDetail} \X {useAcceptExchange})
    \cup ({useMessages, useMeetupSuggestions} \X {useAcceptConditions})
    \cup ({useUserRatings} \X {useSubmitRating})
    \cup ({useExchangeRatingStatus} \X {useConfirmReturn})

\* The cache lives in the page and is not cleared at logout.
Client ==
    [sets |-> "whole", persists |-> FALSE, clears |-> FALSE, secret |-> {},
           gaps |-> KnownGaps]

WebCases == CasesOf(Client, Queries, Mutations)

=============================================================================
