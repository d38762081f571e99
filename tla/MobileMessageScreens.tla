-------------------------- MODULE MobileMessageScreens ---------------------------
(***************************************************************************)
(* The mobile app's chat, notifications, ratings, blocks and reports, and   *)
(* its barcode scanner.                                                     *)
(***************************************************************************)
EXTENDS Controls

-----------------------------------------------------------------------------
(* ChatScreen *)

CHAT_WRITABLE == {"active", "swap_confirmed"}

\* Mutant: the chat hides the stack's header and brings none of its own.
ChatHeaderBare == {}

ChatHeader == {Back}

\* The input is disabled while a message is sent; a suggested place is sent as a message
\* of its own, and its rows are not.
MessageInput(d)       == When(d.filled, {Once("useSendMessage", <<>>)})
MeetupSuggestionPanel(d) == When(d.load = "ready", {Call("useSendMessage", <<>>)})
ReadOnlyBanner        == {}

\* isReadOnly and isLocked: the status the screen was opened with, and the socket's word.
chatDisabled(d) == d.deal \notin CHAT_WRITABLE \/ d.empty

handleSend(controls) == {Verified(c) : c \in controls}

ChatScreen(d) ==
    ChatHeader \union
    CASE d.load = "loading" -> {}
      [] d.load = "failed"  -> {Retry}
      [] OTHER -> IF chatDisabled(d) THEN ReadOnlyBanner
                  ELSE handleSend(MessageInput(d) \union MeetupSuggestionPanel(d))

-----------------------------------------------------------------------------
(* NotificationListScreen, NotificationPreferencesScreen *)

\* A notice that is tapped is marked as read, and leads to its exchange if it names one.
NotificationTaps ==
    {OpenIn("MessagesTab", "Chat"), OpenIn("MessagesTab", "ExchangeDetail"),
     Call("useMarkNotificationRead", <<>>)}

MarkAllHeader(d) == When(d.mine, {Once("useMarkAllRead", <<>>)})

NotificationListScreen(d) ==
    CASE d.load = "loading" -> {}
      [] d.load = "failed"  -> {Retry}
      [] OTHER -> {Retry} \union When(~d.empty, NotificationTaps \union MarkAllHeader(d))

NotificationPreferencesScreen(d) ==
    CASE d.load = "loading" -> {}
      [] d.load = "failed"  -> {Retry}
      [] OTHER              -> {Once("usePatchNotificationPreferences", <<>>)}

-----------------------------------------------------------------------------
(* MyReviewsScreen, UserReviewsScreen *)

MyReviewsScreen(d) ==
    CASE d.load = "loading"              -> {}
      [] d.load = "failed"               -> {Retry}
      [] OTHER                           -> When(~d.empty, {Retry, Narrow})

UserReviewsScreen(d) ==
    CASE d.load = "loading"              -> {}
      [] d.load = "failed"               -> {Retry}
      [] OTHER                           -> When(~d.empty, {Retry, Narrow})

-----------------------------------------------------------------------------
(* BlockedUsersScreen, ReportSheet *)

BlockedUser == {Once("useUnblockUser", <<>>)}

BlockedUsersScreen(d) ==
    CASE d.load = "loading" -> {}
      [] OTHER              -> {Retry} \union When(d.load = "ready" /\ ~d.empty, BlockedUser)

\* "Other" has to be described.
ReportSheet(d) == When(d.filled, {Once("useCreateReport", <<>>)})

-----------------------------------------------------------------------------
(* ScannerScreen, ScanResultScreen *)

\* A code that is an ISBN opens its result, once until the camera is started again.
Barcode(d) == When(d.filled, {Open("ScanResult")})

\* While the camera is not allowed the screen only asks for it.
ScannerScreen(d) ==
    CASE d.load = "loading" -> {}
      [] d.load = "failed"  -> {Leave}
      [] OTHER -> Barcode(d) \union {Open("BookSearch"), Open("AddBook"), Narrow}

ScanResultFailed  == {Retry, Open("AddBook")}
ScanResultUnknown == {Open("BookSearch"), Open("AddBook")}
ScanResultFound   == {Open("AddBook")}

\* A result that comes with its title from the search needs no lookup.
ScanResultScreen(d) ==
    CASE d.filled \/ d.load = "ready"     -> ScanResultFound
      [] ~d.filled /\ d.load = "failed"   -> ScanResultFailed
      [] ~d.filled /\ d.load = "missing"  -> ScanResultUnknown
      [] OTHER                            -> {}

=============================================================================
