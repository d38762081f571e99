# A formal model of BookSwap

BookSwap lets people lend and swap books: a Django/Channels/Celery backend
(`src/backend`), a React web app (`src/frontend`) and a React Native app
(`src/mobile`). This directory holds TLA+ modules that model the parts of the
program where its rules live, configurations that check them with TLC on small
instances, and theorems that TLAPS proves for every instance.

The program's core is the *exchange*: two users negotiate over two books, agree
to conditions, hand the books over, confirm, and complete or return. Requests
run concurrently in several workers, mostly without transactions, next to three
scheduled tasks that write the same rows. That is modelled first and in full;
around it stand the chat of an exchange, and the two apps with their sessions,
caches, queue, screens and pages.

## Inventory

| Component | State | Operations | What is hard | Must hold |
|---|---|---|---|---|
| Exchanges (`backend/apps/exchanges`) | `ExchangeRequest` rows, `ConditionsAcceptance` rows | create, counter, approve-counter, accept, decline, cancel, accept-conditions, confirm-swap, complete, request-return, confirm-return | instances read without a lock and saved later; only accept, counter and confirm-swap lock; several saves per request without a transaction | agreed terms only, both parties at each stage, nothing confirmed is lost, one pending request per book |
| Exchange tasks (`exchanges/tasks.py`, beat schedule) | the same rows, `User.swap_count` | expire requests, expire conditions, auto-confirm | rows listed once and saved one by one; a task may die half way | everything settles; a swap is counted once |
| Books (`apps/books`) | owner, status, photos, wishlist | create, update, delete, photos, wishlist; status and owner are written by exchanges only | status check on create, lock on accept; limits checked by counting; deletion cascades to exchanges | a held book is off the market, a released one is back, ownership moves by a permanent swap only |
| Trust and safety (`apps/trust_safety`) | `Block` rows, reports | block, unblock, report | the block is committed before the exchanges are cancelled | blocked pairs have nothing running |
| Messaging (`apps/messaging`) | `Message` rows, a consumer object per socket | send (REST and WebSocket), typing, read receipts | the status is read before an await or an insert; blocks after connecting | no message after the chat is locked |
| WebSocket authentication (`bookswap/ws_first_msg_auth.py`) | a flag and a task per connection, a counter per user in the cache | connect, authenticate, time out, disconnect | timeout against authentication; two-step counter; lost decrements | at most ten connections per user |
| Ratings (`apps/ratings`) | `Rating` rows, averages on `User` | rate, recompute | aggregate read then saved by overlapping tasks | averages agree with the ratings at rest |
| Notifications (`apps/notifications`) | devices, push tickets, notifications | send, poll receipts, deactivate | receipts not ready, tickets that age out, retries | a dead token is deactivated, a live one is not |
| Accounts (`bookswap/views/account.py`, `bookswap/tasks.py`) | `deletion_requested_at`, `is_active` | request deletion, cancel, anonymise | cancel during the daily task | a cancelled deletion is never carried out |
| External calls (`bookswap/external_http.py`) | failure counter and open-until time in the cache | call through the breaker | shared by all workers without atomic updates | a dead service is left alone for the cool-down |
| Mobile session (`mobile/src/stores/authStore.ts`, `services/http.ts`) | store, tokens and profile on the device, a refresh promise all callers share | login, logout, idle timeout, hydrate, request, refresh, retry | concurrent 401s, a rotated token, a lost answer, a logout or login while calls are under way, a killed app | no spent refresh token is presented, everything names one account |
| Mobile queue (`mobile/src/lib/offlineMutationQueue.ts`, `hooks/useOfflineMutationQueue.ts`) | persisted list of mutations | enqueue, drain, age, retry, clear | enqueue during a drain, two drains, a killed app | no mutation vanishes or is tried too often |
| Query caches (hooks of both clients over TanStack Query) | entries, fetches in flight, the copy on the device | fetch, mutate, invalidate, set, persist, clear | an invalidation that overtakes or is overtaken by a fetch, logout, restart | an own change is shown or marked, nobody sees another account's data |
| Mobile screens (`mobile/src/features/*/screens`, `navigation`) | stacks of screens, mutations under way | every control, links, notifications, the verification gate | lazily mounted tabs, late answers, moves to screens that are not there | controls lead somewhere, screens can be left |
| Mobile socket (`mobile/src/services/websocket.ts`) | socket, timers | connect, back off, reconnect | timers against logout | not modelled |
| Web session (`frontend/src/features/auth`, `services`, the notification socket) | store per tab, refresh cookie and flag per browser | bootstrap, login, logout, social login, refresh | tabs share the cookie, a refresh overtakes a login | who is shown is who is signed in |
| Web pages (`frontend/src/routes`, `pages`, `features/*/pages`, `components/layout`) | history, mutations under way | every link and call, guards, redirects | links without a language, late answers | links lead to the page they name |
| Discovery, statistics, lookups, reports, operations | (queries, inserts, files) | | | not modelled, see below |

How they interact: both clients call the REST API and hold one socket per chat;
exchanges write the books' status and owner and the users' swap count; blocks
hide and cancel exchanges; messaging and ratings read the exchange's status;
every save of an exchange, a message or a rating enqueues a notification task.

## Modules

| Module | What it is |
|---|---|
| `ExchangeStatus` | the statuses, `VALID_TRANSITIONS` and the sets of statuses the code tests |
| `ExchangeBase` | the tables (`exchange`, `book`, `blocks`, `swapCount`), the slots (`job`) in which requests and tasks run, row locks, crashes, `TypeOK` |
| `Negotiation` | create, counter, approve-counter, accept, decline, cancel, expiry of requests, block and unblock |
| `Fulfilment` | accept-conditions, confirm-swap, complete, request-return, confirm-return, expiry of conditions, auto-confirmation |
| `ExchangeSystem` | both halves together, and the properties that need both |
| `Lifecycle` | the abstract specification: statuses move along the edges of the table |
| `Documented` | what docs, comments and tests say of exchanges and the code does not keep |
| `ExchangeScreens` | the exchange backend next to the buttons of both apps |
| `ChatSockets` | the server side of a chat: consumers, their authentication, the connection counter, REST messages, a block and the end of the exchange |
| `MobileSession` | the mobile app's store, tokens, interceptors and shared refresh |
| `MobileClient` | the session with the offline queue and its drains |
| `QueryCache` | one query and one mutation over TanStack Query, for any way a hook may treat them |
| `QueryTable` | how a table of hooks becomes the cases of `QueryCache` |
| `MobileQueries`, `WebQueries` | the tables: every query and mutation hook of the two clients |
| `Controls` | what a control of a screen is |
| `MobileBookScreens`, `MobileExchangeScreens`, `MobileMessageScreens`, `MobileAccountScreens` | every screen of the mobile app, by the controls it offers |
| `MobileNavigation` | the navigators around them: tabs, stacks, headers, links, notifications, answers |
| `WebSession` | the tabs of a browser: bootstrap, login, refresh, socket |
| `WebAuthPages`, `WebBookPages`, `WebExchangePages`, `WebSitePages` | every page of the web app, by the controls it offers |
| `WebNavigation` | the routes, guards and redirects around them, the history, answers |
| `MC...` | constants and symmetry for TLC |
| `ExchangeProofs`, `SerialProofs`, `MobileProofs`, `QueryCacheProofs`, `ChatProofs`, `WebSessionProofs`, `WebNavigationProofs`, `MobileNavigationProofs` | invariants and theorems |

Composition: `ExchangeSystem` is `Negotiation` and `Fulfilment` on the tables of
`ExchangeBase`; `ExchangeScreens` sets `MobileExchangeScreens` and
`WebExchangePages` next to both; `MobileClient` extends `MobileSession`;
`MCQueries` gives `QueryCache` the cases of `MobileQueries` and `WebQueries`;
the two navigation modules extend all screens or pages of their app.

### From code to state and steps

#### Exchanges

*Tables.* `exchange[x]` is a row of `exchange_requests`; the status `absent`
means that no row has that primary key yet. The nullable timestamps of the two
parties are sets of users (`accepted`, `confirmed`, `returned`), since the code
asks only whether they are NULL. `approvedBy` stands for `counter_approved_at`;
it remembers *who* approved, which the program does not store and which only
two properties read. `swap_type` is the boolean `permanent`. `book[b]` is the
owner and the status of a book.

*Steps.* The settings do not set `ATOMIC_REQUESTS`, so each ORM statement
outside `transaction.atomic()` commits on its own. A request is therefore a
sequence of steps of one slot, with a program counter (`job[s].pc`) and the
part of the in-memory instance that later statements use (`job[s].mem`): an
unlocked `get_object()` is the `...Read` step, its `save(update_fields=[...])`
is the `...Save` step, and it writes the named columns and no others. What the
code reads and checks before its first write is one step. The transactions of
counter and confirm-swap lock the row first and are one step. Accept is two
steps, because other requests can read and insert while it holds its locks;
until it commits, statements that write a row it has locked
(`select_for_update` with `select_related` locks the exchange, both books and
both users), or insert a row that refers to one, wait (`RowFree`, `BookFree`,
`UserFree`).

*Guards.* A guard is the handler's early returns; what a user may address is
`Visible`, from `get_queryset`. A request that is refused changes nothing and is
not a step. `transition_to` raising `ValueError` half way (accept-conditions) is
a step that ends the request after what it has already committed.

*Tasks.* Each task has a slot of its own (`Beat`): beat starts it at most once a
day, so it does not overlap itself, but it does overlap requests and the other
tasks. It lists a set of rows, then saves them one at a time without reading
them again.

*Crashes.* With `Crashes`, any slot may stop between two statements: committed
statements stay, an open transaction rolls back, nobody resumes the request.

#### The chat on the server

`conn[c]` is one connection with its consumer. A consumer handles one event at
a time; between two awaits nothing else of it runs, so a step goes from one
await (`pc`) to the next, and everything else may happen at each of them: the
client leaves, the timeout (a task of its own) closes the socket, the exchange
moves on, a block is committed, the key expires. Django's `cache.incr`,
`set` and `delete` are three steps, as they are three calls. Sending on a
socket that is closed already raises in the ASGI server and ends the consumer
without `disconnect()`: `Raises`. `past` is history: how many slots were lost
that way, how many messages were under way when the chat ended, and which were
stored between blocked parties.

#### The mobile session and its queue

JavaScript runs one callback at a time: a step is what runs between two awaits.
Every call of `http` is a slot of `reqs` with the token it carries; `refresh`
is the shared promise; `disk` is secure storage, `store` the auth store. The
server rotates the refresh token at every refresh and refuses the old one
(`server.refreshable`, `server.spent`); an answer may be lost. In `MobileClient`
the queue is a sequence on the device, a drain works on the copy it loaded when
it started (`drain[d].at`, `left`, `kept`) and writes back what it could not
send, except for what the server refused: a refused refresh counts as such,
since the interceptor passes its error on (`RefreshRefused`), and a broken one
as a failed try (`RefreshBroken`). Killing the app loses what is in memory and
keeps what is on the device.

#### Query caches

`QueryCache` watches one query with one mutation. What a hook does to the query
is a *case*: which keys its `onSuccess` invalidates or sets, whether it updates
optimistically or goes through the queue, whether logout clears the cache.
`MobileQueries` and `WebQueries` list the hooks with their keys as the source
spells them; `QueryTable!CaseOf` derives the case from key prefixes, as
`invalidateQueries` does. What a query shows is the set of calls whose effect
its data has, so the contents of rows play no part.

Which mutation changes the answer of which query follows from the *parts* of the
server's data that the one's view writes and the other's serializer reads (the
header of `MobileQueries` lists them): an exchange, a book's page, a user's
average and count of swaps, an avatar, and so on. A row of an exchange nests two
users and two books, so it reads `nested` too. A pair whose hook does not tell the
query is a gap of the code; each is listed in `KnownGaps`, in these groups: the
listings of other people's books; what rows carry of other things (title, photo,
avatar, last message; `NestedGaps`), among them the counts of swaps on the profiles,
which neither app fetches again after `useConfirmSwap`; the averages, which a task
computes after the rating was answered (`RatedGaps`); what a deleted book takes with
it (`DeletedGaps`); what a block hides (`BlockGaps`); and the hooks that forget a
query of the thing itself, such as the web's list after a confirmed return. Not
followed are `updated_at`, the profile that the mobile app keeps in `authStore` and
not in a query (its count of swaps grows old in the same way), and notices that
tasks write later.

#### Screens and pages

A screen is the set of controls it offers for the data it shows: the state of
its query, whether its list is empty, whether the data are the user's own,
whether its form is complete, and the view of the exchange it is about. A
control is what pressing it leads to: moves at once, and moves when the server
has answered its call. `MobileNavigation` and `WebNavigation` carry the moves
out as the navigation libraries do, and remember in `lapse` what the last step
did wrong: a move that was dropped, a screen that was closed by another one's
answer, a page that was missed.

#### The web session

`tab[t]` is the auth store of a tab with the promise of its refresh and its
notification socket; `cookie` and `flag` are shared by the tabs. The bootstrap
(`Boot`), an answered request (`Served`) and the return of a refresh
(`Returned`) are steps of their own; a login, a logout and another tab may come
between any two of them. The social callback makes two requests, each of which may
fail, wait for a refresh and be sent again: the exchange of the one-time token and
the profile (`CallbackExchanged`, `CallbackEnds`). The second carries the token of
the store if there is one by then (`bearer`), as `authRequestInterceptor` has it.
`past` is history: a refresh that overtook a login (`crossed`), a logged out page
that was revived (`revived`), a social login that took one account's token and
another's profile (`mixed`); `Overtaken` is any of them.

## What TLC checks

| Run | Instance | Question |
|---|---|---|
| `negotiation_interleaved` | 2 users, 3 books, 1 exchange, 2 workers, 2 counter-offers each, overlapping, crashes | do counter-offers alternate, is only what was agreed carried out, and unchanged, and do both apps offer what the server takes? |
| `negotiation_rivals` | the same, 2 exchanges, no counter-offers | does the unique constraint leave one pending request when creates race? |
| `fulfilment_interleaved` | 1 accepted exchange, temporary or permanent, 2 workers, all tasks, overlapping, crashes | do stale saves ever activate, confirm or hand over without both parties? is a confirmation ever lost? do both apps offer what the server takes? |
| `system_serial` | 2 exchanges over 3 books, 1 counter-offer each, one request at a time | are books locked and released with their exchanges, who approves and returns, what does a block leave, are swaps counted once, and do the rows implement `Lifecycle`? |
| `system_settles` | 1 permanent exchange, a worker and the tasks, overlapping, no crashes, fairness | does every request, acceptance and half-confirmed swap settle? |
| `chat_sockets` | 2 connections under a limit of 1, a REST request, 1 lost slot, a block, any status | is the counter right until its key lapses, and does an ended or blocked chat take no more messages than those under way? |
| `mobile_client` | 2 accounts, a screen, `getMe`, 1 drain, 1 mutation, 3 token pairs, 1 outage, 1 kill | is a spent refresh token presented only after a lost answer, do store, tokens and profile name one account, do calls run for whom they were made? |
| `mobile_queue` | 1 account, 2 mutations, 2 drains, 3 outages, 1 kill | does anything queued vanish, or get tried more often than `MAX_RETRIES`? |
| `query_cache` | every case of both clients, 2 calls, 1 logout, 1 restart, outages, fairness | is an own change shown or marked, whose data is shown, is what is marked fetched again? |
| `mobile_screens` | every screen and control, 2 screens above the bottoms of the stacks, 1 call under way | do moves land, can every screen be left, do tabs keep their list, do answers close the screen that asked? |
| `web_session` | 2 accounts, 1 tab and what other tabs do to cookie and flag, 3 tokens, 1 reload, fairness | is who is shown signed in, is the socket that user's, does loading end? |
| `web_pages` | every page and control, 2 languages, 2 entries of history, 1 call under way | does every link lead to the page it names, does a late answer lead anybody away? |

Each property of these runs also fails, as it should, when a definition of the
model is replaced by the form that a plausible bug would give it (the
definitions marked *Mutant*, paired with the properties in `PROJECT.json`).

Properties that only hold when requests are served one at a time say so in
their comments and are checked in `system_serial`; overlapping requests do break
them in the code (`ApprovedByOther`, `BlockedPairsApart`, `ReturnedByBoth`,
`SwapCountBounded`, the book properties, and the life cycle itself).

Some properties are true only but for gaps of the code; they name each gap
(`KnownDeadLinks`, `BareLinks`, the exceptions of `NegotiationOffered` and
`FulfilmentOffered`, the `gaps` of the two tables of hooks, `past.missed`,
`Overtaken` tabs), so that any other gap violates them.

### Where the code departs from what it says

`Documented` states what docs, comments and tests say of exchanges and the code
does not keep. Put one of its statements in the place of the invariants and
properties of `system_serial.cfg` (one request at a time) and TLC shows how it
fails:

- `NoBookStranded`: a block cancels an accepted exchange and nothing ever
  releases its two books.
- `NoDoubleBooking`: accepting declines rivals that request the same book or
  offer the same book, not those where the book stands on the other side, and
  never looks at the books' status; a book ends up in two exchanges.
- `RatingWindowAnchored`: `completed_at` is set on the instance and left out of
  `update_fields`, so it stays NULL in the database.
- `SwapCountExact`: the weekly task counts a user once however many of their
  exchanges it confirms.

For the other three, two requests must overlap: take `system_settles.cfg` with
`Workers = {w1, w2}`, `SPECIFICATION Spec` and `CHECK_DEADLOCK FALSE`.

- `BothAcceptedIsActive`: both parties accept the conditions at once; the
  exchange never becomes active and neither can accept again.
- `ReturnConfirmationsKept` (with `SwapTypes = {FALSE}`): the later of two
  overlapping return confirmations resets the earlier one.
- `OwnCounterNotApproved` (with `ThreeBooks`, `ThreeBookShelf`,
  `MaxCounters = 1`): an approval read before the same user's counter-offer
  approves that counter-offer.

Three more stand in their own modules: `WebNavigation!BarePathsKeepTheirPage` (try
it in `web_pages.cfg`; the comment of `LanguageRedirect.tsx`, against which every
link in the server's emails leads home or to no page),
`WebSession!FlagSetOnLogin` (in `web_session.cfg`; the comment of
`useInitAuth.ts` says the flag is set on login, the login form does not set it,
and such a session does not survive a reload) and `WebSession!ProfileOfTheExchange`
(there too; the comment of `SocialAuthCallbackPage.tsx:45` says that the profile is
asked for with the token of the exchange "explicitly", since the store has none yet;
if the session of another account was restored meanwhile, the interceptor puts that
one's token in its place, and the page has the token of one account and the profile
of the other).

Others seen while modelling:

- *Exchanges.* A block moves active exchanges to cancelled, an edge
  `VALID_TRANSITIONS` does not list (`Lifecycle` has it); stale saves overwrite
  terminal statuses; the check for an open exchange can be passed twice; a
  requester's counter-offer puts the *owner's* book in `offered_book`.
- *Chat.* A consumer that ends by an exception keeps its slot in the counter
  until the key expires: the client leaves while an event is forwarded, or the
  timeout fires while the token is checked. "The counter is decremented on disconnect"
  (`ws_first_msg_auth.py:73`) does not hold then. Two connections that find no
  key, an expired key and a `delete` after the decrement lose increments, and
  the limit is exceeded. A block does not cancel `swap_confirmed`, so a socket
  that joined before the block can still send.
- *Mobile.* The exchange buttons of `BookDetail` lead nowhere from the home,
  browse and profile stacks; "Verify now" leads to the navigator of guests; a
  notification that starts the app is lost, and one that opens an exchange
  before its tab was visited leaves no way to the list; a block that is
  answered late closes the wrong screen; a late deletion or logout signs the
  next session out; `WishlistScreen` leaves the wishlist mark of a book; a
  temporary swap cannot be completed in either app; a confirmed swap leaves the
  counts on the profiles as they were.
- *Web.* `login` reads `data.access` and the server answers `access_token`, so
  the token arrives by the first refresh; an old request may revive a session
  without a user from a leftover cookie; several links have no
  language; the page a guest was sent away from comes back with its language
  twice; the notices of a declined or expired request lead to `/discover/`,
  which is no page; an exchange cannot be completed, and a confirmed permanent
  swap offers only the return the server refuses; the cache is not cleared at
  logout.

### Bounds

*Exchanges.* Two users play all roles, since whoever is requester of one
exchange may be owner of the other; properties that relate two exchanges have
two. Three books are the fewest with which a party can be countered with
another book. Two workers are enough for the races, which are between two
requests, or a request and a task; the tasks come on top. `MaxCounters` is 2 in
the code and in `negotiation_interleaved`; elsewhere it is 1, or 0 where
counter-offers play no part. Times are abstracted: any row in the right status
may be old enough when a task lists it, which covers every age. Workers,
primary keys and books that nothing tells apart are declared symmetric in
safety runs only. Exchanges may all end, and then nothing more can happen in
`Fulfilment`, which creates none: its run does not check for deadlock.

*Chat.* A limit of one with two connections has one connection at the limit and
one beyond it; every race over the key needs two. One lost slot already fills
the limit. One REST request at a time is enough, since nothing relates two. The
proofs are for any numbers.

*Mobile client.* A refresh is shared by two callers, so a screen and `getMe`
are enough; three token pairs are two logins and a refresh. `MAX_RETRIES` is 3
in the code and 2 here: the first, a middle and the last try. With three
outages two drains can overlap. When `MaxGen` or `MaxOutages` is used up the
client may be stuck, so these two runs do not check for deadlock.

*Query cache.* One query and one mutation are watched, since the rules of the
library are per entry; two calls are needed for an answer that overtakes
another. One account logs out and in again; `OwnDataOnly` is proved for any.
A user who stays logged out may never come back, hence no deadlock check.

*Navigation.* Two screens above the bottoms of all stacks are a screen and the
one opened over it while its call is under way; two entries of the browser's
history are a page and the one left for it. Every kind of data a screen can
show is tried in each.

*Web session.* A tab with an arbitrary other tab (which logs in, logs out or
refreshes in one step); two accounts, since what matters is whether they
differ; three tokens are a login in each account and a refresh.

### Fairness

`system_settles`: `FairSpec` assumes that a statement whose turn has come is
executed (weak fairness of the steps of every slot) and that beat runs its
tasks again and again. A run lists the rows that are old enough at that moment;
a row that is eligible again and again is in the list of some run, which is
strong fairness per row. Nothing is assumed of the users. Crashes are off in
this run: a task that died in every run would settle nothing. It has permanent
exchanges only, which leaves out the return, a part these properties do not
read.

`query_cache`: requests are answered or fail (weak fairness of `ServerReads`),
and a fetch that is given up for a new one again and again ends some time
(strong fairness of success or failure), since the user does not tap for ever.
Nobody has to tap, log in or restart.

`web_session`: a bootstrap goes on, and requests are answered or time out (`http.ts`
aborts them after 30 seconds): weak fairness of `Boot`, `Served` and `Returned`.

## What is proved

Eight modules hold the proofs. All theorems are about the specifications that TLC
checks, for every value of the constants that their named assumptions allow; TLC
evaluates those assumptions in the runs.

| Module | Theorem | Property |
|---|---|---|
| `ExchangeProofs` | `InductiveInvariant` | `IInv` |
| | `TypeCorrect` | `TypeOK` |
| | `AgreedTermsHold` | `AgreedTerms` |
| | `OnePendingRequestHolds` | `OnePendingRequest` |
| | `ConditionsBeforeActive` | `ActiveNeedsBothConditions` |
| | `ConfirmationsBeforeSwap` | `SwappedNeedsBothConfirmations` |
| | `ConfirmationsAreKept` | `ConfirmationsKept` |
| | `TermsAreFrozen` | `TermsFrozen` |
| | `OwnershipIsSafe` | `OwnershipMovesBySwap` |
| | `CountersTakeTurns` | `CountersAlternate` |
| | `NegotiationIsOffered` | `NegotiationOffered` |
| | `FulfilmentIsOffered` | `FulfilmentOffered` |
| `SerialProofs` | `ServedInTurn` | `Serially` |
| | `FollowsLifecycle` | `LifecycleSpec` |
| | `ApprovedByTheOther` | `ApprovedByOther` |
| | `ReturnTakesBoth` | `ReturnedByBoth` |
| | `CreditsAreEarned` | `SwapCountBounded` |
| | `BlocksSeparate` | `BlockedPairsApart` |
| | `NoBookIsStuck` | `LockedBooksAccountedFor` |
| | `HeldBooksAreLocked` | `HeldBooksLocked` |
| `MobileProofs` | `SessionInvariant` | `Session` |
| | `RefreshIsPresentedOnce` | `RefreshPresentedOnce` |
| | `SessionIsOneAccounts` | `OneAccountAtATime` |
| | `QueueInvariant`, `ClientTypeCorrect` | what is in the queue and in every drain; `TypeOK` |
| | `NothingQueuedVanishes` | `NothingVanishes` |
| | `RetriesInvariant` | `Retries` |
| | `FailuresAreBounded` | `FailuresBounded` |
| | `DeliveryInvariant` | `Delivery` |
| | `CallsActForTheirUser` | `ActsForItsUser` |
| `QueryCacheProofs` | `CacheTypeCorrect` | `TypeOK` |
| | `CacheHoldsOwnData` | `OwnDataOnly` |
| | `OwnChangesFlagged` | `StaleIsFlagged`, for any hooks that are `Attended` |
| | `ClientsAttend` | the hooks of both clients are, but for the `gaps` |
| | `ClientsChangesFlagged` | `StaleIsFlagged`, for the hooks of both clients |
| `ChatProofs` | `ChatInvariant` | `ChatInv` |
| | `CounterIsRight` | `CounterMatches` |
| | `MessagesDoStop` | `MessagesStop` |
| `WebSessionProofs` | `WebInvariant` | `WebInv` |
| | `WebTypeCorrect` | `TypeOK` |
| | `ShowsWhoIsSignedIn` | `SignedInAsShown` |
| | `HearsWhoIsShown` | `HearsOwnNotices` |
| `WebNavigationProofs` | `RouterStands` | `NavInv` |
| | `RouterTypes` | `TypeOK` |
| | `AnswersStay` | `AnswersStayWhereAsked` |
| | `EveryAddressLands` | `LinksLand` |
| `MobileNavigationProofs` | `NavigatorStands` | `NavigatorInv` |
| | `NavigatorTypes` | `TypeOK` |
| | `EveryLinkLands` | `LinksLand` |
| | `NoDeadEnds` | `WayOut` |
| | `RootsStayWithinReach` | `RootWithinReach` |
| | `FormsCloseThemselves` | `AnswersCloseTheirOwn` |

*Exchanges* (`ExchangeSystem!Spec`: any users, books, exchanges, workers and
maximum of counter-offers, overlapping or not, crashing or not). The properties
are not inductive: a process saves what it decided statements ago, and nothing
in a property says why that is still right. The invariant adds, per slot and
program counter, what the process relies on (`JobInv`): one about to save
`active` knows that both acceptances are in the table; one about to release the
books of a permanent swap knows that both parties confirmed; one listed by the
weekly task is, and stays, past its conditions. The argument has three parts:
every row satisfies `RowInv`; every statement changes a row by a `RowStep` only
(nothing recorded is removed, a decided row keeps its terms); and what a process
relies on survives every `RowStep` of the others. So no case distinction over
pairs of actions is needed: each action is shown once to be a `RowStep` (and to
change owners only as `OwnersMove` allows) and to establish what its own slot
relies on next.

*Offers* (the same, next to the buttons of both apps). Nothing has to be added to
`IInv`: `RowInv` leaves a row so few shapes that what the apps offer (`PendingOffers`,
`LaterOffers`) can be compared with what the server takes, status by status. The
gaps that the two properties name are the only ones, and no permission is asked
for that a row in that status does not have.

*Served one at a time* (`ExchangeSystem!Spec` with `Serial`: any users, books,
exchanges and maximum of counter-offers; `Crashes` as stated). Overlapping
requests break these properties (see above), so `Serial` is a hypothesis of each
theorem and not an assumption of the module. What a lone process read nobody has
changed when it writes (`Reads`), and a row keeps what its status promises
(`Promised`: an approval is the other party's, the confirmations of a return fit
its status). With that each action is shown once to move every status along an
edge of `Lifecycle` or not at all (`RowsFollow`), which is the refinement: the
mapping takes the status of each row. The others rest on it:

- `SwapCountBounded` is not inductive, since the weekly task counts when it has
  saved all its rows: `CreditsOwed` adds that everyone on its list has more
  swapped exchanges than credits. The proof counts, so the set of exchanges must
  be finite (`ExchangesAssumption`), as a table is.
- `BlockedPairsApart` needs that a request about to be inserted is not between
  users one of whom blocks the other (`Apart`).
- `LockedBooksAccountedFor` and `HeldBooksLocked` need each other, and what a process
  between the end of an exchange and the release of its books has done so far
  (`Shelved`). `Locked` says that the books of an exchange in progress are locked
  while no exchange with the same book was freed or is being freed (`Freed`).

The first five hold wherever processes die. The last three assume `~Crashes`: a
process that dies between a block and the cancelling leaves the pair its exchange,
and one that dies between an end and the release leaves the books locked. TLC
checked the strengthened invariants in `system_serial` before they were proved.

*Mobile session* (any accounts, screens, drains, logins and kills). The
invariant says that the tokens still to be presented, the one on the device and
the one of the refresh under way, are not among those rotated away unless an
answer was lost (`Unspent`); and that whatever names an account (store, tokens,
profile, requests under way) names the same one, until a login overtakes calls of
the session before (`OneOwner`). That needs what the app has while it starts
(`Starting`) and in a session (`SignedIn`).

*Offline queue* (any mutations, drains, outages and kills). A drain rewrites the
stored queue only when it is done, from the copy it loaded when it started. So
the property needs that what may not get lost is in the stored queue *and* in
every running drain: whichever of them writes last, it is there.

*Whose calls* (any mutations, screens, drains and accounts). Unless a login
overtook pending calls or a drain outlived a logout, there is one account that
every token is of (`BelongsTo`), every pending call (`CalledBy`), every queued
mutation and every running drain (`QueuedBy`). That a login does not change this
account under a queue needs `Guarded`: a queue that is not empty waits for a
session that still has its tokens and its user, so a login finds nothing queued.

*Retries* (any mutations, drains and maximum). The counter is in the entry, and a
drain works on a copy. So what bounds the failures, unless the app was killed or
two drains overlapped, is that one drain runs at a time, that it or the stored
queue holds a mutation once (`Once`), in an entry whose counter is at least the
failures there were (`Counted`), and that nothing holds what was not yet enqueued
(`Unborn`).

*Query cache* (any accounts, calls and bounds). `OwnDataOnly` needs the owner of the
entry, of the fetch and of the copy on the device. `StaleIsFlagged` is proved for
every behaviour whose case is `Attended`: the mutation invalidates, sets or updates
the query, and its queue does if it has one. That the hooks of both clients do is
proved from the tables themselves (`ClientsAttend`): what each mutation invalidates
(`Says`) and which of these keys begin the key of a query (`Starts`) give the
mutations that tell it (`...Told`); what a query reads and which mutations write
that (`Readers`, `Writers`) gives, query by query, the pairs that must be told; and
each such pair is told or listed among the `gaps` (`Minded`). A hook added to a
table that forgets a query leaves a step of that proof open.

*Chat* (any connections, requests, limit and lost slots). A step that replaces
one connection by another changes the number of slots by what the old and the
new one take (`PutSizes`); the counter is shown to change by the same, or a slot
is written off in `past.leaks`. A consumer between two awaits relies on `Proper`:
who joined was authenticated and not blocked then, who is counted is
authenticated. `DueInv` counts the messages that were under way when the chat
ended and are not yet stored.

*Web session* (any accounts, tabs, tokens and loads). The invariant speaks of one
tab at a time. What is on its way must still mean what it meant when it was sent: a
granted refresh is for the user whose cookie it presented (`Granted`), nobody is
signed in or can ask for anything while the page boots (`Booting`), a call has its
account and carries a token of somebody (`Asking`), and a page that does not listen
has no socket (`Quiet`). Unless a refresh overtook a login, a logged out page was
revived or a social login mixed two accounts, the page then has the token (`Own`)
and the socket (`Hears`) of the user it shows. Every action is shown to replace one
tab by such a tab, with the socket that `useWebSocket` makes of it (`ChangeKeeps`,
`PutKeeps`).

*Web pages* (any languages, history and calls under way). The invariant says
that the address shown and those before it start with a language (`Going`), and
that every call under way was made by a control of its page (`Waiting`). What
those controls may do is shown page by page (`Tame`): a call that is awaited is
one of five that lead into the app or out of it, which is the exception that
`AnswersStayWhereAsked` names; and no control moves more than twice (`Aimed`), so
that the fold over its moves can be unfolded and needs no induction. That an
address leads to its page rests on the table of routes: a path is matched by the
pattern of its own page (`AddressesDiffer`, `ShowsItsPage`), but for three that a
pattern with an identifier takes as well and ranks lower; and the guards then
lead where `Meant` says (`GuardsAllow`, `MeantIsAllowed`).

*Mobile screens* (any number of screens pushed and calls under way). Screen by
screen, every control is shown to suit its screen (`OfferedSuits`): it moves to
one that some stack knows, or it asks the server and closes only a screen that
nothing but a move from elsewhere covers. So the stacks hold only screens they
know, only the mounted navigator has any, and every call under way has its
screen where it says (`Shape`); a stack keeps its bottom, and is opened at its
first screen or where a control, link or answer opens it (`Bottoms`, `Entrances`);
and the home tab stands below every other once a member is in (`HomeBelow`). The
four properties follow, `WayOut` screen by screen again.

Only model-checked: everything about liveness and `ENABLED` (`RequestsSettle`, what
must be fetched, shown, sent or answered some time), which is out of the prover's reach.

## Not modelled

- *Exchanges*: messages with a request, decline reasons, timestamps other than as
  above, and the check of the e-mail address: nothing modelled depends on them.
  Reads of one request that happen next to each other are one step.
- *Books*: creation, photos and deletion on the server, with the cascade to
  exchanges; rows do not disappear in this model. That a book may be accepted
  between the status check and the deletion (`crud.py:131`) is listed as a hazard
  without a property.
- *Messages*: which messages a `mark_read` marks, images and their checks, and
  meetup suggestions.
- *Ratings, push receipts, the deletion and anonymisation of accounts, the
  breaker around external services*: small parts of the server next to the core;
  the races seen in them are listed as hazards without a property where a test
  would hardly reach them.
- *Mobile socket*: what it receives only invalidates queries, which `QueryCache`
  allows at any time; its back-off is not modelled.
- *Inside a screen or page*: the text typed, sheets, camera, map and layout.
- *Discovery, statistics, lookups*: read-only. *Reports*: an insert. *Login on the
  server*: `bookswap/views/auth.py` and `social_auth.py` stand on packages outside the
  repository (nimoh_base, simplejwt), so the models have only what the clients see of
  them: a session begins, or it does not. The answer that asks for a second factor
  (202) is left out, since no screen of either app turns two-factor login on.
  *Operations*: scripts.

## What is left

1. The server's smaller parts, each a module around one race: deletion of books
   against an accept, ratings and their window, receipts and tokens of push
   messages, the cancellation of a deletion against the daily task, the breaker.
2. The sockets of the clients: timers against logout, and reconnection with the
   token of the session before.
3. Proofs about whatever these add. Of what is modelled, the safety properties that the
   runs check are proved.
