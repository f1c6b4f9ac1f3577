# A verification of VibeMail

TLA+ models of the mail backend in `src/` and of the web client in `web/`, checked
with TLC. Every safety property the runs check is also proved with TLAPS, for every
value of the constants; liveness is model-checked. Paths below are those of the
repository.

## 1. The system

VibeMail keeps a copy of each user's Gmail messages in Postgres and serves it to
a web client. The backend is a set of serverless functions: every request, push
and cron call is an invocation of its own. Nothing is shared between invocations
but the two tables and Gmail; there is no lock, no queue and no transaction that
spans two statements.

| Component | State | Operations | What makes it correct |
|---|---|---|---|
| Push sync, `src/webhook/gmail.ts` | locals of one invocation | `handleGmailWebhook`, `processGmailNotification`, `applyDelta`, `planChanges`, `fullResync` | no change is passed over; the rows become what Gmail holds |
| Gmail readers, `src/providers/gmail/{history,messages}.ts` | none | `listChangesSince`, `getCurrentCursor`, `listMessages`, `getMessage` | the cursor is how far the read got; expiry and absence are told apart |
| Initial backfill, `src/sync/index.ts` | locals | `runInitialSync` | stops at the limit; never ahead of the watermark |
| Message store, `src/db/supabase-message-store.ts` | table `messages` | upsert, delete, get and set labels, list | one statement each |
| User store, `src/db/supabase-user-store.ts` | table `users` | tokens, `saveWatch`, `updateWatchExpiration`, `advanceHistoryId`, look-ups | the watermark moves forward only |
| Sign-in, `src/providers/gmail/auth.ts`, `src/http/handlers.ts` | the row of the user; the state cookie | `buildAuthUrl`, `exchangeCode`, `completeAuthorization`, callback | may fail after each step; the answer fits what was stored |
| Token persistence, `src/providers/gmail/auth.ts` | a chain of writes per client | `attachTokenPersistence`, `authorizedClient`, `refreshAccessToken` | a newer token is not lost, a refresh token is kept |
| Read state, `src/read-state/`, `src/providers/gmail/read-state.ts` | locals | `setMessageReadState` | Gmail first, then the row |
| Send, `src/send/`, `src/providers/gmail/send.ts` | locals | `sendAndStore` | once sent, never reported as failed |
| Watch renewal, `src/cron/renewWatch.ts` | locals | `renewWatches`, `renewOne` | one failure costs nobody else; a watch lapses for a day at most |
| HTTP layer, `src/http/`, `src/auth/`, `api/` | none | parsing, sessions, CORS, error mapping | stateless |
| Message list paging, `src/http/{handlers,cursor}.ts` | the client's cursor | `listMessagesHandler` | no row skipped or repeated |
| Web mailbox, `web/src/components/MailboxProvider.tsx`, `web/src/lib/mailbox-state.ts` | the pool, the list, cursors, pending changes | first page, refresh, load more, load older, set read | answers applied out of order do no harm |
| Conversations and search, `web/src/components/{InboxShell,ThreadView,SearchResults}.tsx` | what is open, the lookup, the search | open, look up, mark read, load older mail | a lookup ends, and says what it found |
| Web compose, `web/src/components/ComposeDrawer.tsx`, `web/src/lib/drafts.ts` | the form, the drafts in localStorage | open, edit, autosave, close, discard, send | what was written is not lost; what was sent is gone |
| Web session, `web/src/components/AuthProvider.tsx`, `web/src/lib/{token,api,errors}.ts` | token and mode in localStorage, notice in sessionStorage | mount, sign in, sample mode, sign out, expire | a reload changes nothing; a refused token is forgotten |
| Settings, `web/src/components/Settings*.tsx`, `web/src/lib/settings.ts` | settings in localStorage, the random look in sessionStorage | first paint, mount, update, reshuffle | no flash; a reload keeps the look |
| Web widgets, drift engine, mock | none that is kept | rendering | |

How they interact: Gmail publishes a change to Pub/Sub, which posts it to the
webhook; the webhook answers at once and syncs afterwards (`deps.defer`), from
the watermark `users.last_history_id` and not from what the push says. A sign-in
writes the row, registers the watch, stores its `historyId` as the watermark and
runs the backfill. The cron job renews watches. Read and send requests change
Gmail first and the tables second, and their change comes back as a push. In the
browser a tab is single-threaded, but its requests are answered in any order, its
timers and effects run between them, and all tabs share one localStorage.

What is hard: invocations overlap at every `await`; pushes are lost, repeated and
reordered; history expires; messages change or disappear between the calls of one
invocation; every call may fail, and the instance may stop, with everything
already written left in place. In the client, answers come late, for lists, drawers
and sessions that are no longer there. The list with the line of each is in
`PROJECT.json`, `hazards`.

## 2. The modules

| Module | What it models |
|---|---|
| `GmailMailbox` | the Gmail account (external): its messages, the history of its changes, expiry; and what a call of `history.list`, `messages.list`, `planChanges` makes of it |
| `MailTables` | one user's rows and watermark, one operator per statement of the stores |
| `MailJobs` | invocations as records of their local variables with a `pc` that names the call they await; `runInitialSync` |
| `WebhookSync` | the push sync; the core of the project |
| `SyncInTurn` | the push sync with a note of whether two invocations ever overlapped: what the rows are when they did not |
| `WatermarkFeed` | abstract specification: the consumer of a change feed with a watermark |
| `AccountSync` | sign-in and renewal on the same `users` row as the sync |
| `MessageRequests` | read and send requests next to the sync |
| `WatchRenewal` | the cron job over several users and a clock |
| `MessagePages` | `GET /messages`: keyset pages over rows that change |
| `WebMailbox` | the mailbox of the web client: the pool, the list and the requests in flight |
| `ThreadLookup` | conversations and search over that mailbox |
| `TokenPersistence` | the clients of one user, their refreshed tokens and the token columns of the row |
| `SignIn` | the sign-in flow: state cookie, callback, tokens, answers |
| `WebSession` | the session in the browser, over several tabs |
| `ComposeDrafts` | the compose drawer and its drafts, over the sessions |
| `Appearance` | settings and the random look, over several tabs |
| `WebhookSync_proofs` | theorems about `WebhookSync` and `SyncInTurn`, and the lemmas the next two build on |
| `AccountSync_proofs`, `MessageRequests_proofs` | theorems about sign-in, cron, read and send beside the sync |
| `WatchRenewal_proofs`, `SignIn_proofs` | theorems about `WatchRenewal`; about `SignIn` and `TokenPersistence` |
| `WebMailbox_proofs` | theorems about `WebMailbox` and `ThreadLookup` |
| `ComposeDrafts_proofs`, `Appearance_proofs` | theorems about `ComposeDrafts` and `WebSession`; about `Appearance` |
| `MC...` | symmetry sets and constraints for TLC |

`GmailMailbox`, `MailTables`, `MailJobs`, `WebhookSync`, `SyncInTurn` extend one
another in this order; `AccountSync` and `MessageRequests` both extend `SyncInTurn`,
so the sync that runs beside a sign-in or a request is the very one that is proved
about, and its lemmas serve all three.
`WebhookSync` instantiates `WatermarkFeed` with the watermark as its mark.
`WebMailbox` extends `MessagePages`; it shares nothing with the sync but the rows,
which change under it by `OtherChange`. `ThreadLookup` extends `WebMailbox`: the
lookups share its request for older mail. `SignIn` extends `TokenPersistence`, and
`ComposeDrafts` extends `WebSession`, whose ends of sessions take the drawer along.

### How state and actions correspond to the code

* `log` is the history: one record for each change, `historyId` its length. `box`
  holds the messages: labels and the `historyId` of the last change. Texts are
  left out; in Gmail they never change, so that labels and existence are what can
  be out of date. `oldest` is the oldest `startHistoryId` that is still answered.
* `rows` is the `messages` table of one user (`NoRow` is no row), `watermark` is
  `users.last_history_id` (`NoHistoryId` is null). `applied` and `base` are
  history variables that no code reads: the newest state of a message ever
  stored, and how far a full resync or a first watch jumped.
* A job is an invocation. One action is what happens from one `await` to the
  next: the call takes effect on Gmail or on a table and the locals take its
  answer. `todo` are the ids still to fetch, `fetched` the messages in hand,
  `remove` the ids to delete, `latest` the cursor, `got` what was backfilled.
* An `upsertMessages` or `deleteMessages` of nothing makes no call in the code and
  changes nothing in the model.
* `StartSync` leaves the push waiting or takes it, which is at once delivery,
  redelivery and two changes that share a push. Nothing ties a job to a push but
  that one was there: the code does not look at the push's `historyId`.
* `Fail` ends a job at any call: an exception of Gmail or Postgres, or a stopped
  instance. Everything it wrote stays. `Faults = FALSE` leaves only failures that
  the model itself causes, such as a message of the backfill that is gone.
* `AccountSync`: `watching` is what Gmail does, `expiration` what the row says
  about it, and they differ while a sign-in or renewal is half done.
* `MessageRequests`: `had` and `sent` are history variables for the properties.
* `WatchRenewal`: `slack` is a history variable: one cron period for each failed
  attempt to renew since the last one that went well.
* `MessagePages`, `WebMailbox`: a message is its place in `(receivedAt, id)`, so
  that `listIds`, which is always newest first, is a set; of the fields of a
  message `isRead` is left. An action is an event handler or what follows an
  `await`. A request is in the state from the call until its promise settles: the
  server answers (`...Served`), the answer comes (`...Arrives`), or there is none
  (`...Fails`, at any time, so that an answer may be lost after the server acted).
  `requestGeneration` is the field `current` of the requests of `loadFirst`. `steady`,
  `poolTop`, `mixed` and the field `meant` are history variables.

* `ThreadLookup`: `loops` are the calls of `findThread` that await a page, with
  the pages each has seen; `live` is the effect's `cancelled`, negated. All calls
  wait for one request, so `Resume` lets all of them go on and starts the next
  request if any needs one. `looked` is a history variable.
* `TokenPersistence`: tokens are numbered in the order Google issues them. `client`
  holds, per invocation, the credentials of its OAuth2 client, `writes` (the
  promise chain), `failed` (`firstFailure`) and where its work stands. A call may
  refresh at any time of the work, which stands for any expiry. What a job does
  with `settled()` depends on its kind: `Awaiting` jobs throw its failure, `Quiet`
  ones swallow it (`settleQuietly`). `kept`, `lastBy`, `unsaved` and `saved` are
  history.
* `SignIn`: a sign-in is numbered by its `state`; `cookie` is what the browser
  holds. `Callback` takes any state the browser was ever given, so that reloads and
  old addresses are included. `ErrorResponse` is `toErrorResponse` together with
  the callback's own branch for `UPSTREAM`. `answered` is history.
* `WebSession`: `stored` is localStorage, `tab` what one document has in memory and
  shows; `Mounted` is the mount effect of `AuthProvider`, `ComesTo` what the
  redirects of the two pages do after it. `asked` counts requests by the token they
  were asked with, so that an `AUTH_FAILED` may be that of an earlier session.
  `refused`, `alone`, `told` and `late` are history.
* `ComposeDrafts`: a drawer is the state of one `ComposeDrawer`; `armed` is its
  autosave timer; a send is a request in flight, `here` while its drawer is there.
  Texts are blank or one of two. `shared`, `left` and `sent` are history.
* `Appearance`: `stored` and `kept` are localStorage and sessionStorage; `Older` are
  records earlier versions saved. A drift stands for direction, speed and spin,
  `rest` for text size and remote images: the code treats the members of each alike.

Simplifications that the properties do not see: label and message records of one
Gmail history record come as several records here; `Promise.all` of a backfill
page is a set of fetches in any order; the ids of `refetch` are fetched in any
order, where the code takes the order of the history.
Assumed of Gmail: a message is never listed without being there, ids are not
reused, newer messages come first, an inbox page is empty only if nothing is left
(the code ends the backfill on an empty page in any case).

## 3. What is checked

All properties are next to their specification, with a comment that names the
behaviour they are about. `CHECK_DEADLOCK FALSE` everywhere: an account without
changes and without pushes is at rest, and so is a browser nobody uses.

| Run | Question | Bounds |
|---|---|---|
| `webhook_overlap` | what survives overlap: `NoChangeSkipped`, `WatermarkForward`, the refinement `ImplementsFeed`; and do syncs that follow one another leave rows that agree with Gmail behind the watermark (`RowsCurrentInTurn`, `InboxCurrentInTurn`)? | 2 jobs, 2 messages, 4 changes, pages of 2; jobs that overlap: 3 changes, no labels |
| `webhook_stale` | violation: `RowsCurrent` under overlap | 2 jobs |
| `account_overlap` | sign-in, cron and syncs on one row: `WatermarkSetOnce`, `NoChangeSkipped`, `SignedInInboxCurrent` | 2 jobs, 1 sign-in, 3 changes |
| `requests_rows` | requests between syncs keep the rows (`RowsCurrentInTurn`); a read beside a sync brings nothing back (`DeletedStayDeleted`) | 2 jobs, 4 changes; overlap limited to reads next to one sync |
| `requests_sent` | overlap of everything: `LabelsFromGmail`; do the sync and the rows catch up (`CatchesUp`, `SentIsStored`)? | 2 jobs, 1 message, 2 changes, no faults |
| `watch_renewal` | `LapsesAtMostADay`, `RowNotAhead` | 2 users, clock to 10, watch 5, window 2, period 2 |
| `sign_in` | tokens under overlap: `ConsentKept`, `LastWriteIsNewest`, `SettledIsStored`; answers: `AnswerFits`, `StateSpentByAnswer` | 2 clients, 3 access tokens, 2 refresh tokens, 2 sign-ins |
| `web_mailbox` | requests in flight over one list and one pool: `PendingKept`, `PagesKept`, `NoGapOfItsOwn`, `PoolHasNoGap` | 4 messages, pages of 2, 2 requests in flight; mail arrives at any time, 1 message is marked and deleted |
| `web_thread` | lookups and search over one request: `LookupEnds`, `FoundIsShown`, `EndIsHonest` | 3 messages, 2 conversations, wide pages of 1, 2 wide pages, 2 waiting at a time |
| `web_compose` | drafts: `ShownIsStored`, `LeftIsKept`, `SentIsGone`; sessions: `ReloadShowsSame`, `RefusedIsForgotten`, `NoticeIsOfLastSession` | 2 tabs, 2 tokens, 2 requests per token; with a draft in play 1 token and 1 tab at a time |
| `compose_restored` | violation: `AnyContentIsKept` | as `web_compose` |
| `web_settings` | `FirstPaintIsFinal`, `ReloadKeepsLook`, `PickKeepsTheRest` | 2 tabs, 2 themes, 2 patterns and Plain, 2 drifts; 2 settings off their default, 1 with both tabs open |

Why the bounds are enough. Two jobs are the least that can overlap, and every
property that fails under overlap fails with two. A message needs three changes
to be added, changed and deleted, and four leave one for a page of the history
that grows while it is read. `PageSize` 2 gives reads of several pages,
`BackfillLimit` 2 backfills that stop at the limit. In `WatchRenewal` the watch
outlasts two periods, so that a failed attempt is followed by one that comes in
time, by one that comes late, and by a lapse; the proofs are for all lengths. In
`SignIn` two clients are a sign-in and whoever writes beside it, two refresh tokens
the old and the new consent, three access tokens the exchange and two refreshes
whose writes can change places; the proofs are for all numbers. In `WebMailbox` two
requests in flight are the least whose answers can change places; four messages on
pages of two make a list of two pages, a refresh that overlaps it and, after more
arrivals, one that does not; that only one message is marked or deleted
(`FewChange`) leaves the other rows to the paging. In `ThreadLookup` wide pages of
one message and a limit of two pages make a lookup find on the first or second
page, reach the end or the limit; a cancelled and a live lookup, or one lookup and
the search, wait together. In `ComposeDrafts` one session story (two tabs) and one
draft story (tab after tab, session after session) are explored apart, because
neither reads what the other one writes but for the end of a session, which both
have. In `Appearance` a third changed setting touches nothing the first two do not.

Symmetry is used over jobs, users, clients and tabs, which no definition tells
apart, and never in a run with a liveness property.

Fairness.
* `requests_sent`: a waiting push is delivered, because Pub/Sub redelivers until it
  is acknowledged, and a job that runs goes on, because a serverless invocation is
  given time until its answer or its limit. Nobody owes the account a change, and
  nothing has to fail. The slots a job runs in are a bound of the model; in
  `MessageRequests` strong fairness keeps requests from taking them for ever.
  `CatchesUp` and `SentIsStored` are claimed only without faults: a push is
  acknowledged before its sync, so after a failure or a lost push the changes wait
  for the next push, and nothing in the code makes one come.
* `web_thread`: a request for older mail is served and its promise settles, with an
  answer or with a failure: `fetch` rejects in the end when there is no answer.
  Nothing else is fair; the user owes nothing, and a lookup may fail. What
  `LookupEnds` shows is that the code never leaves a view "searching" with no
  request under way. The constraints of this run bound what is in flight besides.

### What the violations show

* `webhook_stale`: two syncs fetch a message before and after it changes; the
  slower upsert wins, and the watermark is already past the change. `history_id`
  is stored with each row and not compared. `RowsCurrentInTurn` shows that it takes
  overlap. The contract calls the writes idempotent and forward-only.
* `compose_restored`: `persist` keeps a reply whose subject differs from the one its
  drawer started with. A drawer that restores a draft starts with the draft's
  subject: if that was the only change, the autosave a second later deletes the
  draft. `LeftIsKept` and `ShownIsStored` show that this is all that is lost where
  one drawer works on a draft.

### Other disagreements met while modelling

They are excluded from the properties by a bound or a condition that says so, and
no run of their own shows them.

* A full resync deletes nothing (`src/webhook/gmail.ts:241`): the row of a message
  deleted while the history was lost stays (CONTRACT.md:82 says it is deleted).
* A second sign-in stores its watch's `historyId` over the watermark
  (`src/db/supabase-user-store.ts:143`), which skips what syncs have not read, but
  for the newest inbox messages (CONTRACT.md:165 calls retrying safe). Hence
  `MaxSignIns = 1` in `account_overlap`.
* When `users.watch` fails at sign-in, the cron job registers the first watch but
  keeps its expiration alone (`src/cron/renewWatch.ts:34`): the user has no
  watermark, and every push is ignored until the next sign-in.
* `loadMore` compares no generation (`MailboxProvider.tsx:161`): a page answered
  after the filter changed leaves a gap in the new list. Hence `mixed` in
  `NoGapOfItsOwn`.
* A conversation whose lookup ended as missing or failed, and that arrives later by
  another request, is shown but never marked read (`ThreadView.tsx:117`).
* A drawer that went with its shell while it was sending may be opened again on the
  same draft before the answer: the draft can be sent twice, and the late answer
  deletes or replaces what the new drawer saved. Hence `shared`.
* Each tab saves the whole settings record it knows (`SettingsProvider.tsx:92`), so
  a tab opened earlier takes back what another one changed. Hence `alone`.

## 4. What is proved

Every invariant and action property of a passing run is a theorem of its
specification, with the constants arbitrary but for the assumptions named in the
modules. Most are not inductive. Each proof has a type invariant and a
strengthening, one lemma per action, and a theorem that combines them; TLC checked
every strengthening on the run's instance before it was proved.

### The backend

`WebhookSync_proofs`, for every set of messages, labels and jobs, every page size
and limit, with and without faults:

* `TypeCorrect`, `NothingSkipped` (`NoChangeSkipped`). That the watermark may move
  to `latest` depends on what the job has stored so far and still holds. `FeedInv`
  says so for each `pc`: a job in "fetch" or "delete" holds, for every change it
  read, the message to fetch, a state at least as new, or the id to remove of a
  message that is gone; a job in "advance" has stored them all. Its part about the
  account (a message is at least as new as its records; a deleted one is gone) is
  what makes a fetch later than the record it answers harmless.
* `MovesForward` (`WatermarkForward`). That the watermark of a user without one
  stays null needs that no job runs for such a user (`RunsWithMark`).
* `Implements`: `Spec => Feed!Spec`. Each action is a step of `WatermarkFeed` or a
  stutter; `FeedInv` gives the guard of its `Advance`.
* `RowsCurrentTheorem` (`RowsCurrentInTurn`). `FeedInv` does not say that what is
  stored is the newest: a late upsert could replace a newer row. `TurnInv` has the
  three facts that exclude it in turn: a copy is not newer than the account, and is
  what the account has if nothing changed since (`CopyInv`, which holds under overlap
  too); what a job removes is gone for good (`RemoveInv`); and a row is as new as the
  newest state ever stored, which the one job at work does not fall behind
  (`NewestStored`, `HoldsNewest`).
* `InboxCurrentTheorem` (`InboxCurrentInTurn`), if no more messages exist than one
  backfill takes (`Cardinality(Message) <= BackfillLimit`). `InboxInv` follows a
  backfill page by page: each inbox message not changed since the backfill's
  `historyId` is stored, in hand, on the list, or on a page still to be listed. The
  hypothesis is what the code needs: it takes the newest 50, and an older message
  whose changes were skipped is stored by no one.

`AccountSync_proofs`. `AccountTypeCorrect` holds for any number of sign-ins, the rest
for a user's first (`MaxSignIns <= 1`), because a second one stores a watermark over
the first (section 3):

* `AccountFeedInvariant`, `AccountSkipsNothing` (`NoChangeSkipped`), `SetOnce`
  (`WatermarkSetOnce`). `SignInInv` says that before `saveWatch` nothing runs that
  needs a watermark, and that at most one sign-in has `saveWatch` before it. The
  `historyId` that is stored was read before any sync could store one, so nothing
  moves back.
* `InboxOnceSignedIn` (`SignedInInboxCurrent`), with the hypothesis of
  `InboxCurrentTheorem`: `SignInBackfillInv` is `InboxInv` with nothing promised
  before the redirect, and ties the backfill of a sign-in in turn to the watermark
  it stored before it, which is why changes made during the backfill are not lost.

`MessageRequests_proofs`:

* `RequestsTypeCorrect`, and `RequestsRowsCurrent` (`RowsCurrentInTurn`): `TurnInv`
  again, with the steps of requests. `markRead` changes Gmail like its owner does.
* `LabelsFromGmailTheorem`, for any overlap and any failures: `HadInv` says of the
  account, the rows and every local that their labels were Gmail's at some time.
* `DeletedStayDeletedTheorem`, under `[]OneWriter`: of two jobs at once, one is a
  read request. `requests_rows` has the same constraint (`OverlapOfReads`, which
  excludes sends beside it), because two syncs do bring rows back. `GoneInv`:
  a message known to be gone has no row, and the one writer holds nothing older than
  what is stored.

`WatchRenewal_proofs`, for every set of users and all lengths with
`RenewWindow >= CronPeriod` and `WatchLength > CronPeriod` (7 days, 24 hours and a
day in the code): `TypeCorrect`, `NotAhead` and `LapseBound`. `LapsesAtMostADay` is
strengthened to `RenewalInv`: a user who is not being renewed will not expire before
the next run, and one who is has one period more.

`SignIn_proofs`, for every set of clients and all bounds, with and without faults:
`SignInInvariant`, and from it `SignInTypeCorrect`, `ConsentIsKept`, `SettledStored`,
`LastWriteNewest`, `AnswersFit` and the action property `AnsweredStateIsSpent`.
`SignInInv` is `SignInTypeOK`, `TokensInv` and `BrowserInv`. `TokensInv` has four
parts. `ChainInv`: the unfinished writes of a client are in the order the tokens
were issued, the last is its newest token, and while no write has failed nothing
is unsaved but them; whether a success is honest depends on this. `StageInv`: what
each stage implies, and on which side of the upsert each error arises; `AnswerFits`
needs it. `RowInv`: a row without a refresh token has no token at all, and any other
holds the last consent's. And the client that wrote last, with nothing left to write
and nothing lost, has its newest token in the row. `BrowserInv`: the cookie holds
no answered state.

### The web client

`WebMailbox_proofs`, for every number of messages, both page sizes and any number
of requests in flight:

* `PendingKeptTheorem`, `NoGapTheorem`, `PoolHasNoGapTheorem` and the action property
  `PagesKeptTheorem`, from `WebInv`. The hazard is an answer that was right when the
  server gave it. So `WebInv` says of each request under way what its answer may
  still be: the first page that counts misses only what is further down and what
  arrived since (`FirstInv`), a page meant for this list goes on where the list ends
  (`MoreInv`), the wide page where the pool ends (`WideInv`); no place is newer than
  the newest message (`PlacesInv`), and what a change finds missing is gone
  (`PatchInv`).
* `ThreadTypeCorrect`, `EndIsHonestTheorem` and `FoundIsShownTheorem` for
  `ThreadLookup`: a request for older mail is under way only where the pool has not
  ended, and "missing" or "no more mail" was set at the end or at the page limit
  (`LookedInv`); with `PoolHasNoGap`, nothing was passed over.

`ComposeDrafts_proofs`, for any tabs, tokens, drafts, texts and sends:

* `ReloadShowsSameTheorem`, `RefusedIsForgottenTheorem`, `NoticeIsOfLastSessionTheorem`,
  from `SessionInv`: no token is ahead of those issued, so a new one was never
  refused; a tab alone shows what it would make of the storage; a notice that waits
  was left by a refusal that came late.
* `ComposeTypeCorrect`, `ShownIsStoredTheorem`, `LeftIsKeptTheorem`, `SentIsGoneTheorem`,
  from `ComposeInv`: a drawer sends exactly when one of the tab's requests is its
  (`SendsInv`), and at most one tab is at work on a draft that was never shared, none
  after its last drawer closed or sent (`WorkInv`).

`Appearance_proofs`, for any tabs, themes, patterns, drifts and records of older
versions: `AppearanceTypeCorrect`, `ReloadKeepsLookTheorem`, and the action properties
`FirstPaintIsFinalTheorem` and `PickKeepsTheRestTheorem`. `AppearanceInv`: until the
provider takes over, on screen is what the script made of what it read (`PaintInv`);
afterwards a tab with the random look has the one it keeps (`ReadyInv`), and
the storage parses to what a tab alone has (`AloneInv`).

### Assumptions

They are those of the modules (`ASSUME`), which TLC evaluates on each run: a page and
a limit hold at least one item (constants in the code), model values differ from
data, `UNREAD` is a label, the `Default` settings shuffle, move and drift, as in
`web/src/lib/settings.ts`. The bounds on counters (`MaxHistory`, `MaxTokens`, ...) are
arbitrary numbers in the proofs, so that no theorem depends on one, but for
`MaxSignIns` above.

### Only model-checked

Liveness: `CatchesUp`, `SentIsStored`, `LookupEnds`. Proofs of leads-to from fairness
need ENABLED, which is out of this prover's reach. No module with a theorem has a
recursive operator, and no property is about what one computes.

## 5. What is not modelled

* MIME building, header and body normalisation, addresses, relative dates, the
  search's matching: functions from text to text without state, whose properties
  are about characters, which these models leave out.
* JWT checks, CORS, configuration, body parsing, the shapes parsed out of a
  response: stateless, one request at a time.
* Encryption: what is stored is what is read; the cipher is out of reach here.
* Row-level security: declarative SQL with a test of its own.
* The drift engine (`web/src/lib/drift.ts`, `Backdrop.tsx`): arithmetic over
  animation frames. Focus, scroll position, toasts and rendering.
* Storage of the browser that is blocked or full, but in `Appearance`: the session
  and the drafts then last until the next reload, as comments there say.
* The mock client, styles and tests.

What could follow: that `AccountSync` and `MessageRequests` implement `WatermarkFeed`
as the sync alone does; what of `RowsCurrent` survives a second sign-in; a composed
run of the web client over the tables while a sync writes them, which would need a
smaller model of both.
