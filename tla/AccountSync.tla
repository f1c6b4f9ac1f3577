---------------------------- MODULE AccountSync -----------------------------
(***************************************************************************)
(* Signing in and renewing the watch, next to the webhook's sync:          *)
(* completeAuthorization of src/providers/gmail/auth.ts, the rest of       *)
(* authCallbackHandler, and renewOne of src/cron/renewWatch.ts.  They      *)
(* write the same `users` row as the sync, and its watermark in            *)
(* particular.                                                             *)
(*                                                                         *)
(* Time is left out (WatchRenewal has it): a watch lapses at some time,    *)
(* and the cron job may find the user due at any time.                     *)
(***************************************************************************)
EXTENDS SyncInTurn

CONSTANT MaxSignIns   \* bound: completed consents
ASSUME MaxSignInsAssumption == MaxSignIns \in Nat

VARIABLES
  signIns,     \* consents so far; the user has a row once there is one
  watching,    \* Gmail publishes the account's changes
  expiration,  \* users.watch_expiration is not null
  backfilled   \* a sign-in went through to the redirect to the inbox

accountVars == <<signIns, watching, expiration, backfilled>>

AccountInit ==
  /\ MailboxInit
  /\ TablesInit
  /\ watermark = NoHistoryId
  /\ JobsInit
  /\ pushed = FALSE
  /\ signIns = 0
  /\ watching = FALSE
  /\ expiration = FALSE
  /\ backfilled = FALSE
  /\ overlapped = FALSE

-----------------------------------------------------------------------------
(* Gmail *)

AccountChanges ==
  /\ \E m \in Message : OwnerChanges(m)
  /\ pushed' = (pushed \/ watching)
  /\ UNCHANGED <<tableVars, job, accountVars>>

WatchLapses ==
  /\ watching
  /\ watching' = FALSE
  /\ UNCHANGED <<mailboxVars, tableVars, job, pushed, signIns, expiration, backfilled>>

-----------------------------------------------------------------------------
(* authCallbackHandler *)

\* exchangeCode and upsertUserTokens.
SignIn(p) ==
  /\ job[p].pc = "idle"
  /\ signIns < MaxSignIns
  /\ signIns' = signIns + 1
  /\ job' = [job EXCEPT ![p] = [Idle EXCEPT !.pc = "watch", !.task = "signIn"]]
  /\ UNCHANGED <<mailboxVars, tableVars, pushed, watching, expiration, backfilled>>

\* users.watch, of a sign-in or of the cron job.
RegisterWatch(p, from, next) ==
  /\ job[p].pc = from
  /\ watching' = TRUE
  /\ job' = [job EXCEPT ![p].pc = next, ![p].latest = historyId]
  /\ UNCHANGED <<mailboxVars, tableVars, pushed, signIns, expiration, backfilled>>

\* saveWatch: both columns, whatever they hold.  Nothing was promised of the
\* changes before the first watermark: `base`.
SaveWatch(p) ==
  /\ job[p].pc = "saveWatch"
  /\ watermark' = job[p].latest
  /\ expiration' = TRUE
  /\ base' = IF watermark = NoHistoryId THEN job[p].latest ELSE base
  /\ job' = [job EXCEPT ![p].pc = "inbox"]
  /\ UNCHANGED <<mailboxVars, rows, applied, pushed, signIns, watching, backfilled>>

\* The backfill, as in a full resync.
SignInBackfill(p) ==
  /\ job[p].task = "signIn"
  /\ ListInbox(p) \/ FetchPageMessage(p) \/ PageMessageGone(p) \/ StorePage(p, "signedIn")
  /\ UNCHANGED <<pushed, accountVars>>

\* Mutant: the watermark is taken after the backfill.
SignedInMoves(p) ==
  /\ job[p].pc = "signedIn"
  /\ backfilled' = TRUE
  /\ watermark' = historyId
  /\ Finish(p)
  /\ UNCHANGED <<mailboxVars, rows, applied, base, pushed, signIns, watching, expiration>>

\* The session token and the redirect.
SignedIn(p) ==
  /\ job[p].pc = "signedIn"
  /\ backfilled' = TRUE
  /\ Finish(p)
  /\ UNCHANGED <<mailboxVars, tableVars, pushed, signIns, watching, expiration>>

SignInStep(p) ==
  \/ RegisterWatch(p, "watch", "saveWatch")
  \/ SaveWatch(p)
  \/ SignInBackfill(p)
  \/ SignedIn(p)

-----------------------------------------------------------------------------
(* renewOne *)

\* The user is among findUsersWithWatchDue: the watch ends soon, or there is none.
RenewalDue(p) ==
  /\ job[p].pc = "idle"
  /\ signIns > 0
  /\ job' = [job EXCEPT ![p].pc = "renew"]
  /\ UNCHANGED <<mailboxVars, tableVars, pushed, accountVars>>

\* Mutant: the cron job stores what users.watch returned with saveWatch.
SaveExpirationAndWatermark(p) ==
  /\ job[p].pc = "saveExpiration"
  /\ expiration' = TRUE
  /\ watermark' = job[p].latest
  /\ Finish(p)
  /\ UNCHANGED <<mailboxVars, rows, applied, base, pushed, signIns, watching, backfilled>>

\* updateWatchExpiration: the historyId that users.watch returned is dropped.
SaveExpiration(p) ==
  /\ job[p].pc = "saveExpiration"
  /\ expiration' = TRUE
  /\ Finish(p)
  /\ UNCHANGED <<mailboxVars, tableVars, pushed, signIns, watching, backfilled>>

RenewStep(p) == RegisterWatch(p, "renew", "saveExpiration") \/ SaveExpiration(p)

-----------------------------------------------------------------------------

WebhookStep ==
  /\ \/ HistoryExpires \/ PushLost \/ IgnorePush
     \/ \E p \in Job : StartSync(p) \/ SyncStep(p) \/ Fail(p)
  /\ UNCHANGED accountVars

AccountNext ==
  /\ \/ AccountChanges \/ WatchLapses \/ WebhookStep
     \/ \E p \in Job : SignIn(p) \/ SignInStep(p) \/ RenewalDue(p) \/ RenewStep(p)
  /\ NoteOverlap

allAccountVars == <<vars, accountVars, overlapped>>
AccountSpec == AccountInit /\ [][AccountNext]_allAccountVars

-----------------------------------------------------------------------------
(* Properties.  NoChangeSkipped of WebhookSync is checked here too.        *)

\* "Captured before the backfill starts, so changes arriving during the
\* backfill are replayed rather than missed": once a sign-in is through, pushes
\* are heeded, whatever the cron job does to the row, and an inbox message
\* whose last change is behind the watermark is stored as it is in Gmail, for
\* jobs that follow one another.
SignedInInboxCurrent ==
  backfilled => watermark # NoHistoryId /\ (~overlapped => InboxCurrent)

\* The watermark is set once, and from then on it only moves forward, whatever
\* sign-in, cron and webhook do to the row at the same time.
WatermarkSetOnce ==
  [][watermark' # watermark => watermark = NoHistoryId \/ watermark' > watermark]_watermark

-----------------------------------------------------------------------------
(* The inductive invariants behind them                                    *)

AccountTypeOK ==
  /\ SyncTypeOK
  /\ signIns \in Nat
  /\ watching \in BOOLEAN /\ expiration \in BOOLEAN /\ backfilled \in BOOLEAN

\* While the watermark is not set nothing that needs it runs, and a sign-in that
\* has stored it went on to the backfill.  The last two conjuncts hold of the
\* first sign-in of a user.
SignInInv ==
  /\ watermark = NoHistoryId =>
       ~backfilled /\ \A p \in Job : job[p].pc \in {"idle"} \cup (AccountPC \ {"signedIn"})
  /\ \A p \in Job : job[p].task = "signIn" => job[p].pc \in {"watch", "saveWatch", "inbox", "page", "signedIn"}
  /\ \A p \in Job : job[p].pc \in {"watch", "saveWatch", "signedIn"} => job[p].task = "signIn"
  /\ signIns = 0 => watermark = NoHistoryId /\ \A p \in Job : job[p].pc = "idle"
  /\ \A p \in Job : job[p].pc \in {"watch", "saveWatch"} => watermark = NoHistoryId
  /\ \A p, q \in Job : p # q => ~(job[p].pc \in {"watch", "saveWatch"} /\ job[q].pc \in {"watch", "saveWatch"})

\* In turn: a sign-in's backfill covers the changes its watermark passed over, and
\* once it is through the rows do.
SignInBackfillInv ==
  /\ InboxInvOnce(backfilled)
  /\ ~overlapped =>
       \A p \in Job : job[p].task = "signIn" /\ job[p].pc \in {"inbox", "page", "signedIn"} =>
                      base = job[p].latest

=============================================================================
