----------------------------- MODULE WebSession -----------------------------
(***************************************************************************)
(* The browser's session: the token and the chosen mode in localStorage,   *)
(* which the tabs share, and what each tab makes of them                   *)
(* (src/web/src/components/AuthProvider.tsx, lib/token.ts, lib/errors.ts,  *)
(* lib/api.ts, app/page.tsx, app/inbox/page.tsx).  The tokens of the API   *)
(* are numbered as they are issued.  Blocked storage is left out.          *)
(***************************************************************************)
EXTENDS Naturals

CONSTANTS
    Tab,       \* the browser's tabs
    MaxTokens, \* bound on the tokens issued
    MaxAsked   \* bound on the requests under way with one token in a tab

ASSUME SessionBounds == MaxTokens \in Nat /\ MaxAsked \in Nat

VARIABLES
    stored,  \* localStorage: the token and the mode
    tab,     \* what each tab shows and remembers
    issued,  \* how many tokens the API has issued
    asked,   \* per tab and token, how many API requests are under way
    refused, \* history: tokens an answer AUTH_FAILED was handled for
    alone    \* history: tabs since whose last change no other changed storage

sessionVars == <<stored, tab, issued, asked, refused, alone>>

NoToken == 0
Notices == {"none", "ended", "revoked"}
Pages == {"away", "google", "landing", "inbox"}

NoRequest == [k \in 0..MaxTokens |-> 0]

Away == [page |-> "away", fragment |-> NoToken, signedIn |-> FALSE, mock |-> FALSE, token |-> NoToken,
         pending |-> "none", notice |-> "none", told |-> FALSE, late |-> FALSE]

SessionInit ==
    /\ stored = [token |-> NoToken, mode |-> "none"]
    /\ tab = [t \in Tab |-> Away]
    /\ issued = 0
    /\ asked = [t \in Tab |-> NoRequest]
    /\ refused = {}
    /\ alone = Tab

-----------------------------------------------------------------------------
(* A tab: page, fragment (#token=), signedIn (status), mock, token         *)
(* (tokenRef), pending (the notice in sessionStorage), notice (on screen). *)
(* History: told, its last session ended by a refusal; late, the pending   *)
(* notice came when its session had ended already.                         *)

(* Mutant: the notice stays in sessionStorage.                             *)
TakeNoticeKeeping(r) == [r EXCEPT !.notice = r.pending]

(* The landing page mounts and takes the pending notice.                   *)
TakeNotice(r) == [r EXCEPT !.notice = r.pending, !.pending = "none"]

(* Where the effects of the two pages leave a tab that comes to a page:    *)
(* InboxGate sends the signed-out to the landing page, which takes the     *)
(* notice and sends a Gmail session on to the inbox.                       *)
ComesTo(r, page) ==
    LET seen == IF page = "landing" \/ ~r.signedIn THEN TakeNotice(r) ELSE r
    IN IF r.signedIn /\ (page = "inbox" \/ ~r.mock)
       THEN [seen EXCEPT !.page = "inbox", !.notice = "none"]
       ELSE [seen EXCEPT !.page = "landing"]

(* A new document in the tab: its sessionStorage is all that is left.      *)
Document(r) == [Away EXCEPT !.pending = r.pending, !.told = r.told, !.late = r.late]

(* Mutant: the fragment stays in the address bar.                          *)
MountedWithFragment(r, read) ==
    [r EXCEPT !.token = read.token,
              !.mock = r.fragment = NoToken /\ read.mode = "sample",
              !.signedIn = read.token # NoToken \/ read.mode = "sample"]

(* AuthProvider's mount effect, storage read, into which a fresh token has *)
(* been written: it wins over a remembered sample choice, and its fragment *)
(* is removed from the address.                                            *)
Mounted(r, read) ==
    [r EXCEPT !.token = read.token,
              !.mock = r.fragment = NoToken /\ read.mode = "sample",
              !.signedIn = read.token # NoToken \/ read.mode = "sample",
              !.fragment = NoToken]

(* Others keep what they showed; the tab itself is in step with storage.   *)
InStep(t) == alone' = IF stored' = stored THEN alone \cup {t} ELSE {t}

Loads(t, page, fragment) ==
    /\ stored' = IF fragment # NoToken THEN [token |-> fragment, mode |-> "gmail"] ELSE stored
    /\ tab' = [tab EXCEPT ![t] =
                 ComesTo(Mounted([Document(@) EXCEPT !.fragment = fragment], stored'), page)]
    /\ asked' = [asked EXCEPT ![t] = NoRequest]
    /\ InStep(t)

(* A visit or a reload, at any time.                                       *)
Load(t) ==
    /\ \E page \in {"landing", "inbox"} :
         Loads(t, page, IF page = "inbox" THEN tab[t].fragment ELSE NoToken)
    /\ UNCHANGED <<issued, refused>>

(* The callback of a sign-in redirects to /inbox#token=<jwt>.              *)
GoogleReturns(t) ==
    /\ tab[t].page = "google"
    /\ issued < MaxTokens
    /\ issued' = issued + 1
    /\ Loads(t, "inbox", issued + 1)
    /\ UNCHANGED refused

(* Back and forward within the app: the state of the session stays.        *)
Navigate(t) ==
    /\ tab[t].page \in {"landing", "inbox"}
    /\ \E page \in {"landing", "inbox"} : tab' = [tab EXCEPT ![t] = ComesTo(@, page)]
    /\ UNCHANGED <<stored, issued, asked, refused, alone>>

Closes(t) ==
    /\ tab[t].page # "away"
    /\ tab' = [tab EXCEPT ![t] = Away]
    /\ asked' = [asked EXCEPT ![t] = NoRequest]
    /\ UNCHANGED <<stored, issued, refused, alone>>

-----------------------------------------------------------------------------
(* What the user does.                                                     *)

StartSample(t) ==
    /\ tab[t].page = "landing"
    /\ stored' = [stored EXCEPT !.mode = "sample"]
    /\ tab' = [tab EXCEPT ![t] = ComesTo([@ EXCEPT !.mock = TRUE, !.signedIn = TRUE], "inbox")]
    /\ InStep(t)
    /\ UNCHANGED <<issued, asked, refused>>

SignInWithGoogle(t) ==
    /\ tab[t].page = "landing"
    /\ stored' = [stored EXCEPT !.mode = "gmail"]
    /\ tab' = [tab EXCEPT ![t] = [Document(@) EXCEPT !.page = "google"]]
    /\ asked' = [asked EXCEPT ![t] = NoRequest]
    /\ InStep(t)
    /\ UNCHANGED <<issued, refused>>

(* Mutant: the mode stays.                                                 *)
LeaveKeepingMode == stored' = [token |-> NoToken, mode |-> stored.mode]

(* leave: storage is cleared whatever tab wrote it.                        *)
Leave == stored' = [token |-> NoToken, mode |-> "none"]

SignedOut(r) == [r EXCEPT !.signedIn = FALSE, !.mock = FALSE, !.token = NoToken]

SignOut(t) ==
    /\ tab[t].page = "inbox"
    /\ Leave
    /\ tab' = [tab EXCEPT ![t] = ComesTo([SignedOut(@) EXCEPT !.told = FALSE], "landing")]
    /\ InStep(t)
    /\ UNCHANGED <<issued, asked, refused>>

-----------------------------------------------------------------------------
(* Requests.  The API client of a Gmail session sends tokenRef's token;    *)
(* the sample client asks nobody.                                          *)

Ask(t) ==
    /\ tab[t].page = "inbox" /\ ~tab[t].mock
    /\ \A k \in DOMAIN asked[t] : asked[t][k] < MaxAsked
    /\ asked' = [asked EXCEPT ![t][tab[t].token] = @ + 1]
    /\ UNCHANGED <<stored, tab, issued, refused, alone>>

(* Any answer but AUTH_FAILED, or none, leaves the session alone.          *)
Answered(t) ==
    /\ \E k \in DOMAIN asked[t] : asked[t][k] > 0 /\ asked' = [asked EXCEPT ![t][k] = @ - 1]
    /\ UNCHANGED <<stored, tab, issued, refused, alone>>

SignInNotice(recoverable) == IF recoverable THEN "ended" ELSE "revoked"

(* expire, whatever has become of the session that asked.  On the landing  *)
(* page already, the replacement mounts nothing.                           *)
Expire(t, token) ==
    /\ refused' = refused \cup {token}
    /\ Leave
    /\ \E recoverable \in BOOLEAN :
         LET left == [SignedOut(tab[t]) EXCEPT !.pending = SignInNotice(recoverable)]
         IN tab' = [tab EXCEPT ![t] =
                      IF @.page = "inbox"
                      THEN ComesTo([left EXCEPT !.told = TRUE, !.late = FALSE], "landing")
                      ELSE [left EXCEPT !.late = TRUE]]
    /\ InStep(t)
    /\ UNCHANGED issued

AuthFailed(t) ==
    \E k \in DOMAIN asked[t] :
        /\ asked[t][k] > 0
        /\ asked' = [asked EXCEPT ![t][k] = @ - 1]
        /\ Expire(t, k)

SessionNext ==
    \E t \in Tab :
        \/ Load(t) \/ Navigate(t) \/ GoogleReturns(t) \/ Closes(t)
        \/ StartSample(t) \/ SignInWithGoogle(t) \/ SignOut(t)
        \/ Ask(t) \/ Answered(t) \/ AuthFailed(t)

SessionSpec == SessionInit /\ [][SessionNext]_sessionVars

-----------------------------------------------------------------------------
TabRecord ==
    [page : Pages, fragment : Nat,
     signedIn : BOOLEAN, mock : BOOLEAN, token : Nat,
     pending : Notices, notice : Notices, told : BOOLEAN, late : BOOLEAN]

(* Nobody sees the inbox who is not signed in, or asks the API without a   *)
(* token.                                                                  *)
SessionTypeOK ==
    /\ stored \in [token : Nat, mode : {"none", "gmail", "sample"}]
    /\ tab \in [Tab -> TabRecord]
    /\ issued \in Nat
    /\ asked \in [Tab -> [0..MaxTokens -> Nat]]
    /\ refused \subseteq Nat
    /\ alone \subseteq Tab
    /\ \A t \in Tab : tab[t].page = "inbox" => tab[t].signedIn /\ (tab[t].mock \/ tab[t].token # NoToken)

(***************************************************************************)
(* A reload changes nothing: as long as no other tab has changed the       *)
(* storage, what a tab shows is what it would make of the storage          *)
(* (DESIGN_SPEC.md, Session handling: the chosen mode is remembered).      *)
(***************************************************************************)
ReloadShowsSame ==
    \A t \in alone :
        LET reloaded == Mounted(Document(tab[t]), stored)
        IN tab[t].page \in {"landing", "inbox"} =>
             /\ reloaded.signedIn = tab[t].signedIn
             /\ reloaded.mock = tab[t].mock
             /\ ~tab[t].mock => reloaded.token = tab[t].token

(***************************************************************************)
(* A token the API has refused is gone for good: no reload and no other    *)
(* tab brings it back into storage, and a tab that uses it still has not   *)
(* been told (expire clears tokenRef and localStorage).                    *)
(***************************************************************************)
RefusedIsForgotten ==
    /\ stored.token \notin refused \ {NoToken}
    /\ \A t \in alone : ~tab[t].mock => tab[t].token \notin refused \ {NoToken}

(***************************************************************************)
(* The landing page explains a session that ended by AUTH_FAILED, and no   *)
(* other: after Sign out there is no notice, unless a refusal that came    *)
(* when the session was over left one behind (takeNotice runs on mount).   *)
(***************************************************************************)
NoticeIsOfLastSession ==
    \A t \in Tab : tab[t].notice # "none" => tab[t].told \/ tab[t].late
=============================================================================
