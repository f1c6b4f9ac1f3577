------------------------ MODULE ComposeDrafts_proofs -------------------------
(***************************************************************************)
(* Proofs about ComposeDrafts and the WebSession under it, for any number  *)
(* of tabs, tokens, drafts and sends.                                      *)
(***************************************************************************)
EXTENDS ComposeDrafts, Integers, TLAPS

-----------------------------------------------------------------------------
(* The inductive invariant of the sessions                                 *)

(* What a tab knows by itself.  A pending notice was left behind by a      *)
(* refusal that came late.                                                 *)
TabFits(r) ==
    /\ r.fragment = NoToken
    /\ r.signedIn => r.mock \/ r.token # NoToken
    /\ r.page \in {"away", "google"} => r.token = NoToken
    /\ r.page = "inbox" => r.signedIn
    /\ r.pending # "none" => r.late
    /\ r.notice # "none" => r.told \/ r.late

(* No token is ahead of those issued.                                      *)
TokensInv ==
    /\ stored.token <= issued
    /\ \A t \in Tab : tab[t].token <= issued
    /\ \A t \in Tab : \A k \in 0..MaxTokens : asked[t][k] > 0 => k <= issued
    /\ \A k \in refused : k <= issued

(* The tab shows what it would make of this storage.                       *)
Shows(r, s) ==
    r.page \in {"landing", "inbox"} =>
        /\ r.signedIn = (s.token # NoToken \/ s.mode = "sample")
        /\ r.mock = (s.mode = "sample")
        /\ ~r.mock => r.token = s.token

SessionTypes ==
    /\ stored \in [token : Nat, mode : {"none", "gmail", "sample"}]
    /\ tab \in [Tab -> TabRecord]
    /\ issued \in Nat
    /\ asked \in [Tab -> [0..MaxTokens -> Nat]]
    /\ refused \subseteq Nat
    /\ alone \subseteq Tab

SessionInv ==
    /\ SessionTypes /\ TokensInv
    /\ \A t \in Tab : TabFits(tab[t])
    /\ \A t \in alone : Shows(tab[t], stored)
    /\ RefusedIsForgotten

LEMMA SessionFacts ==
    SessionInv => SessionTypeOK /\ ReloadShowsSame /\ NoticeIsOfLastSession
<1> SUFFICES ASSUME SessionInv PROVE SessionTypeOK /\ ReloadShowsSame /\ NoticeIsOfLastSession
  OBVIOUS
<1> USE DEF SessionInv
<1>1. SessionTypeOK
  BY DEF SessionTypes, SessionTypeOK, TabFits
<1>2. ASSUME NEW t \in alone
      PROVE  LET reloaded == Mounted(Document(tab[t]), stored)
             IN tab[t].page \in {"landing", "inbox"} =>
                  /\ reloaded.signedIn = tab[t].signedIn
                  /\ reloaded.mock = tab[t].mock
                  /\ ~tab[t].mock => reloaded.token = tab[t].token
  <2>1. LET reloaded == Mounted(Document(tab[t]), stored)
        IN /\ reloaded.token = stored.token
           /\ reloaded.mock = (stored.mode = "sample")
           /\ reloaded.signedIn = (stored.token # NoToken \/ stored.mode = "sample")
    BY DEF Mounted, Document, Away
  <2>2. Shows(tab[t], stored)
    OBVIOUS
  <2> QED  BY <2>1, <2>2 DEF Shows
<1>3. ReloadShowsSame
  BY <1>2 DEF ReloadShowsSame
<1>4. NoticeIsOfLastSession
  BY DEF NoticeIsOfLastSession, TabFits
<1> QED  BY <1>1, <1>3, <1>4

-----------------------------------------------------------------------------
(* What becomes of a tab                                                   *)

LEMMA DocumentFacts ==
    ASSUME NEW r \in TabRecord, r.pending # "none" => r.late
    PROVE  /\ Document(r) \in TabRecord /\ TabFits(Document(r))
           /\ Document(r).token = NoToken /\ Document(r).fragment = NoToken
           /\ Document(r).notice = "none" /\ Document(r).page = "away"
           /\ Document(r).pending # "none" => Document(r).late
<1>1. /\ Document(r) \in TabRecord
      /\ Document(r).token = NoToken /\ Document(r).fragment = NoToken
      /\ Document(r).notice = "none" /\ Document(r).page = "away" /\ Document(r).signedIn = FALSE
      /\ Document(r).pending = r.pending /\ Document(r).late = r.late
  BY DEF Document, Away, TabRecord, Pages, Notices, NoToken
<1> QED  BY <1>1 DEF TabFits

(* A tab that comes to a page keeps its session, and takes its notice.     *)
LEMMA ComesToFacts ==
    ASSUME NEW r \in TabRecord, NEW page \in {"landing", "inbox"},
           r.fragment = NoToken, r.signedIn => r.mock \/ r.token # NoToken,
           r.pending # "none" => r.late \/ (~r.signedIn /\ r.told)
    PROVE  LET s == ComesTo(r, page)
           IN /\ s \in TabRecord /\ TabFits(s) /\ s.page \in {"landing", "inbox"}
              /\ s.signedIn = r.signedIn /\ s.mock = r.mock /\ s.token = r.token
<1> DEFINE seen == IF page = "landing" \/ ~r.signedIn THEN TakeNotice(r) ELSE r
           p == IF r.signedIn /\ (page = "inbox" \/ ~r.mock) THEN "inbox" ELSE "landing"
           n == IF r.signedIn /\ (page = "inbox" \/ ~r.mock) THEN "none" ELSE seen.notice
           s == [seen EXCEPT !.page = p, !.notice = n]
<1>1. /\ seen \in TabRecord /\ seen.fragment = r.fragment /\ seen.signedIn = r.signedIn
      /\ seen.mock = r.mock /\ seen.token = r.token /\ seen.told = r.told /\ seen.late = r.late
      /\ seen.pending # "none" => seen.late
      /\ n \in Notices /\ (n # "none" => seen.told \/ seen.late)
  BY DEF TakeNotice, TabRecord, Notices
<1>2. p \in {"landing", "inbox"} /\ (p = "inbox" => r.signedIn)
  OBVIOUS
<1>3. ComesTo(r, page) = s
  <2>1. CASE p = "inbox"
    BY <2>1 DEF ComesTo
  <2>2. CASE p = "landing"
    <3>1. ComesTo(r, page) = [seen EXCEPT !.page = "landing"]
      BY <2>2 DEF ComesTo
    <3>2. n = seen.notice
      BY <2>2
    <3> HIDE DEF seen, p, n
    <3> QED  BY <1>1, <2>2, <3>1, <3>2 DEF TabRecord
  <2> QED  BY <1>2, <2>1, <2>2
<1> HIDE DEF seen, p, n
<1>4. /\ s \in TabRecord /\ s.page = p /\ s.notice = n /\ s.fragment = seen.fragment
      /\ s.signedIn = seen.signedIn /\ s.mock = seen.mock /\ s.token = seen.token
      /\ s.pending = seen.pending /\ s.told = seen.told /\ s.late = seen.late
  BY <1>1, <1>2 DEF TabRecord, Pages
<1> HIDE DEF s
<1>5. TabFits(s)
  BY <1>1, <1>2, <1>4 DEF TabFits
<1> QED  BY <1>1, <1>2, <1>3, <1>4, <1>5

(* One tab changes, in step with the storage: what has to be shown of it.  *)
LEMMA OneTabInv ==
    ASSUME SessionInv, NEW t \in Tab, NEW r \in TabRecord,
           tab' = [tab EXCEPT ![t] = r], TabFits(r), r.token <= issued',
           stored' \in [token : Nat, mode : {"none", "gmail", "sample"}], stored'.token <= issued',
           issued' \in Nat, issued <= issued',
           asked' \in [Tab -> [0..MaxTokens -> Nat]],
           \A u \in Tab : \A k \in 0..MaxTokens : asked'[u][k] > 0 => k <= issued',
           refused' \subseteq Nat, \A k \in refused' : k <= issued',
           stored'.token \notin refused' \ {NoToken},
           alone' \subseteq alone \cup {t}, stored' # stored => alone' \subseteq {t},
           t \in alone' => Shows(r, stored') /\ (~r.mock => r.token \notin refused' \ {NoToken}),
           refused' = refused \/ stored'.token = NoToken
    PROVE  SessionInv'
<1> USE DEF SessionInv
<1>1. tab \in [Tab -> TabRecord] /\ alone \subseteq Tab /\ issued \in Nat /\ refused \subseteq Nat
  BY DEF SessionTypes
<1>2. tab'[t] = r /\ \A u \in Tab \ {t} : tab'[u] = tab[u]
  BY <1>1
<1>3. SessionTypes'
  BY <1>1 DEF SessionTypes
<1>4. TokensInv'
  <2>1. \A u \in Tab : tab[u].token \in Nat
    BY <1>1 DEF TabRecord
  <2>2. \A u \in Tab : tab'[u].token <= issued'
    BY <1>1, <1>2, <2>1 DEF TokensInv
  <2> QED  BY <2>2 DEF TokensInv
<1>5. \A u \in Tab : TabFits(tab'[u])
  BY <1>2
<1>6. \A u \in alone' : Shows(tab'[u], stored')
  BY <1>1, <1>2
<1>7. RefusedIsForgotten'
  <2>1. ASSUME NEW u \in alone', u # t, ~tab'[u].mock PROVE tab'[u].token \notin refused' \ {NoToken}
    <3>1. u \in alone /\ u \in Tab /\ tab'[u] = tab[u] /\ stored' = stored
      BY <1>1, <1>2, <2>1
    <3>2. CASE refused' = refused
      BY <2>1, <3>1, <3>2 DEF RefusedIsForgotten
    <3>3. CASE stored'.token = NoToken
      <4>1. tab[u].page \in {"landing", "inbox"} => tab[u].token = NoToken
        BY <2>1, <3>1, <3>3 DEF Shows
      <4>2. tab[u].page \in Pages
        BY <1>1, <3>1 DEF TabRecord
      <4> QED  BY <3>1, <4>1, <4>2 DEF TabFits, Pages
    <3> QED  BY <3>2, <3>3
  <2> QED  BY <1>2, <2>1 DEF RefusedIsForgotten
<1> QED  BY <1>3, <1>4, <1>5, <1>6, <1>7

-----------------------------------------------------------------------------
(* The steps of the sessions                                               *)

LEMMA TabFacts ==
    ASSUME SessionInv, NEW t \in Tab
    PROVE  /\ tab[t] \in TabRecord /\ TabFits(tab[t]) /\ tab[t].token \in Nat /\ tab[t].token <= issued
           /\ stored \in [token : Nat, mode : {"none", "gmail", "sample"}]
           /\ stored.token \in Nat /\ stored.token <= issued /\ stored.token \notin refused \ {NoToken}
           /\ issued \in Nat /\ refused \subseteq Nat /\ (\A k \in refused : k <= issued)
           /\ asked \in [Tab -> [0..MaxTokens -> Nat]] /\ alone \subseteq Tab
           /\ \A u \in Tab : \A k \in 0..MaxTokens : asked[u][k] > 0 => k <= issued
BY DEF SessionInv, SessionTypes, TokensInv, TabRecord, RefusedIsForgotten

LEMMA NoRequestFacts ==
    ASSUME asked \in [Tab -> [0..MaxTokens -> Nat]], NEW t \in Tab,
           asked' = [asked EXCEPT ![t] = NoRequest]
    PROVE  /\ asked' \in [Tab -> [0..MaxTokens -> Nat]]
           /\ \A u \in Tab : \A k \in 0..MaxTokens : asked'[u][k] > 0 => asked[u][k] > 0
<1>1. NoRequest \in [0..MaxTokens -> Nat] /\ \A k \in 0..MaxTokens : NoRequest[k] = 0
  BY DEF NoRequest
<1>2. asked' \in [Tab -> [0..MaxTokens -> Nat]]
  BY <1>1
<1>3. \A u \in Tab : asked'[u] = asked[u] \/ asked'[u] = NoRequest
  OBVIOUS
<1> QED  BY <1>1, <1>2, <1>3

(* A new document, with the token of the storage or one just issued.       *)
LEMMA LoadsInv ==
    ASSUME SessionInv, NEW t \in Tab, NEW page \in {"landing", "inbox"}, NEW fragment \in Nat,
           Loads(t, page, fragment), refused' = refused, issued' \in Nat, issued <= issued',
           fragment = NoToken \/ (fragment <= issued' /\ fragment \notin refused)
    PROVE  SessionInv'
<1> DEFINE fresh == [Document(tab[t]) EXCEPT !.fragment = fragment]
           mounted == Mounted(fresh, stored')
           r == ComesTo(mounted, page)
<1>1. /\ tab[t] \in TabRecord /\ TabFits(tab[t]) /\ tab[t].token \in Nat /\ tab[t].token <= issued
      /\ stored \in [token : Nat, mode : {"none", "gmail", "sample"}]
      /\ stored.token \in Nat /\ stored.token <= issued /\ stored.token \notin refused \ {NoToken}
      /\ issued \in Nat /\ refused \subseteq Nat /\ (\A k \in refused : k <= issued)
      /\ asked \in [Tab -> [0..MaxTokens -> Nat]] /\ alone \subseteq Tab
      /\ \A u \in Tab : \A k \in 0..MaxTokens : asked[u][k] > 0 => k <= issued
  BY TabFacts
<1>2. /\ stored' = IF fragment # NoToken THEN [token |-> fragment, mode |-> "gmail"] ELSE stored
      /\ tab' = [tab EXCEPT ![t] = r] /\ asked' = [asked EXCEPT ![t] = NoRequest]
      /\ alone' = IF stored' = stored THEN alone \cup {t} ELSE {t}
  BY <1>1 DEF Loads, InStep, SessionInv, SessionTypes
<1>3. /\ stored' \in [token : Nat, mode : {"none", "gmail", "sample"}]
      /\ stored'.token <= issued' /\ stored'.token \notin refused \ {NoToken}
      /\ fragment # NoToken => stored'.token = fragment /\ stored'.mode = "gmail"
  BY <1>1, <1>2 DEF NoToken
<1>4. /\ fresh \in TabRecord /\ fresh.fragment = fragment /\ fresh.notice = "none"
      /\ fresh.pending # "none" => fresh.late
  <2>1. /\ Document(tab[t]) \in TabRecord /\ Document(tab[t]).notice = "none"
        /\ Document(tab[t]).pending # "none" => Document(tab[t]).late
    BY <1>1, DocumentFacts DEF TabFits
  <2> QED  BY <2>1 DEF TabRecord
<1> HIDE DEF fresh
<1>5. /\ mounted \in TabRecord /\ mounted.fragment = NoToken /\ mounted.token = stored'.token
      /\ mounted.signedIn = (stored'.token # NoToken \/ stored'.mode = "sample")
      /\ mounted.mock = (stored'.mode = "sample")
      /\ mounted.notice = "none" /\ (mounted.pending # "none" => mounted.late)
  <2>1. /\ mounted.fragment = NoToken /\ mounted.token = stored'.token
        /\ mounted.signedIn = (stored'.token # NoToken \/ stored'.mode = "sample")
        /\ mounted.mock = (fragment = NoToken /\ stored'.mode = "sample")
        /\ mounted.notice = fresh.notice /\ mounted.pending = fresh.pending /\ mounted.late = fresh.late
    BY <1>4 DEF Mounted, TabRecord
  <2>2. mounted \in TabRecord
    BY <1>3, <1>4 DEF Mounted, TabRecord, NoToken
  <2> QED  BY <1>3, <1>4, <2>1, <2>2
<1> HIDE DEF mounted
<1>6. /\ r \in TabRecord /\ TabFits(r)
      /\ r.signedIn = mounted.signedIn /\ r.mock = mounted.mock /\ r.token = mounted.token
  <2>1. mounted.signedIn => mounted.mock \/ mounted.token # NoToken
    BY <1>5
  <2> QED  BY <1>5, <2>1, ComesToFacts
<1> HIDE DEF r
<1>7. Shows(r, stored') /\ (~r.mock => r.token \notin refused \ {NoToken}) /\ r.token <= issued'
  BY <1>3, <1>5, <1>6 DEF Shows
<1>0. \A k \in Int : k <= issued => k <= issued'
  BY <1>1
<1>8. /\ asked' \in [Tab -> [0..MaxTokens -> Nat]]
      /\ \A u \in Tab : \A k \in 0..MaxTokens : asked'[u][k] > 0 => k <= issued'
  <2>1. /\ asked' \in [Tab -> [0..MaxTokens -> Nat]]
        /\ \A u \in Tab : \A k \in 0..MaxTokens : asked'[u][k] > 0 => asked[u][k] > 0
    BY <1>1, <1>2, NoRequestFacts
  <2>2. \A k \in 0..MaxTokens : k \in Int
    OBVIOUS
  <2> QED  BY <1>0, <1>1, <2>1, <2>2
<1>9. refused' \subseteq Nat /\ \A k \in refused' : k <= issued'
  <2>1. \A k \in refused : k \in Int /\ k <= issued
    BY <1>1
  <2> QED  BY <1>0, <1>1, <2>1
<1> QED  BY <1>1, <1>2, <1>3, <1>6, <1>7, <1>8, <1>9, OneTabInv

LEMMA LoadInv == SessionInv => \A t \in Tab : Load(t) => SessionInv'
<1> SUFFICES ASSUME SessionInv, NEW t \in Tab, Load(t) PROVE SessionInv'
  OBVIOUS
<1>1. PICK page \in {"landing", "inbox"} :
        Loads(t, page, IF page = "inbox" THEN tab[t].fragment ELSE NoToken)
  BY DEF Load
<1>2. tab[t].fragment = NoToken /\ issued \in Nat /\ issued' = issued /\ refused' = refused
  BY DEF Load, SessionInv, SessionTypes, TabFits
<1>3. Loads(t, page, NoToken)
  BY <1>1, <1>2
<1> QED  BY <1>2, <1>3, LoadsInv DEF NoToken

LEMMA GoogleReturnsInv == SessionInv => \A t \in Tab : GoogleReturns(t) => SessionInv'
<1> SUFFICES ASSUME SessionInv, NEW t \in Tab, GoogleReturns(t) PROVE SessionInv'
  OBVIOUS
<1>1. issued \in Nat /\ refused \subseteq Nat /\ \A k \in refused : k <= issued
  BY TabFacts
<1>2. issued + 1 \in Nat /\ issued' = issued + 1 /\ issued + 1 \notin refused /\ issued <= issued'
  BY <1>1 DEF GoogleReturns
<1> QED  BY <1>2, LoadsInv DEF GoogleReturns

(* The same, where no token is issued or refused.                          *)
LEMMA TabStepInv ==
    ASSUME SessionInv, NEW t \in Tab, NEW r \in TabRecord,
           tab' = [tab EXCEPT ![t] = r], TabFits(r), r.token \in {tab[t].token, NoToken},
           stored' \in [token : Nat, mode : {"none", "gmail", "sample"}],
           stored'.token \in {stored.token, NoToken}, UNCHANGED <<issued, refused>>,
           asked' \in [Tab -> [0..MaxTokens -> Nat]],
           \A u \in Tab : \A k \in 0..MaxTokens : asked'[u][k] > 0 => asked[u][k] > 0,
           alone' \subseteq alone \cup {t}, stored' # stored => alone' \subseteq {t},
           t \in alone' => Shows(r, stored') /\ (~r.mock => r.token \notin refused \ {NoToken})
    PROVE  SessionInv'
<1>1. /\ tab[t].token <= issued
      /\ stored.token \in Nat /\ stored.token <= issued /\ stored.token \notin refused \ {NoToken}
      /\ issued \in Nat /\ refused \subseteq Nat /\ (\A k \in refused : k <= issued)
      /\ \A u \in Tab : \A k \in 0..MaxTokens : asked[u][k] > 0 => k <= issued
  BY TabFacts
<1>2. /\ r.token <= issued' /\ stored'.token <= issued' /\ issued' \in Nat /\ issued <= issued'
      /\ stored'.token \notin refused' \ {NoToken}
  BY <1>1 DEF NoToken
<1>3. /\ refused' \subseteq Nat /\ (\A k \in refused' : k <= issued') /\ refused' = refused
      /\ \A u \in Tab : \A k \in 0..MaxTokens : asked'[u][k] > 0 => k <= issued'
  BY <1>1
<1>4. t \in alone' => Shows(r, stored') /\ (~r.mock => r.token \notin refused' \ {NoToken})
  OBVIOUS
<1> QED  BY <1>2, <1>3, <1>4, OneTabInv

(* A tab changes and the storage does not.                                 *)
LEMMA SameStorageInv ==
    ASSUME SessionInv, NEW t \in Tab, NEW r \in TabRecord, tab' = [tab EXCEPT ![t] = r], TabFits(r),
           UNCHANGED <<stored, issued, refused, alone>>,
           asked' = asked \/ asked' = [asked EXCEPT ![t] = NoRequest],
           \/ r.page \notin {"landing", "inbox"} /\ r.token = NoToken
           \/ /\ r.signedIn = tab[t].signedIn /\ r.mock = tab[t].mock /\ r.token = tab[t].token
              /\ tab[t].page \in {"landing", "inbox"}
    PROVE  SessionInv'
<1>1. /\ stored \in [token : Nat, mode : {"none", "gmail", "sample"}]
      /\ asked \in [Tab -> [0..MaxTokens -> Nat]]
  BY TabFacts
<1>2. /\ asked' \in [Tab -> [0..MaxTokens -> Nat]]
      /\ \A u \in Tab : \A k \in 0..MaxTokens : asked'[u][k] > 0 => asked[u][k] > 0
  BY <1>1, NoRequestFacts
<1>3. t \in alone' => Shows(r, stored') /\ (~r.mock => r.token \notin refused \ {NoToken})
  BY DEF SessionInv, Shows, RefusedIsForgotten
<1>4. /\ stored' \in [token : Nat, mode : {"none", "gmail", "sample"}]
      /\ stored'.token \in {stored.token, NoToken} /\ r.token \in {tab[t].token, NoToken}
      /\ alone' \subseteq alone \cup {t} /\ (stored' # stored => alone' \subseteq {t})
  BY <1>1
<1> QED  BY <1>2, <1>3, <1>4, TabStepInv

LEMMA NavigateInv == SessionInv => \A t \in Tab : Navigate(t) => SessionInv'
<1> SUFFICES ASSUME SessionInv, NEW t \in Tab, Navigate(t) PROVE SessionInv'
  OBVIOUS
<1>1. PICK page \in {"landing", "inbox"} : tab' = [tab EXCEPT ![t] = ComesTo(tab[t], page)]
  BY DEF Navigate, SessionInv, SessionTypes
<1>2. tab[t] \in TabRecord /\ TabFits(tab[t]) /\ tab[t].page \in {"landing", "inbox"}
      /\ UNCHANGED <<stored, issued, asked, refused, alone>>
  BY TabFacts DEF Navigate
<1> DEFINE r == ComesTo(tab[t], page)
<1>3. /\ r \in TabRecord /\ TabFits(r) /\ r.page \in {"landing", "inbox"}
      /\ r.signedIn = tab[t].signedIn /\ r.mock = tab[t].mock /\ r.token = tab[t].token
  BY <1>2, ComesToFacts DEF TabFits
<1> HIDE DEF r
<1> QED  BY <1>1, <1>2, <1>3, SameStorageInv DEF r

LEMMA ClosesInv == SessionInv => \A t \in Tab : Closes(t) => SessionInv'
<1> SUFFICES ASSUME SessionInv, NEW t \in Tab, Closes(t) PROVE SessionInv'
  OBVIOUS
<1>1. Away \in TabRecord /\ TabFits(Away) /\ Away.page = "away" /\ Away.token = NoToken
  BY DEF Away, TabRecord, TabFits, NoToken, Pages, Notices
<1> QED  BY <1>1, SameStorageInv DEF Closes

LEMMA StartSampleInv == SessionInv => \A t \in Tab : StartSample(t) => SessionInv'
<1> SUFFICES ASSUME SessionInv, NEW t \in Tab, StartSample(t) PROVE SessionInv'
  OBVIOUS
<1> DEFINE chosen == [tab[t] EXCEPT !.mock = TRUE, !.signedIn = TRUE]
           r == ComesTo(chosen, "inbox")
<1>1. /\ tab[t] \in TabRecord /\ TabFits(tab[t])
      /\ stored \in [token : Nat, mode : {"none", "gmail", "sample"}]
      /\ asked \in [Tab -> [0..MaxTokens -> Nat]]
  BY TabFacts
<1>2. /\ stored' = [stored EXCEPT !.mode = "sample"] /\ tab' = [tab EXCEPT ![t] = r]
      /\ alone' = IF stored' = stored THEN alone \cup {t} ELSE {t}
      /\ UNCHANGED <<issued, asked, refused>>
  BY DEF StartSample, InStep, SessionInv, SessionTypes
<1>3. /\ stored' \in [token : Nat, mode : {"none", "gmail", "sample"}]
      /\ stored'.token = stored.token /\ stored'.mode = "sample"
  BY <1>1, <1>2
<1>4. /\ chosen \in TabRecord /\ chosen.signedIn /\ chosen.mock /\ chosen.token = tab[t].token
      /\ chosen.fragment = tab[t].fragment /\ chosen.pending = tab[t].pending
      /\ chosen.notice = tab[t].notice /\ chosen.told = tab[t].told /\ chosen.late = tab[t].late
  BY <1>1 DEF TabRecord
<1> HIDE DEF chosen
<1>5. r \in TabRecord /\ TabFits(r) /\ r.signedIn /\ r.mock /\ r.token = tab[t].token
  BY <1>1, <1>4, ComesToFacts DEF TabFits
<1> HIDE DEF r
<1>6. Shows(r, stored')
  BY <1>3, <1>5 DEF Shows, TabRecord
<1> QED  BY <1>1, <1>2, <1>3, <1>5, <1>6, TabStepInv

LEMMA SignInWithGoogleInv == SessionInv => \A t \in Tab : SignInWithGoogle(t) => SessionInv'
<1> SUFFICES ASSUME SessionInv, NEW t \in Tab, SignInWithGoogle(t) PROVE SessionInv'
  OBVIOUS
<1> DEFINE r == [Document(tab[t]) EXCEPT !.page = "google"]
<1>1. /\ tab[t] \in TabRecord /\ TabFits(tab[t])
      /\ stored \in [token : Nat, mode : {"none", "gmail", "sample"}]
      /\ asked \in [Tab -> [0..MaxTokens -> Nat]]
  BY TabFacts
<1>2. /\ stored' = [stored EXCEPT !.mode = "gmail"] /\ tab' = [tab EXCEPT ![t] = r]
      /\ asked' = [asked EXCEPT ![t] = NoRequest]
      /\ alone' = IF stored' = stored THEN alone \cup {t} ELSE {t}
      /\ UNCHANGED <<issued, refused>>
  BY DEF SignInWithGoogle, InStep, SessionInv, SessionTypes
<1>3. /\ stored' \in [token : Nat, mode : {"none", "gmail", "sample"}] /\ stored'.token = stored.token
  BY <1>1, <1>2
<1>4. r \in TabRecord /\ TabFits(r) /\ r.page = "google" /\ r.token = NoToken
  <2>1. /\ Document(tab[t]) \in TabRecord /\ TabFits(Document(tab[t]))
        /\ Document(tab[t]).token = NoToken
    BY <1>1, DocumentFacts DEF TabFits
  <2> QED  BY <2>1 DEF TabRecord, TabFits, Pages
<1> HIDE DEF r
<1>5. Shows(r, stored')
  BY <1>4 DEF Shows
<1>6. /\ asked' \in [Tab -> [0..MaxTokens -> Nat]]
      /\ \A u \in Tab : \A k \in 0..MaxTokens : asked'[u][k] > 0 => asked[u][k] > 0
  BY <1>1, <1>2, NoRequestFacts
<1> QED  BY <1>1, <1>2, <1>3, <1>4, <1>5, <1>6, TabStepInv


LEMMA SignedOutFacts ==
    ASSUME NEW r \in TabRecord
    PROVE  LET s == SignedOut(r)
           IN /\ s \in TabRecord /\ ~s.signedIn /\ ~s.mock /\ s.token = NoToken
              /\ s.fragment = r.fragment /\ s.pending = r.pending /\ s.notice = r.notice
              /\ s.page = r.page /\ s.told = r.told /\ s.late = r.late
BY DEF SignedOut, TabRecord, NoToken

LEMMA LeaveFacts ==
    Leave => /\ stored' \in [token : Nat, mode : {"none", "gmail", "sample"}]
             /\ stored'.token = NoToken /\ stored'.mode = "none"
BY DEF Leave, NoToken

LEMMA SignOutInv == SessionInv => \A t \in Tab : SignOut(t) => SessionInv'
<1> SUFFICES ASSUME SessionInv, NEW t \in Tab, SignOut(t) PROVE SessionInv'
  OBVIOUS
<1> DEFINE out == [SignedOut(tab[t]) EXCEPT !.told = FALSE]
           r == ComesTo(out, "landing")
<1>1. /\ tab[t] \in TabRecord /\ TabFits(tab[t])
      /\ stored \in [token : Nat, mode : {"none", "gmail", "sample"}]
      /\ asked \in [Tab -> [0..MaxTokens -> Nat]]
  BY TabFacts
<1>2. /\ Leave /\ tab' = [tab EXCEPT ![t] = r] /\ UNCHANGED <<issued, asked, refused>>
      /\ alone' = IF stored' = stored THEN alone \cup {t} ELSE {t}
  BY DEF SignOut, InStep, SessionInv, SessionTypes
<1>3. /\ out \in TabRecord /\ ~out.signedIn /\ ~out.mock /\ out.token = NoToken
      /\ out.fragment = NoToken /\ (out.pending # "none" => out.late)
  BY <1>1, SignedOutFacts DEF TabRecord, TabFits
<1> HIDE DEF out
<1>4. r \in TabRecord /\ TabFits(r) /\ ~r.signedIn /\ ~r.mock /\ r.token = NoToken
  BY <1>3, ComesToFacts DEF TabRecord
<1> HIDE DEF r
<1>5. Shows(r, stored')
  BY <1>2, <1>4, LeaveFacts DEF Shows, TabRecord
<1> QED  BY <1>1, <1>2, <1>4, <1>5, LeaveFacts, TabStepInv

(* AUTH_FAILED for a token there has been: the tab that asked has no       *)
(* session any more, and storage has none for any tab.                     *)
LEMMA ExpireInv ==
    ASSUME SessionInv, NEW t \in Tab, NEW token \in Nat, token <= issued, Expire(t, token),
           asked' \in [Tab -> [0..MaxTokens -> Nat]],
           \A u \in Tab : \A k \in 0..MaxTokens : asked'[u][k] > 0 => asked[u][k] > 0
    PROVE  SessionInv'
<1>1. /\ tab[t] \in TabRecord /\ TabFits(tab[t]) /\ issued \in Nat /\ refused \subseteq Nat
      /\ \A k \in refused : k <= issued
      /\ \A u \in Tab : \A k \in 0..MaxTokens : asked[u][k] > 0 => k <= issued
  BY TabFacts
<1>2. PICK recoverable \in BOOLEAN :
        LET out == [SignedOut(tab[t]) EXCEPT !.pending = SignInNotice(recoverable)]
        IN tab' = [tab EXCEPT ![t] =
                     IF tab[t].page = "inbox"
                     THEN ComesTo([out EXCEPT !.told = TRUE, !.late = FALSE], "landing")
                     ELSE [out EXCEPT !.late = TRUE]]
  BY DEF Expire, SessionInv, SessionTypes
<1>3. /\ Leave /\ issued' = issued /\ refused' = refused \cup {token}
      /\ alone' = IF stored' = stored THEN alone \cup {t} ELSE {t}
  BY DEF Expire, InStep
<1> DEFINE out == [SignedOut(tab[t]) EXCEPT !.pending = SignInNotice(recoverable)]
           told == [out EXCEPT !.told = TRUE, !.late = FALSE]
           late == [out EXCEPT !.late = TRUE]
           r == IF tab[t].page = "inbox" THEN ComesTo(told, "landing") ELSE late
<1>4. tab' = [tab EXCEPT ![t] = r]
  BY <1>2
<1>5. /\ out \in TabRecord /\ ~out.signedIn /\ ~out.mock /\ out.token = NoToken
      /\ out.fragment = NoToken /\ out.page = tab[t].page
  BY <1>1, SignedOutFacts DEF SignInNotice, TabRecord, TabFits, Notices
<1> HIDE DEF out
<1>6. r \in TabRecord /\ TabFits(r) /\ ~r.signedIn /\ ~r.mock /\ r.token = NoToken
  <2>1. CASE tab[t].page = "inbox"
    <3>1. /\ told \in TabRecord /\ ~told.signedIn /\ ~told.mock /\ told.token = NoToken
          /\ told.fragment = NoToken /\ told.told
      BY <1>5 DEF TabRecord
    <3> HIDE DEF told
    <3> QED  BY <2>1, <3>1, ComesToFacts DEF TabRecord
  <2>2. CASE tab[t].page # "inbox"
    <3>1. /\ late \in TabRecord /\ ~late.signedIn /\ ~late.mock /\ late.token = NoToken
          /\ late.fragment = NoToken /\ late.late /\ late.page # "inbox"
      BY <1>5, <2>2 DEF TabRecord
    <3> HIDE DEF late
    <3> QED  BY <2>2, <3>1 DEF TabFits
  <2> QED  BY <2>1, <2>2
<1> HIDE DEF r
<1>7. Shows(r, stored') /\ r.token <= issued' /\ stored'.token <= issued'
  BY <1>1, <1>3, <1>6, LeaveFacts DEF Shows, TabRecord, NoToken
<1>8. /\ refused' \subseteq Nat /\ \A k \in refused' : k <= issued'
      /\ stored'.token \notin refused' \ {NoToken} /\ r.token \notin refused' \ {NoToken}
      /\ \A u \in Tab : \A k \in 0..MaxTokens : asked'[u][k] > 0 => k <= issued'
      /\ issued' \in Nat /\ issued <= issued'
  BY <1>1, <1>3, <1>6, LeaveFacts
<1> QED  BY <1>3, <1>4, <1>6, <1>7, <1>8, LeaveFacts, OneTabInv

(* One request more or less.                                               *)
Added(f, n) == [f EXCEPT ![n] = @ + 1]
Removed(f, n) == [f EXCEPT ![n] = @ - 1]

LEMMA AddedFacts ==
    ASSUME NEW D, NEW f \in [D -> Nat], NEW n
    PROVE  /\ Added(f, n) \in [D -> Nat]
           /\ \A k \in D : Added(f, n)[k] > 0 => k = n \/ f[k] > 0
           /\ f[n] > 0 => Removed(f, n) \in [D -> Nat]
           /\ \A k \in D : f[n] > 0 /\ Removed(f, n)[k] > 0 => f[k] > 0
<1>1. \A k \in D : f[k] \in Nat /\ f[k] + 1 \in Nat /\ (f[k] > 0 => f[k] - 1 \in Nat)
  OBVIOUS
<1>2. \A k \in D : Added(f, n)[k] = IF k = n THEN f[k] + 1 ELSE f[k]
  BY DEF Added
<1>3. \A k \in D : Removed(f, n)[k] = IF k = n THEN f[k] - 1 ELSE f[k]
  BY DEF Removed
<1>4. Added(f, n) = [k \in D |-> Added(f, n)[k]] /\ Removed(f, n) = [k \in D |-> Removed(f, n)[k]]
  BY DEF Added, Removed
<1>5. Added(f, n) \in [D -> Nat]
  BY <1>1, <1>2, <1>4
<1>6. f[n] > 0 => Removed(f, n) \in [D -> Nat]
  BY <1>1, <1>3, <1>4
<1> QED  BY <1>1, <1>2, <1>3, <1>5, <1>6

LEMMA AskInv == SessionInv => \A t \in Tab : Ask(t) \/ Answered(t) \/ AuthFailed(t) => SessionInv'
<1> SUFFICES ASSUME SessionInv, NEW t \in Tab, Ask(t) \/ Answered(t) \/ AuthFailed(t)
             PROVE  SessionInv'
  OBVIOUS
<1>1. /\ tab[t] \in TabRecord /\ TabFits(tab[t]) /\ tab[t].token \in Nat /\ tab[t].token <= issued
      /\ asked \in [Tab -> [0..MaxTokens -> Nat]] /\ issued \in Nat
      /\ \A u \in Tab : \A k \in 0..MaxTokens : asked[u][k] > 0 => k <= issued
  BY TabFacts
<1>2. ASSUME asked' \in [Tab -> [0..MaxTokens -> Nat]],
             \A u \in Tab : \A k \in 0..MaxTokens : asked'[u][k] > 0 => k <= issued,
             UNCHANGED <<stored, tab, issued, refused, alone>>
      PROVE  SessionInv'
  BY <1>2 DEF SessionInv, SessionTypes, TokensInv, RefusedIsForgotten
<1>8. asked[t] \in [0..MaxTokens -> Nat]
  BY <1>1
<1>3. CASE Ask(t)
  <2> DEFINE more == [asked[t] EXCEPT ![tab[t].token] = @ + 1]
  <2>1. asked' = [asked EXCEPT ![t] = more]
    BY <1>3 DEF Ask
  <2>2. more \in [0..MaxTokens -> Nat]
        /\ \A k \in 0..MaxTokens : more[k] > 0 => k = tab[t].token \/ asked[t][k] > 0
    BY <1>8, AddedFacts DEF Added
  <2> HIDE DEF more
  <2>3. /\ asked' \in [Tab -> [0..MaxTokens -> Nat]]
        /\ asked'[t] = more /\ \A u \in Tab \ {t} : asked'[u] = asked[u]
    BY <1>1, <2>1, <2>2
  <2>4. \A u \in Tab : \A k \in 0..MaxTokens : asked'[u][k] > 0 => k <= issued
    BY <1>1, <2>2, <2>3
  <2> QED  BY <1>2, <1>3, <2>3, <2>4 DEF Ask
<1>4. ASSUME NEW k \in 0..MaxTokens, asked[t][k] > 0, asked' = [asked EXCEPT ![t][k] = @ - 1]
      PROVE  /\ asked' \in [Tab -> [0..MaxTokens -> Nat]]
             /\ \A u \in Tab : \A j \in 0..MaxTokens : asked'[u][j] > 0 => asked[u][j] > 0
  <2> DEFINE less == [asked[t] EXCEPT ![k] = @ - 1]
  <2>1. asked' = [asked EXCEPT ![t] = less]
    BY <1>4
  <2>2. less \in [0..MaxTokens -> Nat]
        /\ \A j \in 0..MaxTokens : less[j] > 0 => asked[t][j] > 0
    BY <1>4, <1>8, AddedFacts DEF Removed
  <2> HIDE DEF less
  <2> QED  BY <1>1, <2>1, <2>2
<1>5. DOMAIN asked[t] = 0..MaxTokens
  BY <1>1
<1>6. CASE Answered(t)
  <2>1. PICK k \in 0..MaxTokens : asked[t][k] > 0 /\ asked' = [asked EXCEPT ![t][k] = @ - 1]
    BY <1>5, <1>6 DEF Answered
  <2> QED  BY <1>1, <1>2, <1>4, <1>6, <2>1 DEF Answered
<1>7. CASE AuthFailed(t)
  <2>1. PICK k \in 0..MaxTokens :
          asked[t][k] > 0 /\ asked' = [asked EXCEPT ![t][k] = @ - 1] /\ Expire(t, k)
    BY <1>5, <1>7 DEF AuthFailed
  <2>2. k \in Nat /\ k <= issued
    BY <1>1, <2>1, SessionBounds
  <2> QED  BY <1>4, <2>1, <2>2, ExpireInv
<1> QED  BY <1>3, <1>6, <1>7

LEMMA SessionInitInv == SessionInit => SessionInv
<1> SUFFICES ASSUME SessionInit PROVE SessionInv
  OBVIOUS
<1> USE DEF SessionInit
<1>1. Away \in TabRecord /\ TabFits(Away) /\ Away.page = "away" /\ Away.token = NoToken
  BY DEF Away, TabRecord, TabFits, NoToken, Pages, Notices
<1>2. NoRequest \in [0..MaxTokens -> Nat] /\ \A k \in 0..MaxTokens : NoRequest[k] = 0
  BY DEF NoRequest
<1>3. SessionTypes
  BY <1>1, <1>2 DEF SessionTypes, NoToken
<1>4. TokensInv
  BY <1>1, <1>2 DEF TokensInv, NoToken
<1>5. (\A t \in Tab : TabFits(tab[t])) /\ (\A t \in alone : Shows(tab[t], stored)) /\ RefusedIsForgotten
  BY <1>1 DEF Shows, RefusedIsForgotten
<1> QED  BY <1>3, <1>4, <1>5 DEF SessionInv


-----------------------------------------------------------------------------
(* The inductive invariant of the drawers                                  *)

DraftTypes ==
    /\ drafts \in [Key -> Fields \cup {NoDraft}]
    /\ drawer \in [Tab -> DrawerRecord \cup {NoDrawer}]
    /\ sends \in [Tab -> SUBSET SendRecord]
    /\ shared \subseteq Key /\ sent \subseteq Key
    /\ left \in [Key -> DrawerRecord \cup {NoDrawer}]

(* A tab's drawer is sending if and only if one of the tab's sends is its. *)
SendsFit(d, S) ==
    /\ \A s \in S : s.here => d # NoDrawer /\ d.sending /\ s.key = d.key /\ s.fields = d.fields
    /\ \A s, r \in S : s.here /\ r.here => s = r
    /\ d # NoDrawer /\ d.sending => \E s \in S : s.here

SendsInv ==
    \A t \in Tab : SendsFit(drawer[t], sends[t]) /\ \A s \in sends[t] : s.token <= issued

(* The To of a reply is fixed.                                             *)
ReplyFits(k, f) == k \in Replies => f.to = {"correspondent"}

DrawerFits(d) ==
    ReplyFits(d.key, d.fields) /\ (d.mode = "base" => d.initial = BaseFields(d.key))

RepliesInv ==
    /\ \A k \in Key : drafts[k] # NoDraft => ReplyFits(k, drafts[k])
    /\ \A t \in Tab : drawer[t] # NoDrawer => DrawerFits(drawer[t])
    /\ \A t \in Tab : \A s \in sends[t] : ReplyFits(s.key, s.fields)

LeftInv == \A k \in Key : left[k] # NoDrawer => left[k].key = k

(* Is tab t at work on the draft?                                          *)
Works(t, k) == t \in Drawing(k) \/ Adrift(t, k) # {}

(* At most one is, of a draft that was never shared; and none, if its last *)
(* drawer is closed, or sent.                                              *)
WorkInv ==
    \A k \in Key \ shared :
        /\ ~Crowded(k)
        /\ left[k] # NoDrawer \/ k \in sent => \A t \in Tab : ~Works(t, k)

ComposeInv ==
    /\ SessionInv /\ DraftTypes /\ SendsInv /\ RepliesInv /\ LeftInv /\ WorkInv
    /\ ShownIsStored /\ LeftIsKept /\ SentIsGone

(* What a drawer is kept as.                                               *)
KeptAs(d, f) == f = d.fields \/ d.fields = BaseFields(d.key) \/ OnlyItsRestoredSubject(d)

-----------------------------------------------------------------------------
(* Who writes a draft                                                      *)

LEMMA DrawerFacts ==
    ASSUME DraftTypes, NEW t \in Tab, drawer[t] # NoDrawer
    PROVE  /\ drawer[t] \in DrawerRecord /\ drawer[t].key \in Key /\ drawer[t].fields \in Fields
           /\ drawer[t].initial \in Fields /\ drawer[t].sending \in BOOLEAN
           /\ drawer[t].armed \in BOOLEAN /\ drawer[t].mode \in {"base", "draft-restored"}
           /\ t \in Drawing(drawer[t].key) /\ Works(t, drawer[t].key)
BY DEF DraftTypes, DrawerRecord, Drawing, Works

LEMMA SendFacts ==
    ASSUME DraftTypes, NEW t \in Tab, NEW s \in sends[t]
    PROVE  /\ s \in SendRecord /\ s.key \in Key /\ s.fields \in Fields /\ s.token \in Nat
           /\ s.here \in BOOLEAN /\ sends[t] \subseteq SendRecord
BY DEF DraftTypes, SendRecord

LEMMA OneWorks ==
    ASSUME NEW k, ~Crowded(k), NEW t \in Tab, NEW u \in Tab, Works(t, k), Works(u, k)
    PROVE  t = u
<1>1. CASE t \in Drawing(k) /\ u \in Drawing(k)
  BY <1>1 DEF Crowded
<1>2. CASE t \in Drawing(k) /\ Adrift(u, k) # {}
  BY <1>2 DEF Crowded
<1>3. CASE u \in Drawing(k) /\ Adrift(t, k) # {}
  BY <1>3 DEF Crowded
<1>4. CASE Adrift(t, k) # {} /\ Adrift(u, k) # {}
  BY <1>4 DEF Crowded
<1> QED  BY <1>1, <1>2, <1>3, <1>4 DEF Works

(* Of a draft that was never shared: its drawer, or its send, is the only  *)
(* one there is.                                                           *)
LEMMA SoleWriter ==
    ASSUME DraftTypes, SendsInv, WorkInv, NEW t \in Tab, NEW s \in sends[t], s.key \notin shared
    PROVE  /\ \A r \in sends[t] : r.key = s.key => r = s
           /\ ~s.here => t \notin Drawing(s.key)
           /\ Works(t, s.key) /\ left[s.key] = NoDrawer /\ s.key \notin sent
<1>1. s.key \in Key /\ ~Crowded(s.key) /\ SendsFit(drawer[t], sends[t]) /\ s.here \in BOOLEAN
  BY SendFacts DEF WorkInv, SendsInv
<1>2. s.here => t \in Drawing(s.key)
  BY <1>1 DEF SendsFit, Drawing
<1>3. ~s.here => s \in Adrift(t, s.key)
  BY DEF Adrift
<1>4. Works(t, s.key)
  BY <1>1, <1>2, <1>3 DEF Works
<1>5. ~s.here => t \notin Drawing(s.key)
  BY <1>1, <1>3 DEF Crowded
<1>6. ASSUME NEW r \in sends[t], r.key = s.key PROVE r = s
  <2>1. r.here \in BOOLEAN /\ (r.here => t \in Drawing(s.key)) /\ (~r.here => r \in Adrift(t, s.key))
    BY <1>1, <1>6, SendFacts DEF SendsFit, Drawing, Adrift
  <2> QED  BY <1>1, <1>2, <1>3, <2>1 DEF Crowded, SendsFit
<1> QED  BY <1>1, <1>4, <1>5, <1>6 DEF WorkInv

LEMMA SoleDrawer ==
    ASSUME DraftTypes, WorkInv, NEW t \in Tab, drawer[t] # NoDrawer, drawer[t].key \notin shared
    PROVE  left[drawer[t].key] = NoDrawer /\ drawer[t].key \notin sent /\ Adrift(t, drawer[t].key) = {}
<1>1. drawer[t].key \in Key /\ ~Crowded(drawer[t].key) /\ Works(t, drawer[t].key)
      /\ t \in Drawing(drawer[t].key)
  BY DrawerFacts DEF WorkInv
<1>2. Adrift(t, drawer[t].key) = {}
  BY <1>1 DEF Crowded
<1> QED  BY <1>1, <1>2 DEF WorkInv

(* A step of tab t, that changes what is kept of the drafts K.             *)
LEMMA StepInv ==
    ASSUME ComposeInv, NEW t \in Tab, NEW K \in SUBSET Key,
           SessionInv', DraftTypes', SendsInv', RepliesInv', LeftInv',
           \A k \in Key \ K : /\ drafts'[k] = drafts[k] /\ left'[k] = left[k]
                              /\ k \in sent' <=> k \in sent
                              /\ Works(t, k)' => Works(t, k),
           \A u \in Tab \ {t} : drawer'[u] = drawer[u] /\ sends'[u] = sends[u],
           \A k \in K \ shared :
              /\ drafts'[k] # drafts[k] => Works(t, k)
              /\ left'[k] # NoDrawer \/ k \in sent' => Works(t, k) /\ ~Works(t, k)'
              /\ left'[k] # NoDrawer => KeptAs(left'[k], drafts'[k])
              /\ k \in sent' => drafts'[k] = NoDraft,
           drawer'[t] # NoDrawer /\ ~drawer'[t].sending /\ ~drawer'[t].armed
             /\ drawer'[t].key \notin shared
             => KeptAs(drawer'[t], drafts'[drawer'[t].key]),
           shared' = shared \cup {k \in Key : Crowded(k)'}
    PROVE  ComposeInv'
<1>1. /\ DraftTypes /\ SendsInv /\ LeftInv /\ WorkInv /\ ShownIsStored /\ LeftIsKept /\ SentIsGone
  BY DEF ComposeInv
<1>2. \A u \in Tab \ {t} : \A k : Works(u, k)' <=> Works(u, k)
  BY DEF Works, Drawing, Adrift
<1>3. ASSUME NEW k \in Key \ shared'
      PROVE  /\ ~Crowded(k)'
             /\ left'[k] # NoDrawer \/ k \in sent' => \A u \in Tab : ~Works(u, k)'
             /\ left'[k] # NoDrawer => KeptAs(left'[k], drafts'[k])
             /\ k \in sent' => drafts'[k] = NoDraft
  <2>1. k \notin shared /\ ~Crowded(k)' /\ ~Crowded(k)
    BY <1>1, <1>3 DEF WorkInv
  <2>2. CASE k \in K
    <3>1. ASSUME NEW u \in Tab, left'[k] # NoDrawer \/ k \in sent', Works(u, k)' PROVE FALSE
      <4>1. Works(t, k) /\ ~Works(t, k)' /\ u # t
        BY <2>1, <2>2, <3>1
      <4>2. Works(u, k)
        BY <1>2, <3>1, <4>1
      <4> QED  BY <2>1, <4>1, <4>2, OneWorks
    <3> QED  BY <2>1, <2>2, <3>1
  <2>3. CASE k \notin K
    <3>1. left[k] # NoDrawer \/ k \in sent => \A u \in Tab : ~Works(u, k)
      BY <1>1, <2>1 DEF WorkInv
    <3>2. left[k] # NoDrawer => KeptAs(left[k], drafts[k])
      BY <1>1, <2>1 DEF LeftIsKept, IsKept, KeptAs, LeftInv
    <3>3. k \in sent => drafts[k] = NoDraft
      BY <1>1, <2>1 DEF SentIsGone
    <3> QED  BY <1>2, <2>1, <2>3, <3>1, <3>2, <3>3
  <2> QED  BY <2>2, <2>3
<1>4. WorkInv'
  BY <1>3 DEF WorkInv
<1>5. LeftIsKept'
  <2>1. \A k \in Key \ shared' : left'[k] # NoDrawer => left'[k].key = k /\ KeptAs(left'[k], drafts'[k])
    BY <1>3 DEF LeftInv
  <2> QED  BY <2>1 DEF LeftIsKept, IsKept, KeptAs, OnlyItsRestoredSubject
<1>6. SentIsGone'
  BY <1>3 DEF SentIsGone, DraftTypes
<1>7. ASSUME NEW u \in Tab, drawer'[u] # NoDrawer, ~drawer'[u].sending, ~drawer'[u].armed,
             drawer'[u].key \notin shared'
      PROVE  KeptAs(drawer'[u], drafts'[drawer'[u].key])
  <2>1. CASE u = t
    BY <1>7, <2>1
  <2>2. CASE u # t
    <3>1. drawer'[u] = drawer[u] /\ drawer[u].key \in Key \ shared /\ Works(u, drawer[u].key)
      BY <1>1, <1>7, <2>2, DrawerFacts
    <3>2. KeptAs(drawer[u], drafts[drawer[u].key])
      BY <1>1, <1>7, <3>1 DEF ShownIsStored, Idle, IsKept, KeptAs
    <3>3. drafts'[drawer[u].key] = drafts[drawer[u].key]
      <4>1. CASE drawer[u].key \in K
        <5>1. ~Works(t, drawer[u].key)
          BY <1>1, <2>2, <3>1, OneWorks DEF WorkInv
        <5> QED  BY <3>1, <4>1, <5>1
      <4> QED  BY <3>1, <4>1
    <3> QED  BY <3>1, <3>2, <3>3
  <2> QED  BY <2>1, <2>2
<1>8. ShownIsStored'
  BY <1>7 DEF ShownIsStored, Idle, IsKept, KeptAs, OnlyItsRestoredSubject
<1> QED  BY <1>4, <1>5, <1>6, <1>8 DEF ComposeInv


-----------------------------------------------------------------------------
(* What the user does in a drawer                                          *)

LEMMA BaseFits ==
    ASSUME NEW k \in Key
    PROVE  BaseFields(k) \in Fields /\ ReplyFits(k, BaseFields(k))
BY DEF BaseFields, Fields, Address, Subject, Text, Blank, ReplyFits

LEMMA StartedFacts ==
    ASSUME NEW k \in Key, NEW mode \in {"base", "draft-restored"}, NEW f \in Fields
    PROVE  LET d == Started(k, mode, f)
           IN /\ d \in DrawerRecord /\ d # NoDrawer /\ d.key = k /\ d.mode = mode
              /\ d.initial = f /\ d.fields = f /\ d.armed /\ ~d.sending
<1>1. Started(k, mode, f) \in DrawerRecord
  BY DEF Started, DrawerRecord
<1> QED  BY <1>1, NothingAssumption DEF Started

LEMMA LeftFacts ==
    ASSUME NEW d \in DrawerRecord
    PROVE  /\ Left(d) \in DrawerRecord /\ Left(d) # NoDrawer
           /\ Left(d).key = d.key /\ Left(d).fields = d.fields /\ Left(d).mode = d.mode
           /\ Left(d).initial = d.initial
<1>1. Left(d) \in DrawerRecord
  BY DEF Left, DrawerRecord
<1> QED  BY <1>1, NothingAssumption DEF Left, DrawerRecord

(* persist leaves out what a drawer without content shows: its base        *)
(* fields, or a restored reply's subject.                                  *)
LEMMA PersistKeeps ==
    ASSUME NEW d \in DrawerRecord, DrawerFits(d)
    PROVE  KeptAs(d, IF HasContent(d) THEN d.fields ELSE NoDraft)
<1> SUFFICES ASSUME ~HasContent(d) PROVE d.fields = BaseFields(d.key) \/ OnlyItsRestoredSubject(d)
  BY DEF KeptAs
<1>1. /\ d.fields \in Fields /\ d.key \in Key /\ d.mode \in {"base", "draft-restored"}
      /\ d.fields.bodyText = Blank /\ d.fields.copies = {}
  BY DEF DrawerRecord, HasContent
<1>2. CASE d.key \notin Replies
  <2>1. d.fields.to = {} /\ d.fields.subject = Blank
    BY <1>2 DEF HasContent
  <2>2. d.fields = [to |-> {}, copies |-> {}, subject |-> Blank, bodyText |-> Blank]
    BY <1>1, <2>1 DEF Fields
  <2> QED  BY <1>2, <2>2 DEF BaseFields
<1>3. CASE d.key \in Replies /\ d.mode = "base"
  <2>0. d.fields.subject = d.initial.subject /\ d.initial = BaseFields(d.key)
    BY <1>3 DEF HasContent, DrawerFits
  <2>3. BaseFields(d.key).subject = "reSubject"
    BY <1>3 DEF BaseFields
  <2>1. d.fields.to = {"correspondent"} /\ d.fields.subject = "reSubject"
    BY <1>3, <2>0, <2>3 DEF DrawerFits, ReplyFits
  <2>2. d.fields = [to |-> {"correspondent"}, copies |-> {}, subject |-> "reSubject",
                    bodyText |-> Blank]
    BY <1>1, <2>1 DEF Fields
  <2> QED  BY <1>3, <2>2 DEF BaseFields
<1>4. CASE d.key \in Replies /\ d.mode = "draft-restored"
  BY <1>1, <1>4 DEF HasContent, OnlyItsRestoredSubject
<1> QED  BY <1>1, <1>2, <1>3, <1>4

LEMMA SessionStays ==
    ASSUME SessionInv, UNCHANGED sessionVars
    PROVE  SessionInv' /\ issued' = issued
BY DEF sessionVars, SessionInv, SessionTypes, TokensInv, RefusedIsForgotten

(* A step in one drawer, or to one, that is sending before nor after.      *)
LEMMA DrawerStepInv ==
    ASSUME ComposeInv, NEW t \in Tab, NEW k \in Key, NEW d \in DrawerRecord \cup {NoDrawer},
           UNCHANGED <<sessionVars, sends>>, drawer' = [drawer EXCEPT ![t] = d],
           drafts' \in [Key -> Fields \cup {NoDraft}], left' \in [Key -> DrawerRecord \cup {NoDrawer}],
           \A n \in Key \ {k} : drafts'[n] = drafts[n] /\ left'[n] = left[n],
           sent' = sent \/ sent' = sent \ {k},
           drawer[t] # NoDrawer => ~drawer[t].sending /\ drawer[t].key = k,
           d # NoDrawer => ~d.sending /\ d.key = k /\ DrawerFits(d),
           drafts'[k] # NoDraft => ReplyFits(k, drafts'[k]), left'[k] # NoDrawer => left'[k].key = k,
           drafts'[k] # drafts[k] => drawer[t] # NoDrawer,
           k \notin shared => k \notin sent',
           k \notin shared /\ left'[k] # NoDrawer
             => drawer[t] # NoDrawer /\ d = NoDrawer /\ KeptAs(left'[k], drafts'[k]),
           k \notin shared /\ d # NoDrawer /\ ~d.armed => KeptAs(d, drafts'[k]),
           shared' = shared \cup {n \in Key : Crowded(n)'}
    PROVE  ComposeInv'
<1>1. SessionInv /\ DraftTypes /\ SendsInv /\ RepliesInv /\ LeftInv /\ WorkInv
  BY DEF ComposeInv
<1>2. SessionInv' /\ issued' = issued /\ sends' = sends
  BY <1>1, SessionStays
<1>3. drawer'[t] = d /\ (\A u \in Tab \ {t} : drawer'[u] = drawer[u])
  BY <1>1 DEF DraftTypes
<1>4. DraftTypes'
  BY <1>1, <1>2 DEF DraftTypes
<1>5. SendsInv'
  <2>1. SendsFit(d, sends[t])
    BY <1>1 DEF SendsInv, SendsFit
  <2>2. \A u \in Tab : SendsFit(drawer'[u], sends[u])
    BY <1>1, <1>3, <2>1 DEF SendsInv
  <2> QED  BY <1>1, <1>2, <2>2 DEF SendsInv, SendsFit
<1>6. RepliesInv'
  <2>1. \A n \in Key : drafts'[n] # NoDraft => ReplyFits(n, drafts'[n])
    BY <1>1, <1>3 DEF RepliesInv
  <2>2. \A u \in Tab : drawer'[u] # NoDrawer => DrawerFits(drawer'[u])
    BY <1>1, <1>3 DEF RepliesInv
  <2> QED  BY <1>1, <1>2, <2>1, <2>2 DEF RepliesInv, DrawerFits, ReplyFits
<1>7. LeftInv'
  BY <1>1, <1>3 DEF LeftInv
<1>8. \A n : Adrift(t, n)' = Adrift(t, n)
  BY <1>2 DEF Adrift
<1>9. \A n \in Key \ {k} : Works(t, n)' => Works(t, n)
  BY <1>3, <1>8 DEF Works, Drawing
<1>10. drawer[t] # NoDrawer => Works(t, k)
  BY <1>1, DrawerFacts
<1>11. k \notin shared /\ left'[k] # NoDrawer => Works(t, k) /\ ~Works(t, k)'
  <2>1. k \notin shared /\ drawer[t] # NoDrawer => Adrift(t, k) = {}
    BY <1>1, SoleDrawer
  <2>2. d = NoDrawer => t \notin Drawing(k)'
    BY <1>3 DEF Drawing
  <2> QED  BY <1>8, <1>10, <2>1, <2>2 DEF Works
<1>12. \A n \in Key \ {k} : n \in sent' <=> n \in sent
  OBVIOUS
<1>13. drawer'[t] # NoDrawer /\ ~drawer'[t].sending /\ ~drawer'[t].armed /\ drawer'[t].key \notin shared
         => KeptAs(drawer'[t], drafts'[drawer'[t].key])
  BY <1>3
<1> QED
  <2>1. \A n \in {k} \ shared :
           /\ drafts'[n] # drafts[n] => Works(t, n)
           /\ left'[n] # NoDrawer \/ n \in sent' => Works(t, n) /\ ~Works(t, n)'
           /\ left'[n] # NoDrawer => KeptAs(left'[n], drafts'[n])
           /\ n \in sent' => drafts'[n] = NoDraft
    BY <1>3, <1>10, <1>11
  <2>2. \A n \in Key \ {k} : /\ drafts'[n] = drafts[n] /\ left'[n] = left[n]
                             /\ n \in sent' <=> n \in sent
                             /\ Works(t, n)' => Works(t, n)
    BY <1>3, <1>9, <1>12
  <2>3. \A u \in Tab \ {t} : drawer'[u] = drawer[u] /\ sends'[u] = sends[u]
    BY <1>2, <1>3
  <2>4. {k} \in SUBSET Key
    OBVIOUS
  <2> QED  BY <1>2, <1>4, <1>5, <1>6, <1>7, <1>13, <2>1, <2>2, <2>3, <2>4, StepInv


LEMMA OpenComposeInv ==
    ASSUME ComposeInv, NEW t \in Tab, NEW k \in Key, OpenCompose(t, k),
           shared' = shared \cup {n \in Key : Crowded(n)'}
    PROVE  ComposeInv'
<1>1. /\ DraftTypes /\ RepliesInv /\ drafts[k] \in Fields \cup {NoDraft}
      /\ drafts[k] # NoDraft => ReplyFits(k, drafts[k])
  BY DEF ComposeInv, DraftTypes, RepliesInv
<1> DEFINE d == IF drafts[k] # NoDraft THEN Started(k, "draft-restored", drafts[k])
                                       ELSE Started(k, "base", BaseFields(k))
<1>2. d \in DrawerRecord /\ d # NoDrawer /\ ~d.sending /\ d.key = k /\ DrawerFits(d) /\ d.armed
  BY <1>1, BaseFits, StartedFacts DEF DrawerFits
<1>3. /\ UNCHANGED <<sessionVars, sends>> /\ drawer[t] = NoDrawer
      /\ drawer' = [drawer EXCEPT ![t] = d] /\ left' = [left EXCEPT ![k] = NoDrawer]
      /\ sent' = sent \ {k} /\ drafts' = drafts
  BY DEF OpenCompose
<1> HIDE DEF d
<1>4. /\ drafts' \in [Key -> Fields \cup {NoDraft}] /\ left' \in [Key -> DrawerRecord \cup {NoDrawer}]
      /\ \A n \in Key \ {k} : drafts'[n] = drafts[n] /\ left'[n] = left[n]
      /\ left'[k] = NoDrawer /\ drafts'[k] = drafts[k]
      /\ d \in DrawerRecord \cup {NoDrawer} /\ k \notin sent'
  BY <1>1, <1>2, <1>3 DEF DraftTypes
<1> QED  BY <1>1, <1>2, <1>3, <1>4, DrawerStepInv

(* What an idle drawer is, and who else is at work on its draft.           *)
LEMMA IdleFacts ==
    ASSUME ComposeInv, NEW t \in Tab, Idle(t)
    PROVE  LET d == drawer[t]
           IN /\ DraftTypes /\ SendsInv /\ RepliesInv /\ d # NoDrawer /\ ~d.sending
              /\ d \in DrawerRecord /\ d.key \in Key /\ d.fields \in Fields /\ DrawerFits(d)
              /\ ReplyFits(d.key, d.fields)
              /\ drafts[d.key] \in Fields \cup {NoDraft}
              /\ drafts[d.key] # NoDraft => ReplyFits(d.key, drafts[d.key])
              /\ left[d.key] \in DrawerRecord \cup {NoDrawer}
              /\ left[d.key] # NoDrawer => left[d.key].key = d.key
              /\ d.key \notin shared => left[d.key] = NoDrawer /\ d.key \notin sent
              /\ d.key \notin shared /\ ~d.armed => KeptAs(d, drafts[d.key])
<1>1. DraftTypes /\ SendsInv /\ RepliesInv /\ LeftInv /\ WorkInv /\ ShownIsStored
      /\ drawer[t] # NoDrawer /\ ~drawer[t].sending
  BY DEF ComposeInv, Idle
<1>2. /\ drawer[t] \in DrawerRecord /\ drawer[t].key \in Key /\ drawer[t].fields \in Fields
      /\ DrawerFits(drawer[t])
      /\ drawer[t].key \notin shared => left[drawer[t].key] = NoDrawer /\ drawer[t].key \notin sent
  BY <1>1, DrawerFacts, SoleDrawer DEF RepliesInv
<1>3. drawer[t].key \notin shared /\ ~drawer[t].armed => KeptAs(drawer[t], drafts[drawer[t].key])
  BY <1>1 DEF ShownIsStored, Idle, IsKept, KeptAs
<1>4. /\ drafts[drawer[t].key] \in Fields \cup {NoDraft}
      /\ left[drawer[t].key] \in DrawerRecord \cup {NoDrawer}
  BY <1>1, <1>2 DEF DraftTypes
<1>5. /\ drafts[drawer[t].key] # NoDraft => ReplyFits(drawer[t].key, drafts[drawer[t].key])
      /\ left[drawer[t].key] # NoDrawer => left[drawer[t].key].key = drawer[t].key
      /\ ReplyFits(drawer[t].key, drawer[t].fields)
  BY <1>1, <1>2 DEF RepliesInv, LeftInv, DrawerFits
<1> QED  BY <1>1, <1>2, <1>3, <1>4, <1>5

(* A step in an idle drawer that leaves what is kept as it is.             *)
LEMMA DrawerOnlyInv ==
    ASSUME ComposeInv, NEW t \in Tab, Idle(t), NEW d \in DrawerRecord,
           drawer' = [drawer EXCEPT ![t] = d], UNCHANGED <<sessionVars, drafts, sends, ends>>,
           d.key = drawer[t].key, ~d.sending, DrawerFits(d),
           d.armed \/ (d.fields = drawer[t].fields /\ d.mode = drawer[t].mode
                         /\ d.initial = drawer[t].initial /\ ~drawer[t].armed),
           shared' = shared \cup {n \in Key : Crowded(n)'}
    PROVE  ComposeInv'
<1> DEFINE k == drawer[t].key
<1>1. /\ k \in Key /\ drawer[t] # NoDrawer /\ ~drawer[t].sending
      /\ drafts[k] # NoDraft => ReplyFits(k, drafts[k])
      /\ left[k] # NoDrawer => left[k].key = k
      /\ k \notin shared => left[k] = NoDrawer /\ k \notin sent
      /\ k \notin shared /\ ~drawer[t].armed => KeptAs(drawer[t], drafts[k])
      /\ DraftTypes
  BY IdleFacts
<1>2. k \notin shared /\ ~d.armed => KeptAs(d, drafts[k])
  BY <1>1 DEF KeptAs, OnlyItsRestoredSubject
<1>3. /\ drafts' = drafts /\ left' = left /\ sent' = sent /\ UNCHANGED <<sessionVars, sends>>
      /\ drafts \in [Key -> Fields \cup {NoDraft}] /\ left \in [Key -> DrawerRecord \cup {NoDrawer}]
      /\ d \in DrawerRecord \cup {NoDrawer}
  BY <1>1 DEF ends, DraftTypes
<1> QED  BY <1>1, <1>2, <1>3, DrawerStepInv

LEMMA EditInv ==
    ASSUME ComposeInv, NEW t \in Tab, Edit(t) \/ SubmitInvalid(t) \/ CooldownEnds(t),
           shared' = shared \cup {n \in Key : Crowded(n)'}
    PROVE  ComposeInv'
<1> DEFINE d == drawer[t]
<1>1. Idle(t) /\ UNCHANGED <<sessionVars, drafts, sends, ends>>
  BY DEF Edit, SubmitInvalid, CooldownEnds
<1>2. /\ d \in DrawerRecord /\ DrawerFits(d) /\ ~d.sending
      /\ drawer \in [Tab -> DrawerRecord \cup {NoDrawer}]
  BY <1>1, IdleFacts DEF DraftTypes
<1>3. CASE Edit(t)
  <2>1. PICK f \in Written : /\ d.key \in Replies => f.to = d.fields.to
                             /\ drawer' = [drawer EXCEPT ![t].fields = f, ![t].armed = TRUE]
    BY <1>3 DEF Edit
  <2> DEFINE e == [d EXCEPT !.fields = f, !.armed = TRUE]
  <2>2. f \in Fields
    BY WrittenAssumption
  <2>3. /\ e \in DrawerRecord /\ e.key = d.key /\ e.mode = d.mode /\ e.initial = d.initial
        /\ e.fields = f /\ e.armed /\ ~e.sending
    BY <1>2, <2>2 DEF DrawerRecord
  <2> HIDE DEF e
  <2>4. DrawerFits(e)
    BY <1>2, <2>1, <2>3 DEF DrawerFits, ReplyFits
  <2>5. drawer' = [drawer EXCEPT ![t] = e]
    BY <1>2, <2>1 DEF e
  <2> QED  BY <1>1, <2>3, <2>4, <2>5, DrawerOnlyInv
<1>4. CASE SubmitInvalid(t)
  <2> DEFINE e == [d EXCEPT !.armed = TRUE]
  <2>1. /\ e \in DrawerRecord /\ e.key = d.key /\ e.mode = d.mode /\ e.initial = d.initial
        /\ e.fields = d.fields /\ e.armed /\ ~e.sending
    BY <1>2 DEF DrawerRecord
  <2>2. drawer' = [drawer EXCEPT ![t] = e]
    BY <1>2, <1>4 DEF SubmitInvalid
  <2> HIDE DEF e
  <2>3. DrawerFits(e)
    BY <1>2, <2>1 DEF DrawerFits
  <2> QED  BY <1>1, <2>1, <2>2, <2>3, DrawerOnlyInv
<1>5. CASE CooldownEnds(t)
  <2> DEFINE e == [d EXCEPT !.cooldown = FALSE]
  <2>1. /\ e \in DrawerRecord /\ e.key = d.key /\ e.mode = d.mode /\ e.initial = d.initial
        /\ e.fields = d.fields /\ e.armed = d.armed /\ ~e.sending /\ d.armed \in BOOLEAN
    BY <1>2 DEF DrawerRecord
  <2>2. drawer' = [drawer EXCEPT ![t] = e]
    BY <1>2, <1>5 DEF CooldownEnds
  <2> HIDE DEF e
  <2>3. DrawerFits(e)
    BY <1>2, <2>1 DEF DrawerFits
  <2> QED  BY <1>1, <2>1, <2>2, <2>3, DrawerOnlyInv
<1> QED  BY <1>3, <1>4, <1>5

(* An idle drawer's last state is what is kept of it, now or when it goes. *)
LEMMA PersistInv ==
    ASSUME ComposeInv, NEW t \in Tab, Autosave(t) \/ Close(t),
           shared' = shared \cup {n \in Key : Crowded(n)'}
    PROVE  ComposeInv'
<1> DEFINE d == drawer[t]
           k == d.key
           f == IF HasContent(d) THEN d.fields ELSE NoDraft
<1>1. /\ Idle(t) /\ UNCHANGED <<sessionVars, sends, sent>> /\ Persist(d)
  BY DEF Autosave, Close, ends
<1>2. /\ DraftTypes /\ d \in DrawerRecord /\ DrawerFits(d) /\ d # NoDrawer /\ ~d.sending /\ k \in Key
      /\ d.fields \in Fields /\ ReplyFits(k, d.fields)
      /\ left[k] # NoDrawer => left[k].key = k
      /\ k \notin shared => left[k] = NoDrawer /\ k \notin sent
  BY <1>1, IdleFacts
<1>3. KeptAs(d, f)
  BY <1>2, PersistKeeps
<1>4. /\ drafts' \in [Key -> Fields \cup {NoDraft}] /\ drafts'[k] = f
      /\ \A n \in Key \ {k} : drafts'[n] = drafts[n]
  BY <1>1, <1>2 DEF Persist, DraftTypes
<1>5. f # NoDraft => ReplyFits(k, f)
  BY <1>2
<1> HIDE DEF f
<1>6. /\ drawer \in [Tab -> DrawerRecord \cup {NoDrawer}]
      /\ left \in [Key -> DrawerRecord \cup {NoDrawer}]
  BY <1>2 DEF DraftTypes
<1>7. CASE Autosave(t)
  <2> DEFINE e == [d EXCEPT !.armed = FALSE]
  <2>1. /\ e \in DrawerRecord /\ e.key = d.key /\ e.mode = d.mode /\ e.initial = d.initial
        /\ e.fields = d.fields /\ ~e.sending
    BY <1>2 DEF DrawerRecord
  <2>2. drawer' = [drawer EXCEPT ![t] = e] /\ left' = left
    BY <1>6, <1>7 DEF Autosave, ends
  <2> HIDE DEF e
  <2>3. DrawerFits(e) /\ KeptAs(e, f)
    BY <1>2, <1>3, <2>1 DEF DrawerFits, KeptAs, OnlyItsRestoredSubject
  <2> QED  BY <1>1, <1>2, <1>4, <1>5, <1>6, <2>1, <2>2, <2>3, DrawerStepInv
<1>8. CASE Close(t)
  <2> DEFINE l == Left(d)
  <2>1. drawer' = [drawer EXCEPT ![t] = NoDrawer] /\ left' = [left EXCEPT ![k] = l]
    BY <1>8 DEF Close
  <2>2. l \in DrawerRecord /\ l.key = k /\ KeptAs(l, f)
    BY <1>2, <1>3, LeftFacts DEF KeptAs, OnlyItsRestoredSubject
  <2> HIDE DEF l
  <2>3. /\ left' \in [Key -> DrawerRecord \cup {NoDrawer}] /\ left'[k] = l
        /\ \A n \in Key \ {k} : left'[n] = left[n]
    BY <1>2, <1>6, <2>1, <2>2
  <2> QED  BY <1>1, <1>2, <1>4, <1>5, <2>1, <2>2, <2>3, DrawerStepInv
<1> QED  BY <1>7, <1>8

LEMMA DiscardDraftInv ==
    ASSUME ComposeInv, NEW t \in Tab, DiscardDraft(t),
           shared' = shared \cup {n \in Key : Crowded(n)'}
    PROVE  ComposeInv'
<1> DEFINE k == drawer[t].key
           d == Started(k, "base", BaseFields(k))
<1>1. /\ Idle(t) /\ UNCHANGED <<sessionVars, sends>> /\ sent' = sent /\ left' = left
      /\ drafts' = [drafts EXCEPT ![k] = NoDraft] /\ drawer' = [drawer EXCEPT ![t] = d]
  BY DEF DiscardDraft, ends
<1>2. /\ DraftTypes /\ drawer[t] # NoDrawer /\ ~drawer[t].sending /\ k \in Key
      /\ left[k] # NoDrawer => left[k].key = k
      /\ k \notin shared => left[k] = NoDrawer /\ k \notin sent
  BY <1>1, IdleFacts
<1>3. d \in DrawerRecord /\ d.key = k /\ ~d.sending /\ d.armed /\ DrawerFits(d)
  BY <1>2, BaseFits, StartedFacts DEF DrawerFits
<1> HIDE DEF d
<1>4. /\ drafts' \in [Key -> Fields \cup {NoDraft}] /\ left' \in [Key -> DrawerRecord \cup {NoDrawer}]
      /\ drafts'[k] = NoDraft /\ \A n \in Key \ {k} : drafts'[n] = drafts[n] /\ left'[n] = left[n]
  BY <1>1, <1>2 DEF DraftTypes
<1> QED  BY <1>1, <1>2, <1>3, <1>4, DrawerStepInv


-----------------------------------------------------------------------------
(* Sends                                                                   *)

LEMMA SubmitInv ==
    ASSUME ComposeInv, NEW t \in Tab, Submit(t),
           shared' = shared \cup {n \in Key : Crowded(n)'}
    PROVE  ComposeInv'
<1> DEFINE d == drawer[t]
           s == [key |-> d.key, fields |-> d.fields,
                 token |-> IF tab[t].mock THEN NoToken ELSE tab[t].token, here |-> TRUE]
           e == [d EXCEPT !.sending = TRUE, !.armed = FALSE]
<1>1. /\ Idle(t) /\ UNCHANGED sessionVars /\ drafts' = drafts /\ left' = left /\ sent' = sent
      /\ sends' = [sends EXCEPT ![t] = @ \cup {s}]
      /\ drawer' = [drawer EXCEPT ![t].sending = TRUE, ![t].armed = FALSE]
  BY DEF Submit, ends
<1>2. /\ DraftTypes /\ SendsInv /\ RepliesInv /\ d \in DrawerRecord /\ DrawerFits(d) /\ d # NoDrawer
      /\ ~d.sending /\ d.key \in Key /\ d.fields \in Fields /\ ReplyFits(d.key, d.fields)
  BY <1>1, IdleFacts
<1>3. /\ SessionInv' /\ issued' = issued /\ issued \in Nat /\ tab[t].token \in Nat
      /\ tab[t].token <= issued /\ LeftInv
  BY <1>1, SessionStays, TabFacts DEF ComposeInv
<1>4. s \in SendRecord /\ s.here /\ s.key = d.key /\ s.fields = d.fields /\ s.token <= issued
  BY <1>2, <1>3 DEF SendRecord, NoToken
<1>5. /\ e \in DrawerRecord /\ e # NoDrawer /\ e.key = d.key /\ e.fields = d.fields /\ e.mode = d.mode
      /\ e.initial = d.initial /\ e.sending
  <2>1. e \in DrawerRecord
    BY <1>2 DEF DrawerRecord
  <2> QED  BY <1>2, <2>1, NothingAssumption DEF DrawerRecord
<1>6. drawer' = [drawer EXCEPT ![t] = e]
  BY <1>1, <1>2 DEF DraftTypes
<1> HIDE DEF s, e
<1>7. /\ drawer'[t] = e /\ \A u \in Tab \ {t} : drawer'[u] = drawer[u]
      /\ sends'[t] = sends[t] \cup {s} /\ \A u \in Tab \ {t} : sends'[u] = sends[u]
  BY <1>1, <1>2, <1>6 DEF DraftTypes
<1>8. DraftTypes'
  <2>1. drawer' \in [Tab -> DrawerRecord \cup {NoDrawer}]
    BY <1>2, <1>5, <1>6 DEF DraftTypes
  <2>2. sends' \in [Tab -> SUBSET SendRecord]
    BY <1>1, <1>2, <1>4 DEF DraftTypes
  <2>3. shared' \subseteq Key
    BY <1>2 DEF DraftTypes
  <2> QED  BY <1>1, <1>2, <2>1, <2>2, <2>3 DEF DraftTypes
<1>9. SendsInv'
  <2>1. \A r \in sends[t] : ~r.here
    BY <1>2 DEF SendsInv, SendsFit
  <2>2. SendsFit(e, sends[t] \cup {s})
    BY <1>4, <1>5, <2>1 DEF SendsFit
  <2>3. \A u \in Tab : SendsFit(drawer'[u], sends'[u])
    BY <1>2, <1>7, <2>2 DEF SendsInv
  <2>4. \A u \in Tab : \A r \in sends'[u] : r.token <= issued'
    BY <1>2, <1>3, <1>4, <1>7 DEF SendsInv
  <2> QED  BY <2>3, <2>4 DEF SendsInv, SendsFit
<1>10. RepliesInv'
  <2>1. DrawerFits(e) /\ ReplyFits(s.key, s.fields)
    BY <1>2, <1>4, <1>5 DEF DrawerFits
  <2>2. \A u \in Tab : drawer'[u] # NoDrawer => DrawerFits(drawer'[u])
    BY <1>2, <1>7, <2>1 DEF RepliesInv
  <2>3. \A u \in Tab : \A r \in sends'[u] : ReplyFits(r.key, r.fields)
    BY <1>2, <1>7, <2>1 DEF RepliesInv
  <2> QED  BY <1>1, <1>2, <2>2, <2>3 DEF RepliesInv, DrawerFits, ReplyFits
<1>11. LeftInv'
  BY <1>1, <1>3 DEF LeftInv
<1>12. ASSUME NEW n \in Key, Works(t, n)' PROVE Works(t, n)
  <2>1. t \in Drawing(n)' => t \in Drawing(n)
    BY <1>2, <1>5, <1>7 DEF Drawing
  <2>2. Adrift(t, n)' = Adrift(t, n)
    BY <1>4, <1>7 DEF Adrift
  <2> QED  BY <1>12, <2>1, <2>2 DEF Works
<1>13. {} \in SUBSET Key
  OBVIOUS
<1> QED  BY <1>1, <1>3, <1>5, <1>7, <1>8, <1>9, <1>10, <1>11, <1>12, <1>13, StepInv

(* What becomes of a draft when a send of it, from a shell that stays, has *)
(* its answer: what was sent is the draft, or there is none any more.      *)
LEMMA AnswerInv ==
    ASSUME ComposeInv, NEW t \in Tab, NEW s \in sends[t], NEW d \in DrawerRecord \cup {NoDrawer},
           UNCHANGED sessionVars, sends' = [sends EXCEPT ![t] = @ \ {s}],
           drawer' = [drawer EXCEPT ![t] = d],
           ~s.here => d = drawer[t],
           s.here /\ d # NoDrawer => d.key = s.key /\ ~d.sending /\ d.armed /\ DrawerFits(d),
           drafts' \in [Key -> Fields \cup {NoDraft}], drafts'[s.key] \in {s.fields, NoDraft},
           left' \in [Key -> DrawerRecord \cup {NoDrawer}],
           \A n \in Key \ {s.key} : drafts'[n] = drafts[n] /\ left'[n] = left[n],
           left'[s.key] \in {left[s.key], NoDrawer},
           \/ sent' = sent
           \/ sent' = sent \cup {s.key} /\ drafts'[s.key] = NoDraft /\ (s.here => d = NoDrawer),
           shared' = shared \cup {n \in Key : Crowded(n)'}
    PROVE  ComposeInv'
<1> DEFINE k == s.key
<1>1. /\ DraftTypes /\ SendsInv /\ RepliesInv /\ LeftInv /\ WorkInv /\ ShownIsStored
      /\ SessionInv' /\ issued' = issued
  BY SessionStays DEF ComposeInv
<1>2. /\ s \in SendRecord /\ k \in Key /\ s.fields \in Fields /\ s.here \in BOOLEAN
      /\ ReplyFits(k, s.fields) /\ SendsFit(drawer[t], sends[t])
  BY <1>1, SendFacts DEF RepliesInv, SendsInv
<1>3. /\ drawer'[t] = d /\ \A u \in Tab \ {t} : drawer'[u] = drawer[u]
      /\ sends'[t] = sends[t] \ {s} /\ \A u \in Tab \ {t} : sends'[u] = sends[u]
  BY <1>1 DEF DraftTypes
<1>4. k \notin shared =>
        /\ \A r \in sends[t] : r.key = k => r = s
        /\ ~s.here => t \notin Drawing(k)
        /\ Works(t, k) /\ left[k] = NoDrawer /\ k \notin sent
  BY <1>1, SoleWriter
<1> HIDE DEF k
<1>5. DraftTypes'
  <2>1. sends' \in [Tab -> SUBSET SendRecord]
    BY <1>1 DEF DraftTypes
  <2>2. drawer' \in [Tab -> DrawerRecord \cup {NoDrawer}]
    BY <1>1 DEF DraftTypes
  <2>3. shared' \subseteq Key /\ sent' \subseteq Key
    BY <1>1, <1>2 DEF DraftTypes, k
  <2> QED  BY <2>1, <2>2, <2>3 DEF DraftTypes
<1>6. SendsInv'
  <2>1. SendsFit(d, sends[t] \ {s})
    <3>1. CASE s.here
      <4>1. \A r \in sends[t] \ {s} : ~r.here
        BY <1>2, <3>1 DEF SendsFit
      <4> QED  BY <3>1, <4>1 DEF SendsFit
    <3>2. CASE ~s.here
      <4>1. d = drawer[t]
        BY <3>2
      <4> QED  BY <1>2, <3>2, <4>1 DEF SendsFit
    <3> QED  BY <3>1, <3>2
  <2>2. \A u \in Tab : SendsFit(drawer'[u], sends'[u])
    BY <1>1, <1>3, <2>1 DEF SendsInv
  <2>3. \A u \in Tab : \A r \in sends'[u] : r.token <= issued'
    BY <1>1, <1>3 DEF SendsInv
  <2> QED  BY <2>2, <2>3 DEF SendsInv, SendsFit
<1>7. RepliesInv'
  <2>1. d # NoDrawer => DrawerFits(d)
    BY <1>1, <1>2 DEF RepliesInv
  <2>2. \A u \in Tab : drawer'[u] # NoDrawer => DrawerFits(drawer'[u])
    BY <1>1, <1>3, <2>1 DEF RepliesInv
  <2>3. \A u \in Tab : \A r \in sends'[u] : ReplyFits(r.key, r.fields)
    BY <1>1, <1>3 DEF RepliesInv
  <2>4. \A n \in Key : drafts'[n] # NoDraft => ReplyFits(n, drafts'[n])
    BY <1>1, <1>2 DEF RepliesInv, k
  <2> QED  BY <2>2, <2>3, <2>4 DEF RepliesInv, DrawerFits, ReplyFits
<1>8. LeftInv'
  BY <1>1, <1>2 DEF LeftInv, k
<1>9. ASSUME NEW n \in Key \ {k}, Works(t, n)' PROVE Works(t, n)
  <2>1. t \in Drawing(n)' => t \in Drawing(n)
    BY <1>2, <1>3, <1>9 DEF Drawing, k
  <2>2. Adrift(t, n)' \subseteq Adrift(t, n)
    BY <1>3 DEF Adrift
  <2> QED  BY <1>9, <2>1, <2>2 DEF Works
<1>10. ASSUME k \notin shared, k \in sent' PROVE ~Works(t, k)'
  <2>1. drafts'[k] = NoDraft /\ (s.here => d = NoDrawer)
    BY <1>4, <1>10 DEF k
  <2>2. t \notin Drawing(k)'
    BY <1>2, <1>3, <1>4, <1>10, <2>1 DEF Drawing
  <2>3. Adrift(t, k)' = {}
    BY <1>3, <1>4, <1>10 DEF Adrift
  <2> QED  BY <2>2, <2>3 DEF Works
<1>11. \A n \in {k} \ shared :
          /\ drafts'[n] # drafts[n] => Works(t, n)
          /\ left'[n] # NoDrawer \/ n \in sent' => Works(t, n) /\ ~Works(t, n)'
          /\ left'[n] # NoDrawer => KeptAs(left'[n], drafts'[n])
          /\ n \in sent' => drafts'[n] = NoDraft
  <2>1. k \notin shared => left'[k] = NoDrawer
    BY <1>4 DEF k
  <2>2. k \notin shared /\ k \in sent' => drafts'[k] = NoDraft
    BY <1>4 DEF k
  <2> QED  BY <1>4, <1>10, <2>1, <2>2
<1>12. \A n \in Key \ {k} : /\ drafts'[n] = drafts[n] /\ left'[n] = left[n]
                            /\ n \in sent' <=> n \in sent
                            /\ Works(t, n)' => Works(t, n)
  BY <1>9 DEF k
<1>13. ASSUME d # NoDrawer, ~d.sending, ~d.armed, d.key \notin shared
       PROVE  KeptAs(d, drafts'[d.key])
  <2>1. ~s.here /\ d = drawer[t]
    BY <1>2, <1>13
  <2>2. KeptAs(d, drafts[d.key]) /\ d.key \in Key /\ t \in Drawing(d.key)
    BY <1>1, <1>13, <2>1, DrawerFacts DEF ShownIsStored, Idle, IsKept, KeptAs
  <2>3. d.key # k
    BY <1>4, <1>13, <2>1, <2>2
  <2> QED  BY <1>12, <2>2, <2>3
<1>14. {k} \in SUBSET Key
  BY <1>2
<1>15. \A u \in Tab \ {t} : drawer'[u] = drawer[u] /\ sends'[u] = sends[u]
  BY <1>3
<1>16. drawer'[t] # NoDrawer /\ ~drawer'[t].sending /\ ~drawer'[t].armed /\ drawer'[t].key \notin shared
         => KeptAs(drawer'[t], drafts'[drawer'[t].key])
  BY <1>3, <1>13
<1>17. SessionInv'
  BY <1>1
<1> QED  BY <1>5, <1>6, <1>7, <1>8, <1>11, <1>12, <1>14, <1>15, <1>16, <1>17, StepInv


LEMMA SendAcceptedInv ==
    ASSUME ComposeInv, NEW t \in Tab, NEW s \in sends[t], SendAccepted(t, s),
           shared' = shared \cup {n \in Key : Crowded(n)'}
    PROVE  ComposeInv'
<1> DEFINE d == IF s.here THEN NoDrawer ELSE drawer[t]
<1>1. DraftTypes /\ s.key \in Key /\ d \in DrawerRecord \cup {NoDrawer}
  BY SendFacts DEF ComposeInv, DraftTypes
<1>2. /\ UNCHANGED sessionVars /\ sends' = [sends EXCEPT ![t] = @ \ {s}]
      /\ drawer' = [drawer EXCEPT ![t] = d] /\ sent' = sent \cup {s.key}
      /\ drafts' = [drafts EXCEPT ![s.key] = NoDraft] /\ left' = [left EXCEPT ![s.key] = NoDrawer]
  BY DEF SendAccepted
<1>3. (s.here => d = NoDrawer) /\ (~s.here => d = drawer[t])
  OBVIOUS
<1> HIDE DEF d
<1>4. /\ drafts' \in [Key -> Fields \cup {NoDraft}] /\ left' \in [Key -> DrawerRecord \cup {NoDrawer}]
      /\ drafts'[s.key] = NoDraft /\ left'[s.key] = NoDrawer
      /\ \A n \in Key \ {s.key} : drafts'[n] = drafts[n] /\ left'[n] = left[n]
  BY <1>1, <1>2 DEF DraftTypes
<1>5. UNCHANGED sessionVars /\ sends' = [sends EXCEPT ![t] = @ \ {s}]
      /\ drawer' = [drawer EXCEPT ![t] = d] /\ sent' = sent \cup {s.key}
  BY <1>2
<1> QED  BY <1>1, <1>3, <1>4, <1>5, AnswerInv

LEMMA SendFailsInv ==
    ASSUME ComposeInv, NEW t \in Tab, NEW s \in sends[t], SendFails(t, s),
           shared' = shared \cup {n \in Key : Crowded(n)'}
    PROVE  ComposeInv'
<1>1. /\ DraftTypes /\ s.key \in Key /\ s.fields \in Fields /\ SendsFit(drawer[t], sends[t])
      /\ RepliesInv
  BY SendFacts DEF ComposeInv, SendsInv
<1>2. PICK limited \in BOOLEAN :
        drawer' = [drawer EXCEPT ![t] = IF s.here THEN Resumed(drawer[t], limited) ELSE drawer[t]]
  BY <1>1 DEF SendFails, DraftTypes
<1> DEFINE e == Resumed(drawer[t], limited)
           d == IF s.here THEN e ELSE drawer[t]
<1>3. s.here => /\ e \in DrawerRecord /\ e.key = s.key /\ ~e.sending /\ e.armed /\ DrawerFits(e)
  <2>1. s.here => drawer[t] \in DrawerRecord /\ DrawerFits(drawer[t]) /\ drawer[t].key = s.key
    BY <1>1 DEF SendsFit, DraftTypes, RepliesInv
  <2>2. s.here => /\ e \in DrawerRecord /\ e.key = drawer[t].key /\ ~e.sending /\ e.armed
                  /\ e.fields = drawer[t].fields /\ e.mode = drawer[t].mode
                  /\ e.initial = drawer[t].initial
    BY <2>1 DEF DrawerRecord, Resumed
  <2> HIDE DEF e
  <2> QED  BY <2>1, <2>2 DEF DrawerFits
<1>4. d \in DrawerRecord \cup {NoDrawer} /\ (~s.here => d = drawer[t]) /\ (s.here => d = e)
  BY <1>1, <1>3 DEF DraftTypes
<1>5. drawer' = [drawer EXCEPT ![t] = d]
  BY <1>1, <1>2 DEF DraftTypes
<1> HIDE DEF d, e
<1>6. /\ UNCHANGED sessionVars /\ sends' = [sends EXCEPT ![t] = @ \ {s}] /\ sent' = sent /\ left' = left
      /\ drafts' = [drafts EXCEPT ![s.key] = s.fields]
  BY DEF SendFails, ends
<1>7. /\ drafts' \in [Key -> Fields \cup {NoDraft}] /\ left' \in [Key -> DrawerRecord \cup {NoDrawer}]
      /\ drafts'[s.key] = s.fields
      /\ \A n \in Key \ {s.key} : drafts'[n] = drafts[n] /\ left'[n] = left[n]
  BY <1>1, <1>6 DEF DraftTypes
<1>8. s.here /\ d # NoDrawer => d.key = s.key /\ ~d.sending /\ d.armed /\ DrawerFits(d)
  BY <1>3, <1>4
<1>9. left'[s.key] \in {left[s.key], NoDrawer}
  BY <1>6
<1>10. UNCHANGED sessionVars /\ sends' = [sends EXCEPT ![t] = @ \ {s}] /\ sent' = sent
  BY <1>6
<1> QED  BY <1>4, <1>5, <1>7, <1>8, <1>9, <1>10, AnswerInv

(* A tab's drawer goes, with or without its requests.                      *)
LEMMA GoneFacts ==
    ASSUME ComposeInv, NEW t \in Tab, issued' \in Nat, issued <= issued',
           drawer' = [drawer EXCEPT ![t] = NoDrawer], sends' \in [Tab -> SUBSET SendRecord],
           \A u \in Tab \ {t} : sends'[u] = sends[u],
           \A r \in sends'[t] : \E s \in sends[t] : r = [s EXCEPT !.here = FALSE]
    PROVE  /\ drawer' \in [Tab -> DrawerRecord \cup {NoDrawer}] /\ SendsInv'
           /\ \A u \in Tab : drawer'[u] # NoDrawer => DrawerFits(drawer'[u])
           /\ \A u \in Tab : \A r \in sends'[u] : ReplyFits(r.key, r.fields)
           /\ \A n \in Key : Works(t, n)' => Works(t, n)
           /\ drawer'[t] = NoDrawer /\ \A u \in Tab \ {t} : drawer'[u] = drawer[u]
<1>1. DraftTypes /\ SendsInv /\ RepliesInv /\ SendsFit(drawer[t], sends[t]) /\ issued \in Nat
  BY DEF ComposeInv, SendsInv, SessionInv, SessionTypes
<1>2. /\ drawer' \in [Tab -> DrawerRecord \cup {NoDrawer}]
      /\ drawer'[t] = NoDrawer /\ \A u \in Tab \ {t} : drawer'[u] = drawer[u]
  BY <1>1 DEF DraftTypes
<1>3. \A r \in sends'[t] : \E s \in sends[t] :
         /\ ~r.here /\ r.key = s.key /\ r.fields = s.fields /\ r.token = s.token
         /\ s \in SendRecord
  <2>1. \A s \in SendRecord : LET r == [s EXCEPT !.here = FALSE]
                              IN ~r.here /\ r.key = s.key /\ r.fields = s.fields /\ r.token = s.token
    BY DEF SendRecord
  <2>2. sends[t] \subseteq SendRecord
    BY <1>1 DEF DraftTypes
  <2> TAKE r \in sends'[t]
  <2>3. PICK s \in sends[t] : r = [s EXCEPT !.here = FALSE]
    OBVIOUS
  <2> QED  BY <2>1, <2>2, <2>3
<1>4. SendsInv'
  <2>1. SendsFit(NoDrawer, sends'[t])
    BY <1>3 DEF SendsFit
  <2>2. \A u \in Tab : SendsFit(drawer'[u], sends'[u])
    BY <1>1, <1>2, <2>1 DEF SendsInv
  <2>3. \A n \in Nat : n <= issued => n <= issued'
    BY <1>1
  <2>4. \A u \in Tab : \A r \in sends[u] : r.token \in Nat /\ r.token <= issued
    BY <1>1, SendFacts DEF SendsInv
  <2>5. \A u \in Tab : \A r \in sends'[u] : r.token <= issued'
    BY <1>3, <2>3, <2>4
  <2> QED  BY <2>2, <2>5 DEF SendsInv, SendsFit
<1>5. \A u \in Tab : drawer'[u] # NoDrawer => DrawerFits(drawer'[u])
  BY <1>1, <1>2 DEF RepliesInv
<1>6. \A u \in Tab : \A r \in sends'[u] : ReplyFits(r.key, r.fields)
  BY <1>1, <1>3 DEF RepliesInv
<1>7. ASSUME NEW n \in Key, Works(t, n)' PROVE Works(t, n)
  <2>1. Adrift(t, n)' # {}
    BY <1>2, <1>7 DEF Works, Drawing
  <2>2. PICK s \in sends[t] : s.key = n /\ s.here \in BOOLEAN
    BY <1>3, <2>1 DEF Adrift, SendRecord
  <2>3. s.here => t \in Drawing(n)
    BY <1>1, <2>2 DEF SendsFit, Drawing
  <2>4. ~s.here => s \in Adrift(t, n)
    BY <2>2 DEF Adrift
  <2> QED  BY <2>2, <2>3, <2>4 DEF Works
<1> QED  BY <1>2, <1>4, <1>5, <1>6, <1>7

LEMMA DepartedFacts ==
    ASSUME DraftTypes, NEW t \in Tab
    PROVE  /\ Departed(t) \in [Tab -> SUBSET SendRecord]
           /\ \A u \in Tab \ {t} : Departed(t)[u] = sends[u]
           /\ Departed(t)[t] = {[s EXCEPT !.here = FALSE] : s \in sends[t]}
<1>1. \A s \in SendRecord : [s EXCEPT !.here = FALSE] \in SendRecord
  BY DEF SendRecord
<1>2. {[s EXCEPT !.here = FALSE] : s \in sends[t]} \in SUBSET SendRecord
  BY <1>1 DEF DraftTypes
<1> QED  BY <1>2 DEF DraftTypes, Departed


(* AUTH_FAILED: what was sent is the draft, and the drawer it leaves.      *)
LEMMA SendRefusedInv ==
    ASSUME ComposeInv, NEW t \in Tab, NEW s \in sends[t], SendRefused(t, s),
           shared' = shared \cup {n \in Key : Crowded(n)'}
    PROVE  ComposeInv'
<1> DEFINE k == s.key
           l == Left(Started(k, "base", s.fields))
           gone == [s EXCEPT !.here = FALSE]
<1>1. /\ DraftTypes /\ RepliesInv /\ LeftInv /\ SessionInv /\ SendsInv /\ WorkInv
      /\ s \in SendRecord /\ k \in Key /\ s.fields \in Fields /\ s.token \in Nat /\ s.token <= issued
      /\ ReplyFits(k, s.fields) /\ issued \in Nat
  BY SendFacts DEF ComposeInv, RepliesInv, SendsInv, SessionInv, SessionTypes
<1>0. issued' = issued
  BY DEF SendRefused, Expire
<1>2. /\ asked' = asked /\ issued' = issued /\ Expire(t, s.token) /\ sent' = sent
      /\ drawer' = [drawer EXCEPT ![t] = NoDrawer]
      /\ sends' = [Departed(t) EXCEPT ![t] = @ \ {gone}]
      /\ drafts' = [drafts EXCEPT ![k] = s.fields] /\ left' = [left EXCEPT ![k] = l]
  BY <1>0 DEF SendRefused
<1>3. SessionInv'
  <2>1. /\ asked' \in [Tab -> [0..MaxTokens -> Nat]]
        /\ \A u \in Tab : \A j \in 0..MaxTokens : asked'[u][j] > 0 => asked[u][j] > 0
    BY <1>1, <1>2 DEF SessionInv, SessionTypes
  <2> QED  BY <1>1, <1>2, <2>1, ExpireInv
<1>4. l \in DrawerRecord /\ l.key = k /\ l.fields = s.fields
  BY <1>1, StartedFacts, LeftFacts
<1> HIDE DEF l, gone
<1>5. /\ sends' \in [Tab -> SUBSET SendRecord] /\ (\A u \in Tab \ {t} : sends'[u] = sends[u])
      /\ \A r \in sends'[t] : r # gone /\ \E q \in sends[t] : r = [q EXCEPT !.here = FALSE]
  <2>1. /\ Departed(t) \in [Tab -> SUBSET SendRecord]
        /\ \A u \in Tab \ {t} : Departed(t)[u] = sends[u]
        /\ Departed(t)[t] = {[q EXCEPT !.here = FALSE] : q \in sends[t]}
    BY <1>1, DepartedFacts
  <2>2. /\ sends' \in [Tab -> SUBSET SendRecord] /\ (\A u \in Tab \ {t} : sends'[u] = sends[u])
        /\ sends'[t] = Departed(t)[t] \ {gone}
    BY <1>2, <2>1
  <2> QED  BY <2>1, <2>2
<1>6. /\ drawer' \in [Tab -> DrawerRecord \cup {NoDrawer}] /\ SendsInv'
      /\ \A u \in Tab : drawer'[u] # NoDrawer => DrawerFits(drawer'[u])
      /\ \A u \in Tab : \A r \in sends'[u] : ReplyFits(r.key, r.fields)
      /\ \A n \in Key : Works(t, n)' => Works(t, n)
      /\ drawer'[t] = NoDrawer /\ \A u \in Tab \ {t} : drawer'[u] = drawer[u]
  <2>1. issued' \in Nat /\ issued <= issued'
    BY <1>1, <1>2
  <2>2. \A r \in sends'[t] : \E q \in sends[t] : r = [q EXCEPT !.here = FALSE]
    BY <1>5
  <2> QED  BY <1>2, <1>5, <2>1, <2>2, GoneFacts
<1>7. /\ drafts' \in [Key -> Fields \cup {NoDraft}] /\ left' \in [Key -> DrawerRecord \cup {NoDrawer}]
      /\ drafts'[k] = s.fields /\ left'[k] = l
      /\ \A n \in Key \ {k} : drafts'[n] = drafts[n] /\ left'[n] = left[n]
  BY <1>1, <1>2, <1>4 DEF DraftTypes
<1>8. DraftTypes'
  BY <1>1, <1>2, <1>5, <1>6, <1>7 DEF DraftTypes
<1>9. RepliesInv'
  <2>1. \A n \in Key : drafts'[n] # NoDraft => ReplyFits(n, drafts'[n])
    BY <1>1, <1>7 DEF RepliesInv
  <2> QED  BY <1>6, <2>1 DEF RepliesInv, DrawerFits, ReplyFits
<1>10. LeftInv'
  BY <1>1, <1>4, <1>7 DEF LeftInv
<1>11. k \notin shared => Works(t, k) /\ ~Works(t, k)' /\ k \notin sent'
  <2> SUFFICES ASSUME k \notin shared PROVE Works(t, k) /\ ~Works(t, k)' /\ k \notin sent'
    OBVIOUS
  <2>1. (\A r \in sends[t] : r.key = k => r = s) /\ Works(t, k) /\ k \notin sent
    BY <1>1, SoleWriter
  <2>2. ASSUME NEW r \in sends'[t], r.key = k PROVE FALSE
    <3>1. PICK q \in sends[t] : r = [q EXCEPT !.here = FALSE]
      BY <1>5
    <3>2. q \in SendRecord /\ q.key = k
      BY <1>1, <2>2, <3>1, SendFacts DEF SendRecord
    <3>3. r = gone
      BY <2>1, <3>1, <3>2 DEF gone
    <3> QED  BY <1>5, <3>3
  <2>3. t \notin Drawing(k)' /\ Adrift(t, k)' = {}
    BY <1>6, <2>2 DEF Drawing, Adrift
  <2> QED  BY <1>2, <2>1, <2>3 DEF Works
<1>12. KeptAs(left'[k], drafts'[k])
  BY <1>4, <1>7 DEF KeptAs
<1> HIDE DEF k
<1>13. \A n \in {k} \ shared :
          /\ drafts'[n] # drafts[n] => Works(t, n)
          /\ left'[n] # NoDrawer \/ n \in sent' => Works(t, n) /\ ~Works(t, n)'
          /\ left'[n] # NoDrawer => KeptAs(left'[n], drafts'[n])
          /\ n \in sent' => drafts'[n] = NoDraft
  BY <1>11, <1>12
<1>14. \A n \in Key \ {k} : /\ drafts'[n] = drafts[n] /\ left'[n] = left[n]
                            /\ n \in sent' <=> n \in sent
                            /\ Works(t, n)' => Works(t, n)
  BY <1>2, <1>6, <1>7
<1>15. \A u \in Tab \ {t} : drawer'[u] = drawer[u] /\ sends'[u] = sends[u]
  BY <1>5, <1>6
<1>16. {k} \in SUBSET Key
  BY <1>1
<1>17. drawer'[t] # NoDrawer /\ ~drawer'[t].sending /\ ~drawer'[t].armed /\ drawer'[t].key \notin shared
         => KeptAs(drawer'[t], drafts'[drawer'[t].key])
  BY <1>6
<1>18. SendsInv'
  BY <1>6
<1> QED  BY <1>3, <1>8, <1>9, <1>10, <1>13, <1>14, <1>15, <1>16, <1>17, <1>18, StepInv

(* The drawer goes without a last save.                                    *)
LEMMA GoesInv ==
    ASSUME ComposeInv, NEW t \in Tab, SessionInv', issued' \in Nat, issued <= issued',
           drawer' = [drawer EXCEPT ![t] = NoDrawer], UNCHANGED <<drafts, ends>>,
           sends' = Departed(t) \/ sends' = [sends EXCEPT ![t] = {}],
           shared' = shared \cup {n \in Key : Crowded(n)'}
    PROVE  ComposeInv'
<1>1. DraftTypes /\ RepliesInv /\ LeftInv
  BY DEF ComposeInv
<1>2. /\ sends' \in [Tab -> SUBSET SendRecord] /\ (\A u \in Tab \ {t} : sends'[u] = sends[u])
      /\ \A r \in sends'[t] : \E s \in sends[t] : r = [s EXCEPT !.here = FALSE]
  <2>1. CASE sends' = Departed(t)
    BY <1>1, <2>1, DepartedFacts
  <2>2. CASE sends' = [sends EXCEPT ![t] = {}]
    BY <1>1, <2>2 DEF DraftTypes
  <2> QED  BY <2>1, <2>2
<1>3. /\ drawer' \in [Tab -> DrawerRecord \cup {NoDrawer}] /\ SendsInv'
      /\ \A u \in Tab : drawer'[u] # NoDrawer => DrawerFits(drawer'[u])
      /\ \A u \in Tab : \A r \in sends'[u] : ReplyFits(r.key, r.fields)
      /\ \A n \in Key : Works(t, n)' => Works(t, n)
      /\ drawer'[t] = NoDrawer /\ \A u \in Tab \ {t} : drawer'[u] = drawer[u]
  BY <1>2, GoneFacts
<1>4. /\ drafts' = drafts /\ left' = left /\ sent' = sent
  BY DEF ends
<1>5. DraftTypes'
  BY <1>1, <1>2, <1>3, <1>4 DEF DraftTypes
<1>6. RepliesInv'
  BY <1>1, <1>3, <1>4 DEF RepliesInv, DrawerFits, ReplyFits
<1>7. LeftInv'
  BY <1>1, <1>4 DEF LeftInv
<1>8. \A u \in Tab \ {t} : drawer'[u] = drawer[u] /\ sends'[u] = sends[u]
  BY <1>2, <1>3
<1>9. {} \in SUBSET Key
  OBVIOUS
<1> QED  BY <1>3, <1>4, <1>5, <1>6, <1>7, <1>8, <1>9, StepInv

(* Nothing changes of the drawers.                                         *)
LEMMA StaysInv ==
    ASSUME ComposeInv, SessionInv', issued' = issued, UNCHANGED <<drafts, drawer, sends, ends>>,
           shared' = shared \/ shared' = shared \cup {n \in Key : Crowded(n)'}
    PROVE  ComposeInv'
<1>1. /\ DraftTypes /\ SendsInv /\ RepliesInv /\ LeftInv /\ WorkInv
      /\ ShownIsStored /\ LeftIsKept /\ SentIsGone
      /\ drafts' = drafts /\ drawer' = drawer /\ sends' = sends /\ left' = left /\ sent' = sent
  BY DEF ComposeInv, ends
<1>2. \A n : Crowded(n)' = Crowded(n)
  BY <1>1 DEF Crowded, Drawing, Adrift
<1>3. shared' = shared
  BY <1>1, <1>2 DEF WorkInv
<1>4. DraftTypes' /\ SendsInv' /\ RepliesInv' /\ LeftInv'
  BY <1>1, <1>3 DEF DraftTypes, SendsInv, SendsFit, RepliesInv, DrawerFits, ReplyFits, LeftInv
<1>5. \A u, n : Works(u, n)' <=> Works(u, n)
  BY <1>1 DEF Works, Drawing, Adrift
<1>6. WorkInv'
  BY <1>1, <1>2, <1>3, <1>5 DEF WorkInv
<1>7. ShownIsStored' /\ LeftIsKept' /\ SentIsGone'
  BY <1>1, <1>3 DEF ShownIsStored, LeftIsKept, SentIsGone, Idle, IsKept, OnlyItsRestoredSubject
<1> QED  BY <1>4, <1>6, <1>7 DEF ComposeInv


-----------------------------------------------------------------------------
(* Every step, and the theorems                                            *)

LEMMA ComposeInitInv == ComposeInit => ComposeInv
<1> SUFFICES ASSUME ComposeInit PROVE ComposeInv
  OBVIOUS
<1> USE DEF ComposeInit
<1>1. SessionInv
  BY SessionInitInv
<1>2. DraftTypes
  BY DEF DraftTypes
<1>3. SendsInv /\ RepliesInv /\ LeftInv
  BY DEF SendsInv, SendsFit, RepliesInv, LeftInv
<1>4. \A t \in Tab, k \in Key : ~Works(t, k)
  BY DEF Works, Drawing, Adrift
<1>5. \A k \in Key : ~Crowded(k)
  BY DEF Crowded, Drawing, Adrift
<1>6. WorkInv /\ ShownIsStored /\ LeftIsKept /\ SentIsGone
  BY <1>4, <1>5 DEF WorkInv, ShownIsStored, Idle, LeftIsKept, SentIsGone
<1> QED  BY <1>1, <1>2, <1>3, <1>6 DEF ComposeInv

LEMMA DocumentGoesInv ==
    ASSUME ComposeInv, NEW t \in Tab, DocumentGoes(t),
           shared' = shared \cup {n \in Key : Crowded(n)'}
    PROVE  ComposeInv'
<1>1. SessionInv
  BY DEF ComposeInv
<1>2. issued \in Nat
  BY <1>1 DEF SessionInv, SessionTypes
<1>3. SessionInv' /\ issued' \in Nat /\ issued <= issued'
  <2>1. CASE Load(t)
    <3>1. issued' \in Nat /\ issued <= issued'
      BY <1>2, <2>1 DEF Load
    <3> QED  BY <1>1, <2>1, <3>1, LoadInv
  <2>2. CASE GoogleReturns(t)
    <3>1. issued' \in Nat /\ issued <= issued'
      BY <1>2, <2>2 DEF GoogleReturns
    <3> QED  BY <1>1, <2>2, <3>1, GoogleReturnsInv
  <2>3. CASE Closes(t)
    <3>1. issued' \in Nat /\ issued <= issued'
      BY <1>2, <2>3 DEF Closes
    <3> QED  BY <1>1, <2>3, <3>1, ClosesInv
  <2>4. CASE SignInWithGoogle(t)
    <3>1. issued' \in Nat /\ issued <= issued'
      BY <1>2, <2>4 DEF SignInWithGoogle
    <3> QED  BY <1>1, <2>4, <3>1, SignInWithGoogleInv
  <2> QED  BY <2>1, <2>2, <2>3, <2>4 DEF DocumentGoes
<1>4. /\ drawer' = [drawer EXCEPT ![t] = NoDrawer] /\ UNCHANGED <<drafts, ends>>
      /\ sends' = [sends EXCEPT ![t] = {}]
  BY DEF DocumentGoes
<1> QED  BY <1>3, <1>4, GoesInv

LEMMA ShellGoesInv ==
    ASSUME ComposeInv, NEW t \in Tab, ShellGoes(t),
           shared' = shared \cup {n \in Key : Crowded(n)'}
    PROVE  ComposeInv'
<1>1. SessionInv
  BY DEF ComposeInv
<1>2. issued \in Nat
  BY <1>1 DEF SessionInv, SessionTypes
<1>3. SessionInv' /\ issued' = issued
  <2>1. CASE Navigate(t)
    BY <1>1, <2>1, NavigateInv DEF Navigate
  <2>2. CASE SignOut(t)
    <3>1. issued' = issued
      BY <2>2 DEF SignOut
    <3> QED  BY <1>1, <2>2, <3>1, SignOutInv
  <2>3. CASE AuthFailed(t)
    <3>1. SessionInv'
      BY <1>1, <2>3, AskInv
    <3>2. issued' = issued
      BY <2>3 DEF AuthFailed, Expire
    <3> QED  BY <3>1, <3>2
  <2> QED  BY <2>1, <2>2, <2>3 DEF ShellGoes
<1>4. issued' \in Nat /\ issued <= issued'
  BY <1>2, <1>3
<1>5. /\ drawer' = [drawer EXCEPT ![t] = NoDrawer] /\ UNCHANGED <<drafts, ends>>
      /\ sends' = Departed(t)
  BY DEF ShellGoes
<1> QED  BY <1>3, <1>4, <1>5, GoesInv

LEMMA ShellStaysInv ==
    ASSUME ComposeInv, NEW t \in Tab, ShellStays(t),
           shared' = shared \cup {n \in Key : Crowded(n)'}
    PROVE  ComposeInv'
<1>1. SessionInv
  BY DEF ComposeInv
<1>2. SessionInv' /\ issued' = issued
  <2>1. CASE StartSample(t)
    BY <1>1, <2>1, StartSampleInv DEF StartSample
  <2>2. CASE Ask(t)
    BY <1>1, <2>2, AskInv DEF Ask
  <2>3. CASE Answered(t)
    BY <1>1, <2>3, AskInv DEF Answered
  <2> QED  BY <2>1, <2>2, <2>3 DEF ShellStays
<1>3. UNCHANGED <<drafts, drawer, sends, ends>>
  BY DEF ShellStays
<1> QED  BY <1>2, <1>3, StaysInv

LEMMA ComposeNextInv == ComposeInv /\ [ComposeNext]_allVars => ComposeInv'
<1> SUFFICES ASSUME ComposeInv, [ComposeNext]_allVars PROVE ComposeInv'
  OBVIOUS
<1>1. CASE UNCHANGED allVars
  <2>1. UNCHANGED sessionVars /\ UNCHANGED <<drafts, drawer, sends, ends>> /\ shared' = shared
    BY <1>1 DEF allVars, composeVars
  <2>2. SessionInv' /\ issued' = issued
    BY <2>1, SessionStays DEF ComposeInv
  <2> QED  BY <2>1, <2>2, StaysInv
<1>2. CASE ComposeNext
  <2>1. shared' = shared \cup {k \in Key : Crowded(k)'}
    BY <1>2 DEF ComposeNext
  <2>2. PICK t \in Tab :
          \/ \E k \in Key : OpenCompose(t, k)
          \/ Edit(t) \/ Autosave(t) \/ Close(t) \/ DiscardDraft(t)
          \/ Submit(t) \/ SubmitInvalid(t) \/ CooldownEnds(t)
          \/ \E s \in sends[t] : SendAccepted(t, s) \/ SendFails(t, s) \/ SendRefused(t, s)
          \/ DocumentGoes(t) \/ ShellGoes(t) \/ ShellStays(t)
    BY <1>2 DEF ComposeNext
  <2>3. CASE \E k \in Key : OpenCompose(t, k)
    BY <2>1, <2>3, OpenComposeInv
  <2>4. CASE Edit(t) \/ SubmitInvalid(t) \/ CooldownEnds(t)
    BY <2>1, <2>4, EditInv
  <2>5. CASE Autosave(t) \/ Close(t)
    BY <2>1, <2>5, PersistInv
  <2>6. CASE DiscardDraft(t)
    BY <2>1, <2>6, DiscardDraftInv
  <2>7. CASE Submit(t)
    BY <2>1, <2>7, SubmitInv
  <2>8. CASE \E s \in sends[t] : SendAccepted(t, s) \/ SendFails(t, s) \/ SendRefused(t, s)
    BY <2>1, <2>8, SendAcceptedInv, SendFailsInv, SendRefusedInv
  <2>9. CASE DocumentGoes(t)
    BY <2>1, <2>9, DocumentGoesInv
  <2>10. CASE ShellGoes(t)
    BY <2>1, <2>10, ShellGoesInv
  <2>11. CASE ShellStays(t)
    BY <2>1, <2>11, ShellStaysInv
  <2> QED  BY <2>2, <2>3, <2>4, <2>5, <2>6, <2>7, <2>8, <2>9, <2>10, <2>11
<1> QED  BY <1>1, <1>2

(* The inductive invariant holds in every behaviour of the composition of  *)
(* sessions and drawers, whatever the number of tabs and drafts.           *)
THEOREM ComposeInvariant == ComposeSpec => []ComposeInv
BY ComposeInitInv, ComposeNextInv, PTL DEF ComposeSpec

(* Types; and a drawer that shows "Sending" has its send under way         *)
(* (ComposeDrawer.tsx, submit).                                            *)
THEOREM ComposeTypeCorrect == ComposeSpec => []ComposeTypeOK
<1>1. ComposeInv => ComposeTypeOK
  <2> SUFFICES ASSUME ComposeInv PROVE ComposeTypeOK
    OBVIOUS
  <2>1. SessionTypeOK /\ DraftTypes /\ SendsInv
    BY SessionFacts DEF ComposeInv
  <2>2. \A t \in Tab : drawer[t] # NoDrawer /\ drawer[t].sending =>
           \E s \in sends[t] : s.here /\ s.key = drawer[t].key /\ s.fields = drawer[t].fields
    BY <2>1 DEF SendsInv, SendsFit
  <2> QED  BY <2>1, <2>2 DEF ComposeTypeOK, DraftTypes
<1> QED  BY <1>1, ComposeInvariant, PTL

(* What an idle drawer shows, a second after the last change, is stored    *)
(* (ComposeDrawer.tsx, the autosave effect and persist).                   *)
THEOREM ShownIsStoredTheorem == ComposeSpec => []ShownIsStored
<1>1. ComposeInv => ShownIsStored
  BY DEF ComposeInv
<1> QED  BY <1>1, ComposeInvariant, PTL

(* What a drawer was left with, by closing it or by AUTH_FAILED, is kept   *)
(* until it is opened again (ComposeDrawer.tsx, close and submit).         *)
THEOREM LeftIsKeptTheorem == ComposeSpec => []LeftIsKept
<1>1. ComposeInv => LeftIsKept
  BY DEF ComposeInv
<1> QED  BY <1>1, ComposeInvariant, PTL

(* Nothing brings back the draft of a message that was sent                *)
(* (ComposeDrawer.tsx, submit; lib/drafts.ts).                             *)
THEOREM SentIsGoneTheorem == ComposeSpec => []SentIsGone
<1>1. ComposeInv => SentIsGone
  BY DEF ComposeInv
<1> QED  BY <1>1, ComposeInvariant, PTL

(* A reload shows the session the tab showed (AuthProvider.tsx, the mount  *)
(* effect against signIn, startSample, leave and expire).                  *)
THEOREM ReloadShowsSameTheorem == ComposeSpec => []ReloadShowsSame
<1>1. ComposeInv => ReloadShowsSame
  BY SessionFacts DEF ComposeInv
<1> QED  BY <1>1, ComposeInvariant, PTL

(* A refused token is gone from storage for good (AuthProvider.tsx,        *)
(* expire).                                                                *)
THEOREM RefusedIsForgottenTheorem == ComposeSpec => []RefusedIsForgotten
<1>1. ComposeInv => RefusedIsForgotten
  BY DEF ComposeInv, SessionInv
<1> QED  BY <1>1, ComposeInvariant, PTL

(* The landing page explains only a session that ended by a refusal        *)
(* (lib/errors.ts, takeNotice).                                            *)
THEOREM NoticeIsOfLastSessionTheorem == ComposeSpec => []NoticeIsOfLastSession
<1>1. ComposeInv => NoticeIsOfLastSession
  BY SessionFacts DEF ComposeInv
<1> QED  BY <1>1, ComposeInvariant, PTL


=============================================================================
