-------------------------- MODULE TokenPersistence --------------------------
(***************************************************************************)
(* The OAuth tokens of one user: the columns of the users row, and the     *)
(* clients that read them, refresh them and write the new ones back        *)
(* (src/providers/gmail/auth.ts, src/db/supabase-user-store.ts).  A client *)
(* lives in one invocation; several invocations of one user overlap and    *)
(* share nothing but the row and Google.                                   *)
(*                                                                         *)
(* Tokens are numbered in the order Google issues them, and a refresh      *)
(* gives an access token only.  Encryption is left out: what is stored is  *)
(* what is read.                                                           *)
(***************************************************************************)
EXTENDS Naturals, Sequences

CONSTANTS
    Client,    \* slots for clients that exist at the same time
    MaxTokens, \* bound on the access tokens issued
    MaxGrants, \* bound on the refresh tokens issued
    Faults     \* may calls fail, and instances stop, for reasons of their own?

ASSUME BoundsAssumption == MaxTokens \in Nat /\ MaxGrants \in Nat
ASSUME FaultsAssumption == Faults \in BOOLEAN

VARIABLES
    row,     \* the token columns of the users row
    minted,  \* how many access tokens Google has issued
    grants,  \* how many refresh tokens Google has issued
    revoked, \* refresh tokens up to this one are dead
    client,  \* the clients
    kept,    \* history: the refresh token of the last sign-in that stored one
    lastBy   \* history: the client whose write the row holds, if it lives

google == <<minted, grants, revoked>>
tokenVars == <<row, google, client, kept, lastBy>>

NoToken == 0
NoTokens == [refresh |-> NoToken, access |-> NoToken]
HasTokens == row # NoTokens

(***************************************************************************)
(* What a client is for decides what becomes of a failed token write: a    *)
(* sync, a sign-in and refreshAccessToken await settled() when their work  *)
(* went well; a request, the backfill of a sign-in and the cron job settle *)
(* whatever happened, and swallow the failure.                             *)
(***************************************************************************)
Awaiting == {"sync", "signIn", "refresh"}
Quiet == {"request", "backfill"}

(* What is thrown, as far as the layers above tell it apart.               *)
Error == {"none", "AUTH_REVOKED", "AUTH_CODE_INVALID", "AUTH_SCOPE_MISSING", "RATE_LIMITED",
          "UPSTREAM", "SETUP", "MISSING_REFRESH", "OTHER"}

ClientRecord ==
    [pc      : {"free", "exchanged", "working", "settling", "done", "failed"},
     job     : Awaiting \cup Quiet,
     grant   : Nat,      \* credentials.refresh_token
     access  : Nat,      \* credentials.access_token
     writes  : Seq(Nat), \* chain: the tokens whose write is not done
     failed  : BOOLEAN,  \* firstFailure
     error   : Error,    \* what the work threw
     unsaved : SUBSET Nat, \* history: tokens emitted and not stored
     saved   : BOOLEAN]  \* history: has this sign-in stored its tokens?

Free == [pc |-> "free", job |-> "request", grant |-> NoToken, access |-> NoToken, writes |-> <<>>,
         failed |-> FALSE, error |-> "none", unsaved |-> {}, saved |-> FALSE]

TokensInit ==
    /\ row = NoTokens
    /\ minted = 0
    /\ grants = 0 /\ revoked = 0
    /\ client = [c \in Client |-> Free]
    /\ kept = NoToken
    /\ lastBy = {}

-----------------------------------------------------------------------------
(* Google and its user.                                                    *)

AccessRevoked ==
    /\ revoked < grants
    /\ revoked' = grants
    /\ UNCHANGED <<row, minted, grants, client, kept, lastBy>>

-----------------------------------------------------------------------------
(* Sign-in: exchangeCode and upsertUserTokens.                             *)

(* exchangeCode gives an access token and mostly a refresh token.          *)
Exchange(c) ==
    /\ minted < MaxTokens
    /\ minted' = minted + 1
    /\ \E g \in {NoToken, grants + 1} :
        /\ g <= MaxGrants
        /\ grants' = IF g = NoToken THEN grants ELSE g
        /\ client' = [client EXCEPT ![c] = [Free EXCEPT !.pc = "exchanged", !.job = "signIn",
                                                        !.grant = g, !.access = minted + 1]]
    /\ UNCHANGED <<row, revoked, kept, lastBy>>

(* Without a refresh token only an existing row can be updated, and it     *)
(* keeps the refresh token it has.                                         *)
UpsertUserTokens(c) ==
    LET k == client[c] IN
    /\ k.pc = "exchanged"
    /\ k.grant # NoToken \/ HasTokens
    /\ row' = [refresh |-> IF k.grant # NoToken THEN k.grant ELSE row.refresh, access |-> k.access]
    /\ kept' = IF k.grant # NoToken THEN k.grant ELSE kept
    /\ lastBy' = {c}
    /\ client' = [client EXCEPT ![c].pc = "working", ![c].saved = TRUE]
    /\ UNCHANGED google

(* Mutant: the error of the store is passed on as it is.                   *)
UpsertRefusedUnmapped(c) ==
    /\ client[c].pc = "exchanged"
    /\ Faults
    /\ client' = [client EXCEPT ![c].pc = "failed", ![c].error = "not null violation"]
    /\ UNCHANGED <<row, google, kept, lastBy>>

UpsertRefused(c) ==
    /\ client[c].pc = "exchanged"
    /\ \E e \in Error : /\ \/ e = "MISSING_REFRESH" /\ client[c].grant = NoToken /\ ~HasTokens
                           \/ e = "OTHER" /\ Faults
                        /\ client' = [client EXCEPT ![c].pc = "failed", ![c].error = e]
    /\ UNCHANGED <<row, google, kept, lastBy>>

-----------------------------------------------------------------------------
(* The life of a client.                                                   *)

(* authorizedClient; without stored tokens it throws AUTH_REVOKED.         *)
AuthorizedClient(c, job, saved) ==
    /\ HasTokens
    /\ client' = [client EXCEPT ![c] =
                    [Free EXCEPT !.pc = "working", !.job = job, !.saved = saved,
                                 !.grant = row.refresh, !.access = row.access]]
    /\ lastBy' = lastBy \ {c}
    /\ UNCHANGED <<row, google, kept>>

Connect(c) ==
    /\ client[c].pc = "free"
    /\ \E job \in {"sync", "refresh", "request"} : AuthorizedClient(c, job, FALSE)

(* A call may refresh at any time of the work: expiry is not modelled, nor *)
(* is a token that Google takes back early.  So may the calls of a         *)
(* backfill page that are still under way when another one has failed.     *)
Calling(c) == \/ client[c].pc = "working"
              \/ /\ client[c].job \in {"sync", "backfill"}
                 /\ client[c].pc \in {"settling", "failed"} /\ client[c].error # "none"

(* The OAuth2 client emits the new token and the listener chains its write.*)
Refresh(c) ==
    LET k == client[c] IN
    /\ Calling(c)
    /\ k.grant > revoked
    /\ minted < MaxTokens
    /\ minted' = minted + 1
    /\ client' = [client EXCEPT
                    ![c].access = minted + 1,
                    ![c].writes = Append(@, minted + 1),
                    ![c].unsaved = @ \cup {minted + 1},
                    ![c].pc = IF k.job = "refresh" /\ @ = "working" THEN "settling" ELSE @]
    /\ UNCHANGED <<row, grants, revoked, kept, lastBy>>

(* Mutants: the client's own refresh token is written back; the writes are *)
(* not chained and land in any order; a failed write is forgotten.         *)
TokenWriteWithGrant(c) ==
    /\ client[c].writes # <<>>
    /\ row' = [refresh |-> client[c].grant, access |-> Head(client[c].writes)]
    /\ lastBy' = {c}
    /\ client' = [client EXCEPT ![c].writes = Tail(@), ![c].unsaved = @ \ {Head(client[c].writes)}]
    /\ UNCHANGED <<google, kept>>
TokenWriteUnchained(c) ==
    \E i \in DOMAIN client[c].writes :
        /\ row' = [row EXCEPT !.access = client[c].writes[i]]
        /\ lastBy' = {c}
        /\ client' = [client EXCEPT
                        ![c].writes = SubSeq(@, 1, i - 1) \o SubSeq(@, i + 1, Len(@)),
                        ![c].unsaved = @ \ {client[c].writes[i]}]
        /\ UNCHANGED <<google, kept>>
TokenWriteFailsSilently(c) ==
    /\ Faults
    /\ client[c].writes # <<>>
    /\ client' = [client EXCEPT ![c].writes = Tail(@)]
    /\ UNCHANGED <<row, google, kept, lastBy>>

(* updateUserTokens of the write at the head of the chain: a refreshed     *)
(* token comes without a refresh token, and the column is left out.        *)
TokenWrite(c) ==
    /\ client[c].writes # <<>>
    /\ row' = [row EXCEPT !.access = Head(client[c].writes)]
    /\ lastBy' = {c}
    /\ client' = [client EXCEPT ![c].writes = Tail(@), ![c].unsaved = @ \ {Head(client[c].writes)}]
    /\ UNCHANGED <<google, kept>>

(* A failed write is remembered, and the chain goes on.                    *)
TokenWriteFails(c) ==
    /\ Faults
    /\ client[c].writes # <<>>
    /\ client' = [client EXCEPT ![c].writes = Tail(@), ![c].failed = TRUE]
    /\ UNCHANGED <<row, google, kept, lastBy>>

(* The work is done: for a sign-in users.watch and saveWatch.              *)
WorkDone(c) ==
    /\ client[c].pc = "working"
    /\ client[c].job # "refresh"
    /\ client' = [client EXCEPT ![c].pc = "settling"]
    /\ UNCHANGED <<row, google, kept, lastBy>>

(* What the work may throw.  A failure of users.watch or of the backfill   *)
(* says that the tokens were saved; who connects otherwise is not told.    *)
Thrown(k) ==
    LET dead == k.grant # NoToken /\ k.grant <= revoked
        kinds == {e \in Error :
                    \/ e = "AUTH_REVOKED" /\ dead
                    \/ e = "SETUP" /\ k.grant = NoToken
                    \/ e \in {"RATE_LIMITED", "SETUP", "OTHER"} /\ Faults}
    IN IF k.job \in {"signIn", "backfill"} \/ kinds = {} THEN kinds ELSE {"OTHER"}

(* `finally' settles a request and a backfill; the others leave at once.   *)
WorkThrows(c) ==
    /\ client[c].pc = "working"
    /\ \E e \in Thrown(client[c]) :
        client' = [client EXCEPT ![c].error = e,
                                 ![c].pc = IF client[c].job \in Quiet THEN "settling" ELSE "failed"]
    /\ UNCHANGED <<row, google, kept, lastBy>>

(* settled(): waits for the chain and throws its first failure.            *)
Settled(c) ==
    LET k == client[c]
        throws == k.failed /\ k.job \notin Quiet
    IN
    /\ k.pc = "settling"
    /\ k.writes = <<>>
    /\ client' = [client EXCEPT ![c].pc = IF throws \/ k.error # "none" THEN "failed" ELSE "done",
                                ![c].error = IF throws /\ @ = "none" THEN "OTHER" ELSE @]
    /\ UNCHANGED <<row, google, kept, lastBy>>

(* The invocation ends, or its instance stops: unfinished writes are lost. *)
Ends(c) ==
    /\ client' = [client EXCEPT ![c] = Free]
    /\ lastBy' = lastBy \ {c}
    /\ UNCHANGED <<row, google, kept>>

ClientStep(c) ==
    \/ Connect(c)
    \/ Refresh(c)
    \/ TokenWrite(c) \/ TokenWriteFails(c)
    \/ WorkDone(c) \/ WorkThrows(c)
    \/ Settled(c)
    \/ UpsertUserTokens(c) \/ UpsertRefused(c)

-----------------------------------------------------------------------------
TokensTypeOK ==
    /\ row \in [refresh : Nat, access : Nat]
    /\ minted \in Nat /\ grants \in Nat /\ revoked \in Nat
    /\ client \in [Client -> ClientRecord]
    /\ kept \in Nat
    /\ lastBy \in SUBSET Client

(***************************************************************************)
(* Whatever clients of earlier sign-ins still write, the row keeps the     *)
(* refresh token of the last sign-in that brought one: the merge rule of   *)
(* tokenColumns.  Were it lost, every later client would be AUTH_REVOKED.  *)
(***************************************************************************)
ConsentKept == HasTokens => row.refresh = kept /\ kept # NoToken

(***************************************************************************)
(* A sync, a sign-in or refreshAccessToken that reports success has stored *)
(* every token its client was given (settled, auth.ts).                    *)
(***************************************************************************)
SettledIsStored ==
    \A c \in Client : client[c].pc = "done" /\ client[c].job \in Awaiting => client[c].unsaved = {}

(***************************************************************************)
(* Within one client an older token never ends over a newer one: when the  *)
(* row holds a write of a client that has no write left and lost none, it  *)
(* holds the client's newest token (attachTokenPersistence's chain).       *)
(***************************************************************************)
Newest(c) ==
    c \in lastBy /\ client[c].writes = <<>> /\ client[c].unsaved = {} => row.access = client[c].access
(* Of every client of the user, whatever the others write (auth.ts).       *)
LastWriteIsNewest == \A c \in Client : Newest(c)

(***************************************************************************)
(* The inductive invariant behind these.  A client's unfinished writes are *)
(* its tokens in the order they were issued, of which there were n, the    *)
(* last one its newest; while no write has failed nothing else is unsaved. *)
(***************************************************************************)
ChainInv(k, n) ==
    /\ \A i \in 1..Len(k.writes) : k.writes[i] \in k.unsaved /\ k.writes[i] <= n
    /\ \A i, j \in 1..Len(k.writes) : i < j => k.writes[i] < k.writes[j]
    /\ k.writes # <<>> => k.writes[Len(k.writes)] = k.access
    /\ ~k.failed => \A u \in k.unsaved : \E i \in 1..Len(k.writes) : k.writes[i] = u

(* Where a client stands, and what it has thrown, tell what is stored.     *)
StageInv(k, hasTokens) ==
    /\ k.pc \in {"free", "exchanged"} => k.writes = <<>> /\ k.error = "none"
    /\ k.pc = "free" => k.job = "request"
    /\ k.pc = "exchanged" => k.job = "signIn" /\ ~k.saved
    /\ k.pc = "done" => k.error = "none" /\ (k.job \in Awaiting => k.writes = <<>> /\ ~k.failed)
    /\ k.pc = "failed" => k.error # "none"
    /\ \/ k.pc \in {"working", "settling", "done"} \/ k.writes # <<>>
       \/ k.pc = "failed" /\ k.job # "signIn"
       => hasTokens
    /\ k.job = "signIn" /\ k.pc \in {"working", "settling", "done"} => k.saved
    /\ k.job = "backfill" => k.saved
    /\ k.job \in {"signIn", "backfill"} =>
        /\ k.error = "SETUP" => k.saved
        /\ k.error \in {"AUTH_CODE_INVALID", "AUTH_SCOPE_MISSING", "UPSTREAM", "MISSING_REFRESH"}
             => ~k.saved

RowInv == IF row.refresh = NoToken THEN row = NoTokens ELSE row.refresh = kept

TokensInv ==
    /\ TokensTypeOK
    /\ RowInv
    /\ \A c \in Client :
        /\ ChainInv(client[c], minted)
        /\ StageInv(client[c], HasTokens)
        /\ client[c].pc \in {"free", "exchanged"} => c \notin lastBy
        /\ Newest(c)
=============================================================================
