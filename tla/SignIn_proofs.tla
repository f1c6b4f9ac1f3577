--------------------------- MODULE SignIn_proofs ----------------------------
(***************************************************************************)
(* Proofs about SignIn, for every number of clients, tokens and sign-ins,  *)
(* and whether or not calls may fail.                                      *)
(***************************************************************************)
EXTENDS SignIn, TLAPS

LEMMA FreeType == Free \in ClientRecord
BY DEF Free, ClientRecord, Awaiting, Quiet, Error, NoToken

(* The row had tokens if it has a refresh token.                           *)
LEMMA HasRefresh ==
  ASSUME TokensTypeOK, RowInv
  PROVE  HasTokens <=> row.refresh # NoToken
BY DEF TokensTypeOK, RowInv, HasTokens, NoTokens, NoToken

(* More tokens issued, and a row that has tokens, keep a client's part.    *)
LEMMA Monotone ==
  ASSUME NEW k \in ClientRecord, NEW m \in Nat, NEW n \in Nat, m <= n,
         NEW a \in BOOLEAN, NEW b \in BOOLEAN, a => b,
         ChainInv(k, m), StageInv(k, a)
  PROVE  ChainInv(k, n) /\ StageInv(k, b)
<1>1. ChainInv(k, n)
  <2>1. k.writes \in Seq(Nat)
    BY DEF ClientRecord
  <2>2. \A i \in 1..Len(k.writes) : k.writes[i] \in Nat
    BY <2>1
  <2> QED  BY <2>1, <2>2 DEF ChainInv
<1>2. StageInv(k, b)
  BY DEF StageInv
<1> QED  BY <1>1, <1>2

(* A step of one client: what has to be shown of it alone.                 *)
LEMMA OneClient ==
  ASSUME TokensInv, NEW c \in Client, NEW r \in ClientRecord,
         client' = [client EXCEPT ![c] = r],
         row' \in [refresh : Nat, access : Nat], RowInv',
         minted' \in Nat, minted <= minted',
         grants' \in Nat, revoked' \in Nat, kept' \in Nat,
         HasTokens => HasTokens',
         \/ lastBy' = {c}
         \/ row'.access = row.access /\ lastBy' \subseteq lastBy,
         ChainInv(r, minted'), StageInv(r, HasTokens'),
         r.pc \in {"free", "exchanged"} => c \notin lastBy',
         c \in lastBy' /\ r.writes = <<>> /\ r.unsaved = {} => row'.access = r.access
  PROVE  TokensInv'
<1>1. client \in [Client -> ClientRecord] /\ lastBy \in SUBSET Client /\ minted \in Nat
  BY DEF TokensInv, TokensTypeOK
<1>2. client' \in [Client -> ClientRecord] /\ client'[c] = r
  BY <1>1
<1>3. TokensTypeOK'
  BY <1>1, <1>2 DEF TokensTypeOK
<1>4. ASSUME NEW d \in Client
      PROVE  /\ ChainInv(client'[d], minted')
             /\ StageInv(client'[d], HasTokens')
             /\ client'[d].pc \in {"free", "exchanged"} => d \notin lastBy'
             /\ Newest(d)'
  <2>1. CASE d = c
    BY <1>2, <2>1 DEF Newest
  <2>2. CASE d # c
    <3>1. client'[d] = client[d] /\ client[d] \in ClientRecord
      BY <1>1, <2>2
    <3>2. /\ ChainInv(client[d], minted) /\ StageInv(client[d], HasTokens)
          /\ client[d].pc \in {"free", "exchanged"} => d \notin lastBy
          /\ Newest(d)
      BY DEF TokensInv
    <3>3. HasTokens \in BOOLEAN /\ HasTokens' \in BOOLEAN
      BY DEF HasTokens
    <3>4. ChainInv(client[d], minted') /\ StageInv(client[d], HasTokens')
      BY <1>1, <3>1, <3>2, <3>3, Monotone
    <3>5. d \in lastBy' => d \in lastBy /\ row'.access = row.access
      BY <2>2
    <3> QED  BY <3>1, <3>2, <3>4, <3>5 DEF Newest
  <2> QED  BY <2>1, <2>2
<1> QED  BY <1>3, <1>4 DEF TokensInv

(* What is known of one client before its step.                            *)
LEMMA ClientFacts ==
  ASSUME TokensInv, NEW c \in Client
  PROVE  /\ client \in [Client -> ClientRecord] /\ client[c] \in ClientRecord
         /\ row \in [refresh : Nat, access : Nat] /\ RowInv /\ lastBy \subseteq Client
         /\ minted \in Nat /\ grants \in Nat /\ revoked \in Nat /\ kept \in Nat
         /\ ChainInv(client[c], minted) /\ StageInv(client[c], HasTokens)
         /\ client[c].pc \in {"free", "exchanged"} => c \notin lastBy
         /\ Newest(c) /\ HasTokens \in BOOLEAN
BY DEF TokensInv, TokensTypeOK, HasTokens

(* A step that neither writes the row nor is given a token.                *)
LEMMA SameRow ==
  ASSUME TokensInv, NEW c \in Client, NEW r \in ClientRecord,
         client' = [client EXCEPT ![c] = r], UNCHANGED <<row, google, kept>>, lastBy' \subseteq lastBy,
         ChainInv(r, minted), StageInv(r, HasTokens),
         r.pc \in {"free", "exchanged"} => c \notin lastBy',
         c \in lastBy' /\ r.writes = <<>> /\ r.unsaved = {} => row.access = r.access
  PROVE  TokensInv'
<1>1. /\ row' \in [refresh : Nat, access : Nat] /\ RowInv' /\ HasTokens' = HasTokens
      /\ minted' \in Nat /\ minted <= minted' /\ minted' = minted
      /\ grants' \in Nat /\ revoked' \in Nat /\ kept' \in Nat /\ row'.access = row.access
  BY ClientFacts DEF google, RowInv, HasTokens
<1>2. ChainInv(r, minted') /\ StageInv(r, HasTokens')
  BY <1>1
<1> QED  BY <1>1, <1>2, OneClient

(* A client without unfinished writes has no claim on its chain but this.  *)
LEMMA NoWrites ==
  ASSUME NEW r \in ClientRecord, r.writes = <<>>, r.unsaved = {}, NEW n \in Nat
  PROVE  ChainInv(r, n)
BY DEF ChainInv

(* A step that leaves a client's chain and tokens alone.                    *)
LEMMA SameChain ==
  ASSUME NEW k \in ClientRecord, NEW r \in ClientRecord, NEW n \in Nat, ChainInv(k, n),
         r.writes = k.writes, r.unsaved = k.unsaved, r.failed = k.failed, r.access = k.access
  PROVE  ChainInv(r, n)
BY DEF ChainInv

LEMMA AccessRevokedInv == TokensInv /\ AccessRevoked => TokensInv'
BY DEF AccessRevoked, TokensInv, TokensTypeOK, RowInv, HasTokens, Newest

LEMMA EndsInv ==
  ASSUME TokensInv, NEW c \in Client, Ends(c)
  PROVE  TokensInv'
<1>1. ChainInv(Free, minted) /\ StageInv(Free, HasTokens)
  BY FreeType, NoWrites, ClientFacts DEF Free, StageInv, Awaiting
<1> QED  BY <1>1, FreeType, SameRow DEF Ends, Free

LEMMA AuthorizedClientInv ==
  ASSUME TokensInv, NEW c \in Client, NEW job \in Awaiting \cup Quiet, NEW saved \in BOOLEAN,
         job = "signIn" \/ job = "backfill" => saved, AuthorizedClient(c, job, saved)
  PROVE  TokensInv'
<1> DEFINE r == [Free EXCEPT !.pc = "working", !.job = job, !.saved = saved,
                             !.grant = row.refresh, !.access = row.access]
<1>1. row.refresh \in Nat /\ row.access \in Nat /\ minted \in Nat
  BY ClientFacts
<1>2. r \in ClientRecord /\ r.writes = <<>> /\ r.unsaved = {} /\ r.access = row.access
      /\ r.pc = "working" /\ r.job = job /\ r.saved = saved /\ r.error = "none"
  BY <1>1, FreeType DEF Free, ClientRecord
<1>3. ChainInv(r, minted)
  BY <1>1, <1>2, NoWrites
<1>4. StageInv(r, HasTokens)
  BY <1>2 DEF AuthorizedClient, StageInv
<1> HIDE DEF r
<1>5. client' = [client EXCEPT ![c] = r] /\ UNCHANGED <<row, google, kept>> /\ lastBy' \subseteq lastBy
  BY DEF AuthorizedClient, r
<1> QED  BY <1>2, <1>3, <1>4, <1>5, SameRow

LEMMA ExchangeInv ==
  ASSUME TokensInv, NEW c \in Client, client[c].pc = "free", Exchange(c)
  PROVE  TokensInv'
<1>1. PICK g \in {NoToken, grants + 1} :
        /\ minted' = minted + 1 /\ grants' = IF g = NoToken THEN grants ELSE g
        /\ client' = [client EXCEPT ![c] = [Free EXCEPT !.pc = "exchanged", !.job = "signIn",
                                                        !.grant = g, !.access = minted + 1]]
        /\ UNCHANGED <<row, revoked, kept, lastBy>>
  BY DEF Exchange
<1> DEFINE r == [Free EXCEPT !.pc = "exchanged", !.job = "signIn", !.grant = g, !.access = minted + 1]
<1>2. minted \in Nat /\ minted + 1 \in Nat /\ grants \in Nat /\ g \in Nat /\ minted' \in Nat /\ grants' \in Nat
  BY <1>1, ClientFacts DEF NoToken
<1>3. r \in ClientRecord /\ r.writes = <<>> /\ r.unsaved = {} /\ r.pc = "exchanged"
      /\ r.job = "signIn" /\ r.error = "none" /\ ~r.saved
  BY <1>2, FreeType DEF Free, ClientRecord, Awaiting, Quiet, Error
<1>4. ChainInv(r, minted')
  BY <1>2, <1>3, NoWrites
<1>5. StageInv(r, HasTokens')
  BY <1>3 DEF StageInv
<1>6. /\ row' \in [refresh : Nat, access : Nat] /\ RowInv' /\ (HasTokens => HasTokens')
      /\ minted <= minted' /\ revoked' \in Nat /\ kept' \in Nat /\ row'.access = row.access
      /\ lastBy' \subseteq lastBy /\ c \notin lastBy'
  BY <1>1, <1>2, ClientFacts DEF RowInv, HasTokens
<1>7. client' = [client EXCEPT ![c] = r]
  BY <1>1
<1> HIDE DEF r
<1> QED  BY <1>2, <1>3, <1>4, <1>5, <1>6, <1>7, OneClient

LEMMA ExchangeThrowsInv ==
  ASSUME TokensInv, NEW c \in Client, NEW s, client[c].pc = "free", ExchangeThrows(c, s)
  PROVE  TokensInv'
<1>1. PICK e \in {"AUTH_CODE_INVALID", "AUTH_SCOPE_MISSING", "RATE_LIMITED", "UPSTREAM"} :
        client' = [client EXCEPT ![c] = [Free EXCEPT !.pc = "failed", !.job = "signIn", !.error = e]]
  BY DEF ExchangeThrows
<1> DEFINE r == [Free EXCEPT !.pc = "failed", !.job = "signIn", !.error = e]
<1>2. r \in ClientRecord /\ r.writes = <<>> /\ r.unsaved = {} /\ r.pc = "failed"
      /\ r.job = "signIn" /\ r.error = e /\ ~r.saved
  BY FreeType DEF Free, ClientRecord, Awaiting, Error
<1>3. ChainInv(r, minted) /\ StageInv(r, HasTokens)
  BY <1>2, NoWrites, ClientFacts DEF StageInv
<1>4. UNCHANGED <<row, google, kept>> /\ lastBy' \subseteq lastBy /\ c \notin lastBy'
  BY ClientFacts DEF ExchangeThrows
<1>5. client' = [client EXCEPT ![c] = r]
  BY <1>1
<1> HIDE DEF r
<1> QED  BY <1>2, <1>3, <1>4, <1>5, SameRow

LEMMA UpsertUserTokensInv ==
  ASSUME TokensInv, NEW c \in Client, UpsertUserTokens(c)
  PROVE  TokensInv'
<1> DEFINE k == client[c]
           r == [client[c] EXCEPT !.pc = "working", !.saved = TRUE]
<1>1. /\ k.pc = "exchanged" /\ (k.grant # NoToken \/ HasTokens)
      /\ row' = [refresh |-> IF k.grant # NoToken THEN k.grant ELSE row.refresh, access |-> k.access]
      /\ kept' = (IF k.grant # NoToken THEN k.grant ELSE kept)
      /\ lastBy' = {c} /\ UNCHANGED google
  BY DEF UpsertUserTokens
<1>2. client' = [client EXCEPT ![c] = r]
  BY ClientFacts DEF UpsertUserTokens
<1>3. k \in ClientRecord /\ k.grant \in Nat /\ k.access \in Nat /\ row.refresh \in Nat /\ kept \in Nat
      /\ (HasTokens => row.refresh # NoToken /\ row.refresh = kept)
  BY ClientFacts, HasRefresh DEF ClientRecord, TokensInv, RowInv
<1>4. r \in ClientRecord /\ r.pc = "working" /\ r.saved = TRUE /\ r.job = k.job /\ r.error = k.error
      /\ r.writes = k.writes /\ r.unsaved = k.unsaved /\ r.failed = k.failed /\ r.access = k.access
  BY <1>3 DEF ClientRecord
<1>5. /\ row' \in [refresh : Nat, access : Nat] /\ row'.refresh # NoToken /\ row'.refresh = kept'
      /\ row'.access = k.access
  BY <1>1, <1>3
<1>6. RowInv' /\ HasTokens'
  BY <1>5 DEF RowInv, HasTokens, NoTokens
<1>7. /\ minted' = minted /\ minted \in Nat /\ minted' \in Nat /\ minted <= minted'
      /\ grants' \in Nat /\ revoked' \in Nat /\ kept' \in Nat
  BY <1>1, <1>3, ClientFacts DEF google
<1>8. ChainInv(r, minted')
  <2>1. k \in ClientRecord /\ ChainInv(k, minted)
    BY ClientFacts
  <2> HIDE DEF r, k
  <2> QED  BY <1>4, <1>7, <2>1, SameChain
<1>9. StageInv(r, HasTokens')
  BY <1>1, <1>4, <1>6, ClientFacts DEF StageInv
<1> HIDE DEF r, k
<1> QED  BY <1>1, <1>2, <1>4, <1>5, <1>6, <1>7, <1>8, <1>9, OneClient

LEMMA UpsertRefusedInv ==
  ASSUME TokensInv, NEW c \in Client, UpsertRefused(c)
  PROVE  TokensInv'
<1> DEFINE k == client[c]
<1>1. PICK e \in Error : /\ \/ e = "MISSING_REFRESH" \/ e = "OTHER"
                         /\ client' = [client EXCEPT ![c].pc = "failed", ![c].error = e]
  BY DEF UpsertRefused
<1> DEFINE r == [client[c] EXCEPT !.pc = "failed", !.error = e]
<1>2. k.pc = "exchanged" /\ UNCHANGED <<row, google, kept>> /\ lastBy' \subseteq lastBy
  BY DEF UpsertRefused
<1>3. client' = [client EXCEPT ![c] = r]
  BY <1>1, ClientFacts
<1>4. r \in ClientRecord /\ r.pc = "failed" /\ r.error = e /\ r.job = k.job /\ r.saved = k.saved
      /\ r.writes = k.writes /\ r.unsaved = k.unsaved /\ r.failed = k.failed /\ r.access = k.access
  BY ClientFacts DEF ClientRecord
<1>5. ChainInv(r, minted)
  <2>1. k \in ClientRecord /\ ChainInv(k, minted) /\ minted \in Nat
    BY ClientFacts
  <2> HIDE DEF r, k
  <2> QED  BY <1>4, <2>1, SameChain
<1>6. StageInv(r, HasTokens)
  BY <1>1, <1>2, <1>4, ClientFacts DEF StageInv
<1>7. c \notin lastBy'
  BY <1>2, ClientFacts
<1> HIDE DEF r, k
<1> QED  BY <1>2, <1>3, <1>4, <1>5, <1>6, <1>7, SameRow

LEMMA RefreshInv ==
  ASSUME TokensInv, NEW c \in Client, Refresh(c)
  PROVE  TokensInv'
<1> DEFINE k == client[c]
           r == [client[c] EXCEPT !.access = minted + 1, !.writes = Append(@, minted + 1),
                                  !.unsaved = @ \cup {minted + 1},
                                  !.pc = IF k.job = "refresh" /\ @ = "working" THEN "settling" ELSE @]
<1>1. /\ Calling(c) /\ minted' = minted + 1 /\ UNCHANGED <<row, grants, revoked, kept, lastBy>>
  BY DEF Refresh
<1>2. client' = [client EXCEPT ![c] = r]
  BY ClientFacts DEF Refresh
<1>3. k \in ClientRecord /\ k.writes \in Seq(Nat) /\ k.unsaved \subseteq Nat /\ minted \in Nat
      /\ minted + 1 \in Nat /\ ChainInv(k, minted) /\ StageInv(k, HasTokens)
      /\ k.pc \in {"working", "settling", "failed"}
  BY <1>1, ClientFacts DEF ClientRecord, Calling
<1>4. /\ r \in ClientRecord /\ r.error = k.error /\ r.job = k.job /\ r.saved = k.saved /\ r.failed = k.failed
      /\ r.writes = Append(k.writes, minted + 1) /\ r.unsaved = k.unsaved \cup {minted + 1}
      /\ r.access = minted + 1
      /\ r.pc = IF k.job = "refresh" /\ k.pc = "working" THEN "settling" ELSE k.pc
  <2>1. Append(k.writes, minted + 1) \in Seq(Nat) /\ k.unsaved \cup {minted + 1} \in SUBSET Nat
    BY <1>3
  <2>2. (IF k.job = "refresh" /\ k.pc = "working" THEN "settling" ELSE k.pc)
           \in {"free", "exchanged", "working", "settling", "done", "failed"}
    BY <1>3
  <2> HIDE DEF k
  <2>3. r = [k EXCEPT !.access = minted + 1, !.writes = Append(k.writes, minted + 1),
                      !.unsaved = k.unsaved \cup {minted + 1},
                      !.pc = IF k.job = "refresh" /\ k.pc = "working" THEN "settling" ELSE k.pc]
    BY DEF k
  <2> HIDE DEF r
  <2> QED  BY <1>3, <2>1, <2>2, <2>3 DEF ClientRecord
<1> HIDE DEF r, k
<1>5. /\ Len(r.writes) = Len(k.writes) + 1 /\ Len(k.writes) \in Nat
      /\ r.writes[Len(r.writes)] = minted + 1 /\ r.writes # <<>>
      /\ \A i \in 1..Len(k.writes) : r.writes[i] = k.writes[i] /\ k.writes[i] \in Nat
  <2>1. Len(r.writes) = Len(k.writes) + 1 /\ Len(k.writes) \in Nat
    BY <1>3, <1>4
  <2>2. \A i \in 1..Len(k.writes) : r.writes[i] = k.writes[i] /\ k.writes[i] \in Nat
    BY <1>3, <1>4
  <2>3. r.writes[Len(k.writes) + 1] = minted + 1
    BY <1>3, <1>4
  <2> QED  BY <2>1, <2>2, <2>3
<1>6. ChainInv(r, minted + 1)
  <2>1. \A i \in 1..Len(r.writes) : r.writes[i] \in r.unsaved /\ r.writes[i] <= minted + 1
    BY <1>3, <1>4, <1>5 DEF ChainInv
  <2>2. ASSUME NEW i \in 1..Len(r.writes), NEW j \in 1..Len(r.writes), i < j
        PROVE  r.writes[i] < r.writes[j]
    <3>1. i \in 1..Len(k.writes) /\ r.writes[i] = k.writes[i] /\ k.writes[i] \in Nat
          /\ k.writes[i] <= minted
      BY <1>3, <1>5, <2>2 DEF ChainInv
    <3>2. CASE j = Len(r.writes)
      BY <1>3, <1>5, <3>1, <3>2
    <3>3. CASE j # Len(r.writes)
      <4>1. j \in 1..Len(k.writes) /\ r.writes[j] = k.writes[j]
        BY <1>5, <3>3
      <4> QED  BY <1>3, <2>2, <3>1, <4>1 DEF ChainInv
    <3> QED  BY <3>2, <3>3
  <2>3. r.writes # <<>> => r.writes[Len(r.writes)] = r.access
    BY <1>4, <1>5
  <2>4. (~r.failed) => \A u \in r.unsaved : \E i \in 1..Len(r.writes) : r.writes[i] = u
    <3> SUFFICES ASSUME ~r.failed, NEW u \in r.unsaved
                 PROVE  \E i \in 1..Len(r.writes) : r.writes[i] = u
      OBVIOUS
    <3>1. CASE u = minted + 1
      BY <1>5, <3>1
    <3>2. CASE u \in k.unsaved
      <4>1. PICK i \in 1..Len(k.writes) : k.writes[i] = u
        BY <1>3, <1>4, <3>2 DEF ChainInv
      <4>2. i \in 1..Len(r.writes) /\ r.writes[i] = u
        BY <1>5, <4>1
      <4> QED  BY <4>2
    <3> QED  BY <1>4, <3>1, <3>2
  <2> QED  BY <2>1, <2>2, <2>3, <2>4 DEF ChainInv
<1>7. HasTokens' = HasTokens /\ RowInv' /\ row' \in [refresh : Nat, access : Nat]
      /\ grants' \in Nat /\ revoked' \in Nat /\ kept' \in Nat
  BY <1>1, ClientFacts DEF HasTokens, RowInv
<1>8. k.pc = "failed" => k.job \in {"sync", "backfill"}
  BY <1>1 DEF Calling, k
<1>9. StageInv(r, HasTokens)
  BY <1>3, <1>4, <1>5, <1>8 DEF StageInv
<1>10. r.pc \notin {"free", "exchanged"}
  BY <1>3, <1>4
<1>11. ChainInv(r, minted') /\ StageInv(r, HasTokens') /\ minted <= minted' /\ minted' \in Nat
       /\ lastBy' \subseteq lastBy /\ row'.access = row.access
  BY <1>1, <1>3, <1>6, <1>7, <1>9
<1> QED  BY <1>2, <1>4, <1>5, <1>7, <1>10, <1>11, OneClient

(* The write at the head of the chain is over; what is left of the chain.  *)
LEMMA TailFacts ==
  ASSUME NEW k \in ClientRecord, k.writes # <<>>
  PROVE  /\ Tail(k.writes) \in Seq(Nat) /\ Head(k.writes) = k.writes[1] /\ Head(k.writes) \in Nat
         /\ Len(k.writes) \in Nat /\ Len(k.writes) >= 1
         /\ Len(Tail(k.writes)) = Len(k.writes) - 1
         /\ \A i \in 1..Len(Tail(k.writes)) :
              Tail(k.writes)[i] = k.writes[i + 1] /\ i + 1 \in 1..Len(k.writes)
<1>1. k.writes \in Seq(Nat)
  BY DEF ClientRecord
<1>2. Len(k.writes) \in Nat /\ Len(k.writes) >= 1 /\ Len(Tail(k.writes)) = Len(k.writes) - 1
  BY <1>1
<1>3. Tail(k.writes) \in Seq(Nat) /\ Head(k.writes) = k.writes[1] /\ Head(k.writes) \in Nat
  BY <1>1, <1>2
<1>4. \A i \in 1..Len(Tail(k.writes)) : Tail(k.writes)[i] = k.writes[i + 1] /\ i + 1 \in 1..Len(k.writes)
  BY <1>1, <1>2
<1> QED  BY <1>2, <1>3, <1>4

LEMMA TailChain ==
  ASSUME NEW k \in ClientRecord, NEW r \in ClientRecord, NEW n \in Nat, ChainInv(k, n),
         k.writes # <<>>, r.writes = Tail(k.writes), r.access = k.access,
         \/ r.failed = k.failed /\ r.unsaved = k.unsaved \ {Head(k.writes)}
         \/ r.failed = TRUE /\ r.unsaved = k.unsaved
  PROVE  ChainInv(r, n)
<1>1. \A i \in 1..Len(k.writes) : k.writes[i] \in Nat
  BY DEF ClientRecord
<1>2. ASSUME NEW i \in 1..Len(r.writes)
      PROVE  r.writes[i] \in r.unsaved /\ r.writes[i] <= n
  <2>1. r.writes[i] = k.writes[i + 1] /\ i + 1 \in 1..Len(k.writes) /\ 1 \in 1..Len(k.writes)
    BY TailFacts
  <2>2. k.writes[1] < k.writes[i + 1]
    BY <2>1 DEF ChainInv
  <2>3. r.writes[i] # Head(k.writes)
    BY <1>1, <2>1, <2>2, TailFacts
  <2> QED  BY <2>1, <2>3 DEF ChainInv
<1>3. ASSUME NEW i \in 1..Len(r.writes), NEW j \in 1..Len(r.writes), i < j
      PROVE  r.writes[i] < r.writes[j]
  <2>1. /\ r.writes[i] = k.writes[i + 1] /\ i + 1 \in 1..Len(k.writes)
        /\ r.writes[j] = k.writes[j + 1] /\ j + 1 \in 1..Len(k.writes)
    BY TailFacts
  <2>2. i + 1 < j + 1
    BY <1>3
  <2> QED  BY <2>1, <2>2 DEF ChainInv
<1>4. r.writes # <<>> => r.writes[Len(r.writes)] = r.access
  <2> HAVE r.writes # <<>>
  <2>1. Len(r.writes) \in 1..Len(r.writes) /\ Len(r.writes) = Len(k.writes) - 1
    <3>1. r.writes \in Seq(Nat)
      BY DEF ClientRecord
    <3>2. Len(r.writes) = Len(k.writes) - 1
      BY TailFacts
    <3> QED  BY <3>1, <3>2
  <2>2. r.writes[Len(r.writes)] = k.writes[Len(k.writes)]
    BY <2>1, TailFacts
  <2> QED  BY <2>2 DEF ChainInv
<1>5. ASSUME ~r.failed, NEW u \in r.unsaved
      PROVE  \E i \in 1..Len(r.writes) : r.writes[i] = u
  <2>1. ~k.failed /\ u \in k.unsaved /\ u # Head(k.writes)
    BY <1>5
  <2>2. PICK i \in 1..Len(k.writes) : k.writes[i] = u
    BY <2>1 DEF ChainInv
  <2>3. i # 1
    BY <2>1, <2>2, TailFacts
  <2>4. i - 1 \in 1..Len(Tail(k.writes)) /\ (i - 1) + 1 = i
    BY <2>3, TailFacts
  <2>5. Tail(k.writes)[i - 1] = k.writes[i]
    BY <2>4, TailFacts
  <2> QED  BY <2>2, <2>4, <2>5
<1> QED  BY <1>2, <1>3, <1>4, <1>5 DEF ChainInv

LEMMA TokenWriteInv ==
  ASSUME TokensInv, NEW c \in Client, TokenWrite(c)
  PROVE  TokensInv'
<1> DEFINE k == client[c]
           r == [client[c] EXCEPT !.writes = Tail(@), !.unsaved = @ \ {Head(client[c].writes)}]
<1>1. /\ k.writes # <<>> /\ row' = [row EXCEPT !.access = Head(k.writes)]
      /\ lastBy' = {c} /\ UNCHANGED <<google, kept>>
  BY DEF TokenWrite
<1>2. client' = [client EXCEPT ![c] = r]
  BY ClientFacts DEF TokenWrite
<1>3. k \in ClientRecord /\ ChainInv(k, minted) /\ StageInv(k, HasTokens) /\ RowInv
      /\ row \in [refresh : Nat, access : Nat] /\ minted \in Nat
  BY ClientFacts
<1>4. Tail(k.writes) \in Seq(Nat) /\ Head(k.writes) \in Nat
  BY <1>1, <1>3, TailFacts
<1>5. /\ r \in ClientRecord /\ r.pc = k.pc /\ r.error = k.error /\ r.job = k.job /\ r.saved = k.saved
      /\ r.failed = k.failed /\ r.access = k.access /\ r.writes = Tail(k.writes)
      /\ r.unsaved = k.unsaved \ {Head(k.writes)}
  BY <1>3, <1>4 DEF ClientRecord
<1> HIDE DEF r, k
<1>6. ChainInv(r, minted)
  BY <1>1, <1>3, <1>5, TailChain
<1>7. HasTokens /\ k.pc \notin {"free", "exchanged"} /\ ~(k.pc = "done" /\ k.job \in Awaiting)
  BY <1>1, <1>3 DEF StageInv
<1>8. StageInv(r, TRUE)
  BY <1>3, <1>5, <1>7 DEF StageInv
<1>9. row' \in [refresh : Nat, access : Nat] /\ row'.access = Head(k.writes) /\ row'.refresh = row.refresh
      /\ kept' = kept
  BY <1>1, <1>3, <1>4
<1>10. RowInv' /\ HasTokens'
  <2>1. row.refresh # NoToken /\ row.refresh = kept
    BY <1>3, <1>7, HasRefresh DEF RowInv, TokensInv
  <2> QED  BY <1>9, <2>1 DEF RowInv, HasTokens, NoTokens
<1>11. minted' = minted /\ minted' \in Nat /\ minted <= minted' /\ grants' \in Nat /\ revoked' \in Nat
       /\ kept' \in Nat
  BY <1>1, ClientFacts DEF google
<1>12. ASSUME r.writes = <<>> PROVE row'.access = r.access
  <2>1. Len(k.writes) = 1
    <3>1. Len(r.writes) = 0
      BY <1>12
    <3> QED  BY <1>1, <1>3, <1>5, <3>1, TailFacts
  <2>2. Head(k.writes) = k.access
    BY <1>1, <1>3, <2>1, TailFacts DEF ChainInv
  <2> QED  BY <1>5, <1>9, <2>2
<1>13. ChainInv(r, minted') /\ StageInv(r, HasTokens')
  BY <1>6, <1>8, <1>10, <1>11
<1>14. r.pc \notin {"free", "exchanged"}
  BY <1>5, <1>7
<1> QED  BY <1>1, <1>2, <1>5, <1>9, <1>10, <1>11, <1>12, <1>13, <1>14, OneClient

LEMMA TokenWriteFailsInv ==
  ASSUME TokensInv, NEW c \in Client, TokenWriteFails(c)
  PROVE  TokensInv'
<1> DEFINE k == client[c]
           r == [client[c] EXCEPT !.writes = Tail(@), !.failed = TRUE]
<1>1. k.writes # <<>> /\ UNCHANGED <<row, google, kept>> /\ lastBy' \subseteq lastBy
  BY DEF TokenWriteFails
<1>2. client' = [client EXCEPT ![c] = r]
  BY ClientFacts DEF TokenWriteFails
<1>3. k \in ClientRecord /\ ChainInv(k, minted) /\ StageInv(k, HasTokens) /\ minted \in Nat
  BY ClientFacts
<1>4. Tail(k.writes) \in Seq(Nat) /\ Head(k.writes) = k.writes[1] /\ 1 \in 1..Len(k.writes)
  BY <1>1, <1>3, TailFacts
<1>5. /\ r \in ClientRecord /\ r.pc = k.pc /\ r.error = k.error /\ r.job = k.job /\ r.saved = k.saved
      /\ r.failed = TRUE /\ r.access = k.access /\ r.writes = Tail(k.writes)
      /\ r.unsaved = k.unsaved
  BY <1>3, <1>4 DEF ClientRecord
<1> HIDE DEF r, k
<1>6. ChainInv(r, minted)
  BY <1>1, <1>3, <1>5, TailChain
<1>7. HasTokens /\ k.pc \notin {"free", "exchanged"} /\ ~(k.pc = "done" /\ k.job \in Awaiting)
  BY <1>1, <1>3 DEF StageInv
<1>8. StageInv(r, HasTokens)
  BY <1>3, <1>5, <1>7 DEF StageInv
<1>9. r.unsaved # {} /\ r.pc \notin {"free", "exchanged"}
  BY <1>3, <1>4, <1>5, <1>7 DEF ChainInv
<1> QED  BY <1>1, <1>2, <1>5, <1>6, <1>8, <1>9, SameRow

(* A step that moves a client on and leaves what it holds.                  *)
LEMMA StageStep ==
  ASSUME TokensInv, NEW c \in Client, NEW r \in ClientRecord,
         client' = [client EXCEPT ![c] = r], UNCHANGED <<row, google, kept, lastBy>>,
         r.writes = client[c].writes, r.unsaved = client[c].unsaved,
         r.failed = client[c].failed, r.access = client[c].access,
         r.pc \notin {"free", "exchanged"}, StageInv(r, HasTokens)
  PROVE  TokensInv'
<1>1. ChainInv(r, minted)
  BY ClientFacts, SameChain
<1>2. c \in lastBy' /\ r.writes = <<>> /\ r.unsaved = {} => row.access = r.access
  BY ClientFacts DEF Newest
<1> QED  BY <1>1, <1>2, SameRow

LEMMA WorkDoneInv ==
  ASSUME TokensInv, NEW c \in Client, WorkDone(c)
  PROVE  TokensInv'
<1> DEFINE k == client[c]
           r == [client[c] EXCEPT !.pc = "settling"]
<1>1. k.pc = "working" /\ k \in ClientRecord /\ StageInv(k, HasTokens)
      /\ UNCHANGED <<row, google, kept, lastBy>> /\ client' = [client EXCEPT ![c] = r]
  BY ClientFacts DEF WorkDone
<1>2. /\ r \in ClientRecord /\ r.pc = "settling" /\ r.job = k.job /\ r.error = k.error /\ r.saved = k.saved
      /\ r.writes = k.writes /\ r.unsaved = k.unsaved /\ r.failed = k.failed /\ r.access = k.access
  BY <1>1 DEF ClientRecord
<1>3. StageInv(r, HasTokens)
  BY <1>1, <1>2 DEF StageInv
<1> HIDE DEF r
<1> QED  BY <1>1, <1>2, <1>3, StageStep

(* What the work of a client throws is no failure of a token exchange.      *)
LEMMA ThrownFacts ==
  ASSUME NEW k \in ClientRecord, NEW e \in Thrown(k)
  PROVE  e \in {"AUTH_REVOKED", "SETUP", "RATE_LIMITED", "OTHER"} /\ e \in Error
BY DEF Thrown, Error

LEMMA WorkThrowsInv ==
  ASSUME TokensInv, NEW c \in Client, WorkThrows(c)
  PROVE  TokensInv'
<1> DEFINE k == client[c]
<1>1. k.pc = "working" /\ k \in ClientRecord /\ StageInv(k, HasTokens)
      /\ UNCHANGED <<row, google, kept, lastBy>>
  BY ClientFacts DEF WorkThrows
<1>2. PICK e \in Thrown(k) :
        client' = [client EXCEPT ![c].error = e,
                                 ![c].pc = IF client[c].job \in Quiet THEN "settling" ELSE "failed"]
  BY DEF WorkThrows
<1> DEFINE r == [client[c] EXCEPT !.error = e, !.pc = IF client[c].job \in Quiet THEN "settling" ELSE "failed"]
<1>3. client' = [client EXCEPT ![c] = r]
  BY <1>2, ClientFacts
<1>4. e \in {"AUTH_REVOKED", "SETUP", "RATE_LIMITED", "OTHER"} /\ e \in Error
  BY <1>1, ThrownFacts
<1>5. /\ r \in ClientRecord /\ r.pc \in {"settling", "failed"} /\ r.job = k.job /\ r.error = e
      /\ r.saved = k.saved /\ r.writes = k.writes /\ r.unsaved = k.unsaved /\ r.failed = k.failed
      /\ r.access = k.access
  BY <1>1, <1>4 DEF ClientRecord
<1>6. StageInv(r, HasTokens)
  BY <1>1, <1>4, <1>5 DEF StageInv
<1> HIDE DEF r
<1> QED  BY <1>1, <1>3, <1>5, <1>6, StageStep

LEMMA SettledInv ==
  ASSUME TokensInv, NEW c \in Client, Settled(c)
  PROVE  TokensInv'
<1> DEFINE k == client[c]
           throws == k.failed /\ k.job \notin Quiet
           r == [client[c] EXCEPT !.pc = IF throws \/ k.error # "none" THEN "failed" ELSE "done",
                                  !.error = IF throws /\ @ = "none" THEN "OTHER" ELSE @]
<1>1. k.pc = "settling" /\ k.writes = <<>> /\ k \in ClientRecord /\ StageInv(k, HasTokens)
      /\ UNCHANGED <<row, google, kept, lastBy>>
  BY ClientFacts DEF Settled
<1>2. client' = [client EXCEPT ![c] = r]
  BY ClientFacts DEF Settled
<1>3. /\ r \in ClientRecord /\ r.job = k.job /\ r.saved = k.saved /\ r.writes = k.writes
      /\ r.unsaved = k.unsaved /\ r.failed = k.failed /\ r.access = k.access
      /\ r.pc = (IF throws \/ k.error # "none" THEN "failed" ELSE "done")
      /\ r.error = (IF throws /\ k.error = "none" THEN "OTHER" ELSE k.error)
  BY <1>1 DEF ClientRecord, Error
<1>4. r.pc = "done" => r.error = "none" /\ (r.job \in Awaiting => ~r.failed)
  BY <1>1, <1>3 DEF Awaiting, Quiet, ClientRecord
<1>5. StageInv(r, HasTokens)
  <2>1. r.pc \in {"done", "failed"} /\ (r.pc = "failed" => r.error # "none")
        /\ (r.error = k.error \/ r.error = "OTHER")
    BY <1>3
  <2> HIDE DEF r, throws
  <2> QED  BY <1>1, <1>3, <1>4, <2>1 DEF StageInv
<1>6. r.pc \in {"done", "failed"}
  BY <1>3
<1> HIDE DEF r
<1> QED  BY <1>1, <1>2, <1>3, <1>5, <1>6, StageStep

LEMMA ConnectInv ==
  ASSUME TokensInv, NEW c \in Client, Connect(c)
  PROVE  TokensInv'
<1>1. PICK job \in {"sync", "refresh", "request"} : AuthorizedClient(c, job, FALSE)
  BY DEF Connect
<1>2. job \in Awaiting \cup Quiet /\ job # "signIn" /\ job # "backfill"
  BY DEF Awaiting, Quiet
<1> QED  BY <1>1, <1>2, AuthorizedClientInv

LEMMA StartBackfillInv ==
  ASSUME TokensInv, NEW c \in Client, StartBackfill(c)
  PROVE  TokensInv'
<1>1. client[c].saved = TRUE
  BY ClientFacts DEF StartBackfill, StageInv, ClientRecord
<1>2. "backfill" \in Awaiting \cup Quiet
  BY DEF Quiet
<1> QED  BY <1>1, <1>2, AuthorizedClientInv DEF StartBackfill

LEMMA ClientStepInv ==
  ASSUME TokensInv, NEW c \in Client, ClientStep(c)
  PROVE  TokensInv'
BY ConnectInv, RefreshInv, TokenWriteInv, TokenWriteFailsInv, WorkDoneInv, WorkThrowsInv, SettledInv,
   UpsertUserTokensInv, UpsertRefusedInv DEF ClientStep

LEMMA TokensInitInv == TokensInit => TokensInv
<1> SUFFICES ASSUME TokensInit PROVE TokensInv
  OBVIOUS
<1>1. TokensTypeOK
  BY FreeType DEF TokensInit, TokensTypeOK, NoTokens, NoToken
<1>2. RowInv
  BY DEF TokensInit, RowInv, NoTokens, NoToken
<1>3. ASSUME NEW c \in Client
      PROVE  /\ ChainInv(client[c], minted) /\ StageInv(client[c], HasTokens)
             /\ c \notin lastBy
  <2>1. client[c] = Free /\ minted \in Nat
    BY DEF TokensInit
  <2>2. ChainInv(Free, minted)
    BY <2>1, FreeType, NoWrites DEF Free
  <2>3. StageInv(Free, HasTokens)
    BY DEF Free, StageInv, Awaiting
  <2> QED  BY <2>1, <2>2, <2>3 DEF TokensInit
<1> QED  BY <1>1, <1>2, <1>3 DEF TokensInv, Newest

-----------------------------------------------------------------------------
(* The browser's side: the cookie, and what each slot serves.               *)

(* A slot is freed, and no longer serves a callback.                        *)
LEMMA FreedStep ==
  ASSUME SignInInv, NEW c \in Client, Ends(c),
         serving' = [serving EXCEPT ![c] = NoState], started' = started,
         cookie' \in {cookie, NoState}, answered' \in {answered, answered \cup {serving[c]}},
         answered' # answered => serving[c] # NoState /\ cookie' = NoState
  PROVE  BrowserInv'
<1>1. /\ client \in [Client -> ClientRecord] /\ serving \in [Client -> Nat] /\ started \in Nat
      /\ client'[c] = Free /\ serving'[c] = NoState
      /\ \A d \in Client : d # c => client'[d] = client[d] /\ serving'[d] = serving[d]
  BY DEF SignInInv, SignInTypeOK, TokensTypeOK, Ends
<1>2. \A d \in Client : /\ serving'[d] \in 0..started'
                        /\ client'[d].pc = "free" => serving'[d] = NoState
                        /\ serving'[d] # NoState => client'[d].job \in {"signIn", "backfill"}
  BY <1>1 DEF SignInInv, BrowserInv, NoState
<1>3. cookie' \in 0..started' /\ answered' \subseteq 1..started' /\ cookie' \notin answered'
  BY <1>1 DEF SignInInv, BrowserInv, NoState
<1> QED  BY <1>2, <1>3 DEF BrowserInv

(* The steps a client takes for itself leave it busy, and at its job.       *)
LEMMA ClientStepBrowser ==
  ASSUME SignInInv, NEW c \in Client, ClientStep(c), UNCHANGED browserVars
  PROVE  BrowserInv'
<1>1. /\ client \in [Client -> ClientRecord] /\ client[c] \in ClientRecord /\ StageInv(client[c], HasTokens)
      /\ (client[c].pc = "free" => serving[c] = NoState)
  BY ClientFacts DEF SignInInv, BrowserInv
<1>2. \A d \in Client : d # c => client'[d] = client[d]
  BY <1>1 DEF ClientStep, Connect, AuthorizedClient, Refresh, TokenWrite, TokenWriteFails, WorkDone,
              WorkThrows, Settled, UpsertUserTokens, UpsertRefused
<1>3. CASE Connect(c)
  <2>1. serving[c] = NoState
    BY <1>1, <1>3 DEF Connect
  <2> QED  BY <1>2, <2>1 DEF SignInInv, BrowserInv, browserVars
<1>4. CASE \/ Refresh(c) \/ TokenWrite(c) \/ TokenWriteFails(c) \/ WorkDone(c) \/ WorkThrows(c)
           \/ Settled(c) \/ UpsertUserTokens(c) \/ UpsertRefused(c)
  <2>1. client[c].pc # "free"
    BY <1>1, <1>4 DEF StageInv, Refresh, Calling, TokenWrite, TokenWriteFails, WorkDone, WorkThrows,
                      Settled, UpsertUserTokens, UpsertRefused
  <2>2. client'[c].pc # "free" /\ client'[c].job = client[c].job
    <3>1. CASE Refresh(c)
      BY <1>1, <2>1, <3>1 DEF Refresh, ClientRecord
    <3>2. CASE TokenWrite(c)
      BY <1>1, <2>1, <3>2 DEF TokenWrite, ClientRecord
    <3>3. CASE TokenWriteFails(c)
      BY <1>1, <2>1, <3>3 DEF TokenWriteFails, ClientRecord
    <3>4. CASE WorkDone(c)
      BY <1>1, <2>1, <3>4 DEF WorkDone, ClientRecord
    <3>5. CASE WorkThrows(c)
      BY <1>1, <2>1, <3>5 DEF WorkThrows, ClientRecord
    <3>6. CASE Settled(c)
      BY <1>1, <2>1, <3>6 DEF Settled, ClientRecord
    <3>7. CASE UpsertUserTokens(c)
      BY <1>1, <2>1, <3>7 DEF UpsertUserTokens, ClientRecord
    <3>8. CASE UpsertRefused(c)
      BY <1>1, <2>1, <3>8 DEF UpsertRefused, ClientRecord
    <3> QED  BY <1>4, <3>1, <3>2, <3>3, <3>4, <3>5, <3>6, <3>7, <3>8
  <2> QED  BY <1>2, <2>1, <2>2 DEF SignInInv, BrowserInv, browserVars
<1> QED  BY <1>3, <1>4 DEF ClientStep

LEMMA CallbackBrowser ==
  ASSUME SignInInv, NEW c \in Client, NEW s \in 1..started, Callback(c, s)
  PROVE  BrowserInv'
<1>1. /\ client \in [Client -> ClientRecord] /\ serving \in [Client -> Nat] /\ started \in Nat
      /\ client[c].pc = "free"
  BY DEF SignInInv, SignInTypeOK, TokensTypeOK, Callback
<1>2. /\ client'[c].pc \in {"exchanged", "failed"} /\ client'[c].job = "signIn"
      /\ \A d \in Client : d # c => client'[d] = client[d]
  <2>1. CASE Exchange(c)
    BY <1>1, <2>1 DEF Exchange, Free
  <2>2. CASE ExchangeThrows(c, s)
    BY <1>1, <2>2 DEF ExchangeThrows, Free
  <2> QED  BY <2>1, <2>2 DEF Callback
<1>3. serving'[c] = s /\ \A d \in Client : d # c => serving'[d] = serving[d]
  BY <1>1 DEF Callback
<1> QED  BY <1>1, <1>2, <1>3 DEF Callback, SignInInv, BrowserInv

LEMMA StartBackfillBrowser ==
  ASSUME SignInInv, NEW c \in Client, StartBackfill(c)
  PROVE  BrowserInv'
<1>1. client \in [Client -> ClientRecord]
  BY DEF SignInInv, SignInTypeOK, TokensTypeOK
<1>2. client'[c].pc = "working" /\ client'[c].job = "backfill"
      /\ \A d \in Client : d # c => client'[d] = client[d]
  BY <1>1 DEF StartBackfill, AuthorizedClient, Free
<1> QED  BY <1>2 DEF StartBackfill, SignInInv, BrowserInv, browserVars

LEMMA SignInInitInv == SignInInit => SignInInv
<1> SUFFICES ASSUME SignInInit PROVE SignInInv
  OBVIOUS
<1>1. TokensInv
  BY TokensInitInv DEF SignInInit
<1>2. SignInTypeOK
  BY <1>1 DEF TokensInv, SignInInit, SignInTypeOK, NoState
<1>3. BrowserInv
  BY DEF SignInInit, BrowserInv, NoState
<1> QED  BY <1>1, <1>2, <1>3 DEF SignInInv

LEMMA StutterInv ==
  ASSUME TokensInv, UNCHANGED tokenVars
  PROVE  TokensInv'
BY DEF TokensInv, TokensTypeOK, RowInv, HasTokens, Newest, tokenVars, google

(* Every step keeps the invariant.                                          *)
LEMMA SignInNextInv ==
  ASSUME SignInInv, [SignInNext]_signInVars
  PROVE  SignInInv'
<1>0. TokensInv /\ SignInTypeOK /\ BrowserInv
  BY DEF SignInInv
<1>1. CASE AccessRevoked /\ UNCHANGED browserVars
  <2>1. TokensInv'
    BY <1>0, <1>1, AccessRevokedInv
  <2>2. SignInTypeOK' /\ BrowserInv'
    BY <1>0, <1>1, <2>1 DEF TokensInv, SignInTypeOK, BrowserInv, browserVars, AccessRevoked
  <2> QED  BY <2>1, <2>2 DEF SignInInv
<1>2. CASE AuthStart
  <2>1. TokensInv'
    BY <1>0, <1>2, StutterInv DEF AuthStart
  <2>2. SignInTypeOK'
    BY <1>0, <1>2, <2>1 DEF TokensInv, SignInTypeOK, AuthStart
  <2>3. BrowserInv'
    BY <1>0, <1>2 DEF SignInTypeOK, BrowserInv, AuthStart, tokenVars
  <2> QED  BY <2>1, <2>2, <2>3 DEF SignInInv
<1>3. CASE CookieExpires
  <2>1. TokensInv'
    BY <1>0, <1>3, StutterInv DEF CookieExpires
  <2>2. SignInTypeOK' /\ BrowserInv'
    BY <1>0, <1>3, <2>1 DEF TokensInv, SignInTypeOK, BrowserInv, CookieExpires, NoState, tokenVars
  <2> QED  BY <2>1, <2>2 DEF SignInInv
<1>4. ASSUME NEW s \in 1..started, CallbackRefused(s)
      PROVE  SignInInv'
  <2>1. TokensInv'
    BY <1>0, <1>4, StutterInv DEF CallbackRefused
  <2>2. SignInTypeOK' /\ BrowserInv'
    BY <1>0, <1>4, <2>1 DEF TokensInv, SignInTypeOK, BrowserInv, CallbackRefused, NoState, tokenVars
  <2> QED  BY <2>1, <2>2 DEF SignInInv
<1>5. ASSUME NEW c \in Client, ClientStep(c), UNCHANGED browserVars
      PROVE  SignInInv'
  <2>1. TokensInv'
    BY <1>0, <1>5, ClientStepInv
  <2>2. SignInTypeOK'
    BY <1>0, <1>5, <2>1 DEF TokensInv, SignInTypeOK, browserVars
  <2>3. BrowserInv'
    BY <1>5, ClientStepBrowser
  <2> QED  BY <2>1, <2>2, <2>3 DEF SignInInv
<1>6. ASSUME NEW c \in Client, NEW s \in 1..started, Callback(c, s)
      PROVE  SignInInv'
  <2>1. TokensInv'
    BY <1>0, <1>6, ExchangeInv, ExchangeThrowsInv DEF Callback
  <2>2. SignInTypeOK'
    BY <1>0, <1>6, <2>1 DEF TokensInv, SignInTypeOK, Callback
  <2>3. BrowserInv'
    BY <1>6, CallbackBrowser
  <2> QED  BY <2>1, <2>2, <2>3 DEF SignInInv
<1>7. ASSUME NEW c \in Client, StartBackfill(c)
      PROVE  SignInInv'
  <2>1. TokensInv'
    BY <1>0, <1>7, StartBackfillInv
  <2>2. SignInTypeOK'
    BY <1>0, <1>7, <2>1 DEF TokensInv, SignInTypeOK, StartBackfill, browserVars
  <2>3. BrowserInv'
    BY <1>7, StartBackfillBrowser
  <2> QED  BY <2>1, <2>2, <2>3 DEF SignInInv
<1>8. ASSUME NEW c \in Client, CallbackAnswers(c)
      PROVE  SignInInv'
  <2>1. TokensInv'
    BY <1>0, <1>8, EndsInv DEF CallbackAnswers
  <2>2. SignInTypeOK'
    BY <1>0, <1>8, <2>1 DEF TokensInv, SignInTypeOK, CallbackAnswers, NoState
  <2>3. BrowserInv'
    BY <1>8, FreedStep DEF CallbackAnswers, Answering
  <2> QED  BY <2>1, <2>2, <2>3 DEF SignInInv
<1>9. ASSUME NEW c \in Client, InvocationEnds(c)
      PROVE  SignInInv'
  <2>1. TokensInv'
    BY <1>0, <1>9, EndsInv DEF InvocationEnds
  <2>2. SignInTypeOK'
    BY <1>0, <1>9, <2>1 DEF TokensInv, SignInTypeOK, InvocationEnds, NoState
  <2>3. BrowserInv'
    BY <1>9, FreedStep DEF InvocationEnds
  <2> QED  BY <2>1, <2>2, <2>3 DEF SignInInv
<1>10. CASE UNCHANGED signInVars
  <2>1. TokensInv'
    BY <1>0, <1>10, StutterInv DEF signInVars
  <2>2. SignInTypeOK' /\ BrowserInv'
    BY <1>0, <1>10, <2>1 DEF TokensInv, SignInTypeOK, BrowserInv, signInVars, browserVars, tokenVars
  <2> QED  BY <2>1, <2>2 DEF SignInInv
<1> QED  BY <1>1, <1>2, <1>3, <1>4, <1>5, <1>6, <1>7, <1>8, <1>9, <1>10 DEF SignInNext

-----------------------------------------------------------------------------
(* The invariant behind all that follows: unfinished writes are the client's *)
(* newest tokens in order, the stage a sign-in has reached tells what is     *)
(* stored, and the cookie holds no state that was answered.                  *)
THEOREM SignInInvariant == SignInSpec => []SignInInv
<1>1. SignInInit => SignInInv
  BY SignInInitInv
<1>2. SignInInv /\ [SignInNext]_signInVars => SignInInv'
  BY SignInNextInv
<1> QED  BY <1>1, <1>2, PTL DEF SignInSpec

(* Every variable of sign-in and token persistence keeps its type.           *)
THEOREM SignInTypeCorrect == SignInSpec => []SignInTypeOK
<1>1. SignInInv => SignInTypeOK
  BY DEF SignInInv
<1> QED  BY <1>1, SignInInvariant, PTL

(* The row keeps the refresh token of the last sign-in that brought one,     *)
(* whatever clients of earlier ones write (tokenColumns).                    *)
THEOREM ConsentIsKept == SignInSpec => []ConsentKept
<1>1. SignInInv => ConsentKept
  BY HasRefresh DEF SignInInv, TokensInv, RowInv, ConsentKept
<1> QED  BY <1>1, SignInInvariant, PTL

(* Who awaits settled() and succeeds has stored every token it was given.    *)
THEOREM SettledStored == SignInSpec => []SettledIsStored
<1>1. ASSUME SignInInv, NEW c \in Client, client[c].pc = "done", client[c].job \in Awaiting
      PROVE  client[c].unsaved = {}
  <2>1. /\ ChainInv(client[c], minted) /\ StageInv(client[c], HasTokens)
        /\ client[c] \in ClientRecord
    BY <1>1, ClientFacts DEF SignInInv
  <2>2. client[c].writes = <<>> /\ ~client[c].failed
    BY <1>1, <2>1 DEF StageInv
  <2>3. 1..Len(client[c].writes) = {}
    BY <2>2
  <2> QED  BY <2>1, <2>2, <2>3 DEF ChainInv
<1>2. SignInInv => SettledIsStored
  BY <1>1 DEF SettledIsStored
<1> QED  BY <1>2, SignInInvariant, PTL

(* Within a client an older token never ends over a newer one in the row.    *)
THEOREM LastWriteNewest == SignInSpec => []LastWriteIsNewest
<1>1. SignInInv => LastWriteIsNewest
  BY DEF SignInInv, TokensInv, LastWriteIsNewest
<1> QED  BY <1>1, SignInInvariant, PTL

(* The answer of a callback fits what the sign-in has stored.                *)
THEOREM AnswersFit == SignInSpec => []AnswerFits
<1>1. ASSUME SignInInv, NEW c \in Client, Answering(c)
      PROVE  /\ Told(c) \in {"302 redirect", "502 PROVIDER_ERROR"} => client[c].saved
             /\ Told(c) \in {"400 AUTH_FAILED", "502 AUTH_FAILED"} => ~client[c].saved
  <2>1. /\ client[c] \in ClientRecord /\ StageInv(client[c], HasTokens)
        /\ client[c].job \in {"signIn", "backfill"}
    BY <1>1, ClientFacts DEF SignInInv, BrowserInv, Answering
  <2>2. CASE client[c].error = "none"
    <3>1. Told(c) = "302 redirect" /\ client[c].saved
      BY <1>1, <2>1, <2>2 DEF Told, Answering, StageInv
    <3> QED  BY <3>1
  <2>3. CASE client[c].error # "none"
    <3>1. Told(c) = ErrorResponse(client[c].error) /\ client[c].error \in Error
      BY <2>1, <2>3 DEF Told, ClientRecord
    <3>2. CASE client[c].error = "SETUP"
      <4>1. Told(c) = "502 PROVIDER_ERROR" /\ client[c].saved
        BY <2>1, <3>1, <3>2 DEF ErrorResponse, StageInv
      <4> QED  BY <4>1
    <3>3. CASE client[c].error \in {"AUTH_CODE_INVALID", "AUTH_SCOPE_MISSING", "UPSTREAM", "MISSING_REFRESH"}
      <4>1. Told(c) \in {"400 AUTH_FAILED", "502 AUTH_FAILED"} /\ ~client[c].saved
        BY <2>1, <3>1, <3>3 DEF ErrorResponse, StageInv
      <4> QED  BY <4>1
    <3>4. CASE client[c].error \in {"AUTH_REVOKED", "RATE_LIMITED", "OTHER"}
      <4>1. Told(c) \in {"401 AUTH_FAILED", "429 RATE_LIMITED", "500 INTERNAL_ERROR"}
        BY <3>1, <3>4 DEF ErrorResponse
      <4> QED  BY <4>1
    <3> QED  BY <2>3, <3>1, <3>2, <3>3, <3>4 DEF Error
  <2> QED  BY <2>2, <2>3
<1>2. SignInInv => AnswerFits
  BY <1>1 DEF AnswerFits
<1> QED  BY <1>2, SignInInvariant, PTL

(* No callback gets past the state check with a state already answered.      *)
THEOREM AnsweredStateIsSpent == SignInSpec => StateSpentByAnswer
<1>1. ASSUME SignInInv, [SignInNext]_signInVars, NEW c \in Client,
             serving[c] = NoState, serving'[c] # NoState
      PROVE  serving'[c] \notin answered
  <2>1. serving \in [Client -> Nat] /\ cookie \notin answered
    BY <1>1 DEF SignInInv, SignInTypeOK, BrowserInv
  <2>2. PICK d \in Client : \E s \in 1..started : Callback(d, s)
    BY <1>1, <2>1 DEF SignInNext, signInVars, browserVars, AuthStart, CookieExpires, CallbackRefused,
                      StartBackfill, CallbackAnswers, InvocationEnds
  <2>3. PICK s \in 1..started : cookie = s /\ serving' = [serving EXCEPT ![d] = s]
    BY <2>2 DEF Callback
  <2>4. serving'[c] = s
    BY <1>1, <2>1, <2>3
  <2> QED  BY <2>1, <2>3, <2>4
<1>2. SignInInv /\ [SignInNext]_signInVars =>
        [\A c \in Client : serving[c] = NoState /\ serving'[c] # NoState => serving'[c] \notin answered]_signInVars
  BY <1>1
<1> QED  BY <1>2, SignInInvariant, PTL DEF SignInSpec, StateSpentByAnswer

=============================================================================
