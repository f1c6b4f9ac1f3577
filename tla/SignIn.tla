------------------------------- MODULE SignIn -------------------------------
(***************************************************************************)
(* Signing in with Google, from the button to the redirect: the state      *)
(* cookie, the callback, the tokens, the watch, the backfill and what the  *)
(* browser is told (src/http/handlers.ts, cookies.ts, responses.ts,        *)
(* src/providers/gmail/auth.ts), next to other clients of the same user.   *)
(***************************************************************************)
EXTENDS TokenPersistence, FiniteSets

CONSTANT MaxStarts \* bound on the sign-ins started

ASSUME StartsAssumption == MaxStarts \in Nat

VARIABLES
    started, \* how many sign-ins the browser has started; each has its state
    cookie,  \* the state in the browser's oauth_state cookie
    spent,   \* states whose authorization code was exchanged
    serving, \* the state a callback in a client's slot came with
    answered \* history: states the browser has had the answer of a callback for

browserVars == <<started, cookie, spent, serving, answered>>
signInVars == <<tokenVars, browserVars>>

NoState == 0

SignInInit ==
    /\ TokensInit
    /\ started = 0
    /\ cookie = NoState
    /\ spent = {}
    /\ serving = [c \in Client |-> NoState]
    /\ answered = {}

-----------------------------------------------------------------------------
(* authStartHandler: a new random state, in the URL and in the cookie.     *)
AuthStart ==
    /\ started < MaxStarts
    /\ started' = started + 1
    /\ cookie' = started + 1
    /\ UNCHANGED <<tokenVars, spent, serving, answered>>

CookieExpires ==
    /\ cookie # NoState
    /\ cookie' = NoState
    /\ UNCHANGED <<tokenVars, started, spent, serving, answered>>

(* Mutant: a failed setup is reported like a failed token exchange.        *)
ErrorResponseOfExchange(err) ==
    CASE err \in {"AUTH_CODE_INVALID", "AUTH_SCOPE_MISSING", "MISSING_REFRESH"} -> "400 AUTH_FAILED"
      [] err = "AUTH_REVOKED"  -> "401 AUTH_FAILED"
      [] err \in {"UPSTREAM", "SETUP"} -> "502 AUTH_FAILED"
      [] err = "RATE_LIMITED"  -> "429 RATE_LIMITED"
      [] OTHER                 -> "500 INTERNAL_ERROR"

(***************************************************************************)
(* toErrorResponse, after what authCallbackHandler makes of an error of    *)
(* completeAuthorization: there UPSTREAM can only be the token exchange.   *)
(***************************************************************************)
ErrorResponse(err) ==
    CASE err \in {"AUTH_CODE_INVALID", "AUTH_SCOPE_MISSING", "MISSING_REFRESH"} -> "400 AUTH_FAILED"
      [] err = "AUTH_REVOKED"  -> "401 AUTH_FAILED"
      [] err = "UPSTREAM"      -> "502 AUTH_FAILED"
      [] err = "SETUP"         -> "502 PROVIDER_ERROR"
      [] err = "RATE_LIMITED"  -> "429 RATE_LIMITED"
      [] OTHER                 -> "500 INTERNAL_ERROR"

(* The user declined, or the state is not the cookie's: the answer clears  *)
(* the cookie, and nothing else happens.                                   *)
CallbackRefused(s) ==
    /\ cookie' = NoState
    /\ answered' = answered \cup {s}
    /\ UNCHANGED <<tokenVars, started, spent, serving>>

(* exchangeCode throws before anything is stored.                          *)
ExchangeThrows(c, s) ==
    /\ \E e \in {"AUTH_CODE_INVALID", "AUTH_SCOPE_MISSING", "RATE_LIMITED", "UPSTREAM"} :
        /\ e = "AUTH_CODE_INVALID" \/ (Faults /\ s \notin spent)
        /\ client' = [client EXCEPT ![c] = [Free EXCEPT !.pc = "failed", !.job = "signIn", !.error = e]]
    /\ UNCHANGED <<row, google, kept, lastBy>>

(* The callback: the browser may come back, or reload, at any time.        *)
Callback(c, s) ==
    /\ client[c].pc = "free"
    /\ cookie = s
    /\ \/ s \notin spent /\ Exchange(c)
       \/ ExchangeThrows(c, s)
    /\ spent' = spent \cup {s}
    /\ serving' = [serving EXCEPT ![c] = s]
    /\ UNCHANGED <<started, cookie, answered>>

(* §6.2 step 4: a client of its own, over the tokens as they are stored.   *)
StartBackfill(c) ==
    /\ client[c].pc = "done" /\ client[c].job = "signIn"
    /\ AuthorizedClient(c, "backfill", client[c].saved)
    /\ UNCHANGED browserVars

(* What the callback tells the browser, once it knows.                     *)
Answering(c) ==
    /\ serving[c] # NoState
    /\ client[c].pc = "failed" \/ (client[c].pc = "done" /\ client[c].job = "backfill")

Told(c) == IF client[c].error = "none" THEN "302 redirect" ELSE ErrorResponse(client[c].error)

(* Mutant: only a failure clears the cookie.                               *)
CallbackAnswersKeepingCookie(c) ==
    /\ Answering(c)
    /\ cookie' = IF client[c].error = "none" THEN cookie ELSE NoState
    /\ answered' = answered \cup {serving[c]}
    /\ serving' = [serving EXCEPT ![c] = NoState]
    /\ Ends(c)
    /\ UNCHANGED <<started, spent>>

(* Every answer clears the cookie, whichever sign-in set it.               *)
CallbackAnswers(c) ==
    /\ Answering(c)
    /\ cookie' = NoState
    /\ answered' = answered \cup {serving[c]}
    /\ serving' = [serving EXCEPT ![c] = NoState]
    /\ Ends(c)
    /\ UNCHANGED <<started, spent>>

(* Other invocations end when they are done; any may be stopped.           *)
InvocationEnds(c) ==
    /\ client[c].pc # "free"
    /\ Faults \/ (serving[c] = NoState /\ client[c].pc \in {"done", "failed"})
    /\ Ends(c)
    /\ serving' = [serving EXCEPT ![c] = NoState]
    /\ UNCHANGED <<started, cookie, spent, answered>>

SignInNext ==
    \/ AccessRevoked /\ UNCHANGED browserVars
    \/ AuthStart
    \/ CookieExpires
    \/ \E s \in 1..started : CallbackRefused(s)
    \/ \E c \in Client :
        \/ ClientStep(c) /\ UNCHANGED browserVars
        \/ \E s \in 1..started : Callback(c, s)
        \/ StartBackfill(c)
        \/ CallbackAnswers(c)
        \/ InvocationEnds(c)

SignInSpec == SignInInit /\ [][SignInNext]_signInVars

-----------------------------------------------------------------------------
SignInTypeOK ==
    /\ TokensTypeOK
    /\ started \in Nat
    /\ cookie \in Nat
    /\ spent \subseteq Nat
    /\ serving \in [Client -> Nat]
    /\ answered \subseteq Nat

(***************************************************************************)
(* The answer tells what to do next, so it must fit what was stored        *)
(* (CONTRACT.md 6.2): "tokens were saved" (502 PROVIDER_ERROR) and the     *)
(* redirect only if they were; a bad code, a missing scope or a failed     *)
(* token exchange (400, 502 AUTH_FAILED) only if nothing was.              *)
(***************************************************************************)
AnswerFits ==
    \A c \in Client : Answering(c) =>
        /\ Told(c) \in {"302 redirect", "502 PROVIDER_ERROR"} => client[c].saved
        /\ Told(c) \in {"400 AUTH_FAILED", "502 AUTH_FAILED"} => ~client[c].saved

(***************************************************************************)
(* Once the browser has had an answer for a state, no later callback with  *)
(* it gets past the state check: a reload of the callback does nothing.    *)
(***************************************************************************)
StateSpentByAnswer ==
    [][\A c \in Client : serving[c] = NoState /\ serving'[c] # NoState => serving'[c] \notin answered]_signInVars

(* The inductive invariant behind these, with TokensInv: a slot that serves *)
(* a callback is a sign-in's, and the cookie holds no answered state.       *)
BrowserInv ==
    /\ \A c \in Client :
        /\ serving[c] \in 0..started
        /\ client[c].pc = "free" => serving[c] = NoState
        /\ serving[c] # NoState => client[c].job \in {"signIn", "backfill"}
    /\ cookie \in 0..started /\ answered \subseteq 1..started /\ cookie \notin answered

SignInInv == SignInTypeOK /\ TokensInv /\ BrowserInv
=============================================================================
