--------------------------- MODULE ComposeDrafts ----------------------------
(***************************************************************************)
(* The compose drawer and the drafts in localStorage                       *)
(* (src/web/src/components/ComposeDrawer.tsx, InboxShell.tsx,              *)
(* AddressField.tsx, lib/drafts.ts) over the sessions of WebSession: a tab *)
(* has at most one drawer, the tabs share the drafts, and a session that   *)
(* ends takes the drawer with it.                                          *)
(*                                                                         *)
(* Texts are blank or not, and what is half typed in an address field      *)
(* counts as an address wherever fields() is read.                         *)
(***************************************************************************)
EXTENDS WebSession, FiniteSets

CONSTANTS
    Key,      \* the draft keys: the new message and the threads replied to
    Replies,  \* those of Key that are replies
    Written,  \* the contents the user may give a drawer
    MaxSends, \* bound on the sends of a tab under way
    NoDraft, NoDrawer

ASSUME SendsAssumption == MaxSends \in Nat \ {0}
ASSUME RepliesAssumption == Replies \subseteq Key

VARIABLES
    drafts,  \* localStorage: the draft of each key
    drawer,  \* each tab's drawer
    sends,   \* each tab's sends under way
    shared,  \* history: keys two drawers or sends have been at work on at once
    left,    \* history: each key's last drawer, if it was closed or refused
    sent     \* history: keys whose last drawer, or send, was accepted

ends == <<left, sent>>
composeVars == <<drafts, drawer, sends, shared, ends>>
allVars == <<sessionVars, composeVars>>

Blank == ""
Address == {"correspondent", "someone", "invalid"}
Subject == {Blank, "reSubject", "subject"}
Text == {Blank, "text", "moreText"}
Fields == [to : SUBSET Address, copies : SUBSET Address, subject : Subject, bodyText : Text]

(* baseFields: what a drawer starts from without a draft.                  *)
BaseFields(k) ==
    IF k \in Replies
    THEN [to |-> {"correspondent"}, copies |-> {}, subject |-> "reSubject", bodyText |-> Blank]
    ELSE [to |-> {}, copies |-> {}, subject |-> Blank, bodyText |-> Blank]

DrawerRecord ==
    [key : Key, mode : {"base", "draft-restored"},
     initial : Fields, \* the fields it started with
     fields : Fields,
     armed : BOOLEAN,  \* is the autosave timer running?
     sending : BOOLEAN,
     cooldown : BOOLEAN]

(* here: is the drawer that sent it still there?                           *)
SendRecord == [key : Key, fields : Fields, token : Nat, here : BOOLEAN]

ASSUME WrittenAssumption == Written \subseteq Fields
ASSUME NothingAssumption == NoDraft \notin Fields /\ NoDrawer \notin DrawerRecord

ComposeInit ==
    /\ SessionInit
    /\ drafts = [k \in Key |-> NoDraft]
    /\ drawer = [t \in Tab |-> NoDrawer]
    /\ sends = [t \in Tab |-> {}]
    /\ shared = {}
    /\ left = [k \in Key |-> NoDrawer]
    /\ sent = {}

-----------------------------------------------------------------------------
(* persist.                                                                *)

(* Mutant: a reply is kept for its text alone.                             *)
HasContentOfText(d) == d.fields.bodyText # Blank

HasContent(d) ==
    LET f == d.fields IN
    \/ f.bodyText # Blank
    \/ f.copies # {}
    \/ d.key \notin Replies /\ f.to # {}
    \/ IF d.key \in Replies THEN f.subject # d.initial.subject ELSE f.subject # Blank

Persist(d) == drafts' = [drafts EXCEPT ![d.key] = IF HasContent(d) THEN d.fields ELSE NoDraft]

-----------------------------------------------------------------------------
(* What the user does in a drawer.                                         *)

Started(k, mode, fields) ==
    [key |-> k, mode |-> mode, initial |-> fields, fields |-> fields,
     armed |-> TRUE, sending |-> FALSE, cooldown |-> FALSE]

Left(d) == [d EXCEPT !.armed = FALSE, !.cooldown = FALSE]

(* openCompose: the saved draft, or the base fields.                       *)
OpenCompose(t, k) ==
    /\ tab[t].page = "inbox"
    /\ drawer[t] = NoDrawer
    /\ drawer' = [drawer EXCEPT ![t] = IF drafts[k] # NoDraft
                                       THEN Started(k, "draft-restored", drafts[k])
                                       ELSE Started(k, "base", BaseFields(k))]
    /\ left' = [left EXCEPT ![k] = NoDrawer]
    /\ sent' = sent \ {k}
    /\ UNCHANGED <<sessionVars, drafts, sends>>

Idle(t) == drawer[t] # NoDrawer /\ ~drawer[t].sending

(* The To of a reply is fixed, and the fieldset is disabled while sending. *)
Edit(t) ==
    /\ Idle(t)
    /\ \E f \in Written :
         /\ f # drawer[t].fields
         /\ drawer[t].key \in Replies => f.to = drawer[t].fields.to
         /\ drawer' = [drawer EXCEPT ![t].fields = f, ![t].armed = TRUE]
    /\ UNCHANGED <<sessionVars, drafts, sends, ends>>

(* A second after the last change.                                         *)
Autosave(t) ==
    /\ Idle(t) /\ drawer[t].armed
    /\ Persist(drawer[t])
    /\ drawer' = [drawer EXCEPT ![t].armed = FALSE]
    /\ UNCHANGED <<sessionVars, sends, ends>>

Close(t) ==
    /\ Idle(t)
    /\ Persist(drawer[t])
    /\ drawer' = [drawer EXCEPT ![t] = NoDrawer]
    /\ left' = [left EXCEPT ![drawer[t].key] = Left(drawer[t])]
    /\ UNCHANGED <<sessionVars, sends, sent>>

DiscardDraft(t) ==
    /\ Idle(t) /\ drawer[t].mode = "draft-restored"
    /\ LET k == drawer[t].key
       IN /\ drafts' = [drafts EXCEPT ![k] = NoDraft]
          /\ drawer' = [drawer EXCEPT ![t] = Started(k, "base", BaseFields(k))]
    /\ UNCHANGED <<sessionVars, sends, ends>>

-----------------------------------------------------------------------------
(* submit.                                                                 *)

Valid(f) ==
    /\ f.to # {}
    /\ "invalid" \notin f.to \cup f.copies
    /\ f.subject # Blank
    /\ f.bodyText # Blank

(* Sending stops the autosave timer.                                       *)
Submit(t) ==
    LET d == drawer[t] IN
    /\ Idle(t) /\ ~d.cooldown
    /\ Valid(d.fields)
    /\ Cardinality(sends[t]) < MaxSends
    /\ sends' = [sends EXCEPT ![t] = @ \cup {[key |-> d.key, fields |-> d.fields,
                                              token |-> IF tab[t].mock THEN NoToken ELSE tab[t].token,
                                              here |-> TRUE]}]
    /\ drawer' = [drawer EXCEPT ![t].sending = TRUE, ![t].armed = FALSE]
    /\ UNCHANGED <<sessionVars, drafts, ends>>

(* What is half typed becomes an address, which is a change: autosave      *)
(* starts over, and that is all.                                           *)
SubmitInvalid(t) ==
    /\ Idle(t) /\ ~drawer[t].cooldown
    /\ ~Valid(drawer[t].fields)
    /\ drawer' = [drawer EXCEPT ![t].armed = TRUE]
    /\ UNCHANGED <<sessionVars, drafts, sends, ends>>

CooldownEnds(t) ==
    /\ Idle(t) /\ drawer[t].cooldown
    /\ drawer' = [drawer EXCEPT ![t].cooldown = FALSE]
    /\ UNCHANGED <<sessionVars, drafts, sends, ends>>

(* Mutant: the draft stays.                                                *)
SendAcceptedKeepingDraft(t, s) ==
    /\ s \in sends[t]
    /\ sends' = [sends EXCEPT ![t] = @ \ {s}]
    /\ drawer' = [drawer EXCEPT ![t] = IF s.here THEN NoDrawer ELSE @]
    /\ left' = [left EXCEPT ![s.key] = NoDrawer]
    /\ sent' = sent \cup {s.key}
    /\ UNCHANGED <<sessionVars, drafts>>

(* 201: the draft is deleted, and the drawer that sent it closes.          *)
SendAccepted(t, s) ==
    /\ s \in sends[t]
    /\ drafts' = [drafts EXCEPT ![s.key] = NoDraft]
    /\ sends' = [sends EXCEPT ![t] = @ \ {s}]
    /\ drawer' = [drawer EXCEPT ![t] = IF s.here THEN NoDrawer ELSE @]
    /\ left' = [left EXCEPT ![s.key] = NoDrawer]
    /\ sent' = sent \cup {s.key}
    /\ UNCHANGED sessionVars

(* Mutant: the drawer goes on sending.                                     *)
SendFailsSending(t, s) ==
    /\ s \in sends[t]
    /\ drafts' = [drafts EXCEPT ![s.key] = s.fields]
    /\ sends' = [sends EXCEPT ![t] = @ \ {s}]
    /\ UNCHANGED <<sessionVars, drawer, ends>>

(* The fields are enabled again, and autosave starts over.                 *)
Resumed(d, limited) == [d EXCEPT !.sending = FALSE, !.armed = TRUE, !.cooldown = limited]

(* Any failure keeps what was sent as the draft, whoever sees it.          *)
SendFails(t, s) ==
    /\ s \in sends[t]
    /\ drafts' = [drafts EXCEPT ![s.key] = s.fields]
    /\ sends' = [sends EXCEPT ![t] = @ \ {s}]
    /\ \E limited \in BOOLEAN :
         drawer' = [drawer EXCEPT ![t] = IF s.here THEN Resumed(@, limited) ELSE @]
    /\ UNCHANGED <<sessionVars, ends>>

(* The shell of a tab goes; its document, and so its requests, stay.       *)
Departed(t) == [sends EXCEPT ![t] = {[s EXCEPT !.here = FALSE] : s \in @}]

(* Mutant: the draft is not saved before the session ends.                 *)
SendRefusedUnsaved(t, s) ==
    /\ s \in sends[t]
    /\ s.token # NoToken
    /\ sends' = [Departed(t) EXCEPT ![t] = @ \ {[s EXCEPT !.here = FALSE]}]
    /\ left' = [left EXCEPT ![s.key] = Left(Started(s.key, "base", s.fields))]
    /\ Expire(t, s.token)
    /\ drawer' = [drawer EXCEPT ![t] = NoDrawer]
    /\ UNCHANGED <<asked, drafts, sent>>

(* AUTH_FAILED: and the session ends, with the drawer.                     *)
SendRefused(t, s) ==
    /\ s \in sends[t]
    /\ s.token # NoToken
    /\ drafts' = [drafts EXCEPT ![s.key] = s.fields]
    /\ sends' = [Departed(t) EXCEPT ![t] = @ \ {[s EXCEPT !.here = FALSE]}]
    /\ left' = [left EXCEPT ![s.key] = Left(Started(s.key, "base", s.fields))]
    /\ Expire(t, s.token)
    /\ drawer' = [drawer EXCEPT ![t] = NoDrawer]
    /\ UNCHANGED <<asked, sent>>

-----------------------------------------------------------------------------
(* What else becomes of a tab: its drawer goes without a last save.        *)

DocumentGoes(t) ==
    /\ Load(t) \/ GoogleReturns(t) \/ Closes(t) \/ SignInWithGoogle(t)
    /\ drawer' = [drawer EXCEPT ![t] = NoDrawer]
    /\ sends' = [sends EXCEPT ![t] = {}]
    /\ UNCHANGED <<drafts, ends>>

ShellGoes(t) ==
    /\ Navigate(t) \/ SignOut(t) \/ AuthFailed(t)
    /\ drawer' = [drawer EXCEPT ![t] = NoDrawer]
    /\ sends' = Departed(t)
    /\ UNCHANGED <<drafts, ends>>

ShellStays(t) ==
    /\ StartSample(t) \/ Ask(t) \/ Answered(t)
    /\ UNCHANGED <<drafts, drawer, sends, ends>>

(* More than one drawer or departed send at work on a draft.               *)
Drawing(k) == {t \in Tab : drawer[t] # NoDrawer /\ drawer[t].key = k}
Adrift(t, k) == {s \in sends[t] : s.key = k /\ ~s.here}

Crowded(k) ==
    \/ \E t, u \in Drawing(k) : t # u
    \/ \E t \in Drawing(k), u \in Tab : Adrift(u, k) # {}
    \/ \E t, u \in Tab : \E s \in Adrift(t, k), r \in Adrift(u, k) : t # u \/ s # r

ComposeNext ==
    /\ \E t \in Tab :
        \/ \E k \in Key : OpenCompose(t, k)
        \/ Edit(t) \/ Autosave(t) \/ Close(t) \/ DiscardDraft(t)
        \/ Submit(t) \/ SubmitInvalid(t) \/ CooldownEnds(t)
        \/ \E s \in sends[t] : SendAccepted(t, s) \/ SendFails(t, s) \/ SendRefused(t, s)
        \/ DocumentGoes(t) \/ ShellGoes(t) \/ ShellStays(t)
    /\ shared' = shared \cup {k \in Key : Crowded(k)'}

ComposeSpec == ComposeInit /\ [][ComposeNext]_allVars

-----------------------------------------------------------------------------
(* A drawer that shows "Sending" has its send under way, so that it will   *)
(* not stay that way.                                                      *)
ComposeTypeOK ==
    /\ SessionTypeOK
    /\ drafts \in [Key -> Fields \cup {NoDraft}]
    /\ drawer \in [Tab -> DrawerRecord \cup {NoDrawer}]
    /\ sends \in [Tab -> SUBSET SendRecord]
    /\ shared \subseteq Key /\ sent \subseteq Key
    /\ left \in [Key -> DrawerRecord \cup {NoDrawer}]
    /\ \A t \in Tab : drawer[t] # NoDrawer /\ drawer[t].sending =>
         \E s \in sends[t] : s.here /\ s.key = drawer[t].key /\ s.fields = drawer[t].fields

(***************************************************************************)
(* What is worth keeping: all that differs from a drawer nobody has        *)
(* touched.  persist compares the subject of a reply with the one the      *)
(* drawer started with, so of a restored reply whose only change is the    *)
(* subject it keeps nothing: the exception.                                *)
(***************************************************************************)
OnlyItsRestoredSubject(d) ==
    /\ d.key \in Replies /\ d.mode = "draft-restored"
    /\ d.fields.bodyText = Blank /\ d.fields.copies = {}
    /\ d.fields.subject = d.initial.subject

IsKept(d) ==
    \/ drafts[d.key] = d.fields
    \/ d.fields = BaseFields(d.key)
    \/ OnlyItsRestoredSubject(d)

(***************************************************************************)
(* Where one drawer at a time works on a draft: when it has been idle for  *)
(* a second, what it shows is what is stored, through edits, failed sends, *)
(* discarded drafts and sessions (DESIGN_SPEC.md, Compose drawer).         *)
(***************************************************************************)
ShownIsStored ==
    \A t \in Tab : Idle(t) /\ ~drawer[t].armed /\ drawer[t].key \notin shared => IsKept(drawer[t])

(***************************************************************************)
(* "Closing a drawer that has any content keeps the draft locally", and    *)
(* AUTH_FAILED for its send too: it is there until the drawer is opened    *)
(* again, whatever becomes of the sessions.                                *)
(***************************************************************************)
LeftIsKept == \A k \in Key \ shared : left[k] # NoDrawer => IsKept(left[k])

(***************************************************************************)
(* "Escape closes it (keeping the draft)": of any content, without the     *)
(* exception.  The code does not keep it (ComposeDrawer.tsx, persist).     *)
(***************************************************************************)
AnyContentIsKept ==
    \A k \in Key \ shared :
        left[k] # NoDrawer /\ left[k].fields # BaseFields(k) => drafts[k] = left[k].fields

(***************************************************************************)
(* "A successful send closes the drawer, deletes the local draft": no      *)
(* autosave and no late answer brings back a draft that was sent.          *)
(***************************************************************************)
SentIsGone == \A k \in sent \ shared : drafts[k] = NoDraft
=============================================================================
