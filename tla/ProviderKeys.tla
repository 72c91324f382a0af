----------------------------- MODULE ProviderKeys -----------------------------
(***************************************************************************)
(* The keys of the chat providers: the panel of the Settings tab that      *)
(* lists, saves and removes them (ui/settings/ProvidersPanel.tsx), the     *)
(* chat tab that offers the providers that have one (ChatTabView.tsx), and *)
(* the Core's registry behind both (core/provider-registry.ts).            *)
(*                                                                         *)
(* One of the two views is shown at a time; what a view asked for may be   *)
(* answered after it is gone, out of order or not at all.  The file of the *)
(* keys is module EncryptedStores, the answer of a chat ChatStream.        *)
(***************************************************************************)
EXTENDS Naturals, Sequences, FiniteSets

CONSTANTS ProviderKinds, \* PROVIDER_KINDS, in order
          MaxKeys,       \* bound: keys typed
          MaxViews,      \* bound: times a view is opened
          MaxLostCalls   \* bound: calls that get no answer

ASSUME KeysAssumption ==
    /\ ProviderKinds \in Seq(STRING) /\ MaxKeys \in Nat /\ MaxViews \in Nat /\ MaxLostCalls \in Nat

VARIABLES
    storedKeys,  \* the Core's key of each provider
    views,       \* number of views opened; the last is the one shown, if any
    shownView,   \* which it is: "settings", "chat", or "none"
    panelKeys,   \* ProvidersPanel: state, and loading, listLoaded, busy
    keyDrafts,   \* its drafts
    keysTyped,
    keyCalls,       \* the calls under way: whose, what, the reply
    chatPick,    \* the chat: configured, providersReady, and state.provider
    lastPicked,  \* App: lastProvider
    userPick,    \* history: what the user picked last in the chat
    lostCalls,   \* history: number of calls that got no answer
    outlived     \* history: a change was under way, or its answer lost, at the panel's list

keyVars == <<storedKeys, views, shownView, panelKeys, keyDrafts, keysTyped, keyCalls, chatPick,
             lastPicked, userPick, lostCalls, outlived>>
panelVars == <<panelKeys, keyDrafts, keysTyped>>
pickVars  == <<chatPick, lastPicked, userPick>>

NoKey == 0
NoOne == "none"
Providers  == {ProviderKinds[i] : i \in DOMAIN ProviderKinds}

ASSUME ProvidersAssumption == NoOne \notin Providers

NoKeys     == [p \in Providers |-> NoKey]
EmptyPanel == [list |-> NoKeys, loading |-> TRUE, listLoaded |-> FALSE, busy |-> FALSE]
Unanswered == [ok |-> FALSE, list |-> NoKeys]
CallOf(what, p, key) == [view |-> views, what |-> what, provider |-> p, key |-> key,
                         done |-> FALSE, reply |-> Unanswered]

KeysInit ==
    /\ storedKeys = NoKeys /\ views = 0 /\ shownView = "none"
    /\ panelKeys = EmptyPanel /\ keyDrafts = NoKeys /\ keysTyped = 0 /\ keyCalls = {}
    /\ chatPick = [configured |-> {}, ready |-> FALSE, provider |-> NoOne]
    /\ lastPicked = NoOne /\ userPick = NoOne /\ lostCalls = 0 /\ outlived = FALSE

-----------------------------------------------------------------------------

\* A view is mounted: it asks for the list.
OpenSettings ==
    /\ shownView = "none" /\ views < MaxViews
    /\ views' = views + 1 /\ shownView' = "settings"
    /\ panelKeys' = EmptyPanel /\ keyDrafts' = NoKeys
    /\ outlived' = (\E c \in keyCalls : c.what # "list")
    /\ keyCalls' = keyCalls \cup {[CallOf("list", NoOne, NoKey) EXCEPT !.view = views + 1]}
    /\ UNCHANGED <<storedKeys, keysTyped, pickVars, lostCalls>>

OpenChatPicker ==
    /\ shownView = "none" /\ views < MaxViews
    /\ views' = views + 1 /\ shownView' = "chat"
    /\ chatPick' = [chatPick EXCEPT !.configured = {}, !.ready = FALSE]
    /\ keyCalls' = keyCalls \cup {[CallOf("list", NoOne, NoKey) EXCEPT !.view = views + 1]}
    /\ UNCHANGED <<storedKeys, panelVars, lastPicked, userPick, lostCalls, outlived>>

\* The view is unmounted; its calls go on, and their replies find nobody.
LeaveView ==
    /\ shownView # "none" /\ shownView' = "none"
    /\ UNCHANGED <<storedKeys, views, panelVars, keyCalls, pickVars, lostCalls, outlived>>

TypeKey(p) ==
    /\ shownView = "settings" /\ ~panelKeys.loading /\ keysTyped < MaxKeys
    /\ keysTyped' = keysTyped + 1
    /\ keyDrafts' = [keyDrafts EXCEPT ![p] = keysTyped + 1]
    /\ UNCHANGED <<storedKeys, views, shownView, panelKeys, keyCalls, pickVars, lostCalls, outlived>>

\* Mutant of OnSave: nothing keeps a second change from being sent.
OnSaveAgain(p) ==
    /\ shownView = "settings" /\ ~panelKeys.loading /\ panelKeys.listLoaded /\ keyDrafts[p] # NoKey
    /\ panelKeys' = [panelKeys EXCEPT !.busy = TRUE]
    /\ keyCalls' = keyCalls \cup {CallOf("set", p, keyDrafts[p])}
    /\ UNCHANGED <<storedKeys, views, shownView, keyDrafts, keysTyped, pickVars, lostCalls, outlived>>

\* onSave: a draft is there, no change is under way, and the list was read.
OnSave(p) ==
    /\ shownView = "settings" /\ ~panelKeys.busy
    /\ ~panelKeys.loading /\ panelKeys.listLoaded /\ keyDrafts[p] # NoKey
    /\ panelKeys' = [panelKeys EXCEPT !.busy = TRUE]
    /\ keyCalls' = keyCalls \cup {CallOf("set", p, keyDrafts[p])}
    /\ UNCHANGED <<storedKeys, views, shownView, keyDrafts, keysTyped, pickVars, lostCalls, outlived>>

OnRemoveKey(p) ==
    /\ shownView = "settings" /\ ~panelKeys.busy
    /\ ~panelKeys.loading /\ panelKeys.listLoaded /\ panelKeys.list[p] # NoKey
    /\ panelKeys' = [panelKeys EXCEPT !.busy = TRUE]
    /\ keyCalls' = keyCalls \cup {CallOf("remove", p, NoKey)}
    /\ UNCHANGED <<storedKeys, views, shownView, keyDrafts, keysTyped, pickVars, lostCalls, outlived>>

-----------------------------------------------------------------------------
(* The Core.                                                               *)

\* list, set, remove: the store may not open, and a write may fail.
RegistryAnswersCall(c, ok) ==
    /\ c \in keyCalls /\ ~c.done
    /\ storedKeys' = IF ok /\ c.what # "list" THEN [storedKeys EXCEPT ![c.provider] = c.key] ELSE storedKeys
    /\ keyCalls' = (keyCalls \ {c}) \cup
         {[c EXCEPT !.done = TRUE, !.reply = [ok |-> ok, list |-> IF ok THEN storedKeys' ELSE NoKeys]]}
    /\ UNCHANGED <<views, shownView, panelVars, pickVars, lostCalls, outlived>>

\* The call, or its answer, does not get through: the page is told of a failure.
CallIsLost(c) ==
    /\ c \in keyCalls /\ lostCalls < MaxLostCalls /\ lostCalls' = lostCalls + 1
    /\ (c.done => c.reply.ok)
    /\ keyCalls' = (keyCalls \ {c}) \cup {[c EXCEPT !.done = TRUE, !.reply = Unanswered]}
    /\ outlived' = (outlived \/ c.what # "list")
    /\ UNCHANGED <<storedKeys, views, shownView, panelVars, pickVars>>

-----------------------------------------------------------------------------
(* The replies.                                                            *)

IsHeard(c) == c.view = views /\ shownView # "none"

ReplyFindsNobody(c) ==
    /\ c \in keyCalls /\ c.done /\ ~IsHeard(c)
    /\ keyCalls' = keyCalls \ {c}
    /\ UNCHANGED <<storedKeys, views, shownView, panelVars, pickVars, lostCalls, outlived>>

\* loadProviders.
PanelIsListed(c) ==
    /\ c \in keyCalls /\ c.done /\ IsHeard(c) /\ shownView = "settings" /\ c.what = "list"
    /\ panelKeys' = [panelKeys EXCEPT !.loading = FALSE, !.listLoaded = @ \/ c.reply.ok,
                                      !.list = IF c.reply.ok THEN c.reply.list ELSE @]
    /\ keyCalls' = keyCalls \ {c}
    /\ UNCHANGED <<storedKeys, views, shownView, keyDrafts, keysTyped, pickVars, lostCalls, outlived>>

\* applySet, applyRemoved; the draft of a save goes even if it failed.
PanelIsAnswered(c) ==
    /\ c \in keyCalls /\ c.done /\ IsHeard(c) /\ c.what # "list"
    /\ panelKeys' = [panelKeys EXCEPT !.busy = FALSE,
                                      !.list = IF c.reply.ok THEN [@ EXCEPT ![c.provider] = c.key] ELSE @]
    /\ keyDrafts' = IF c.what = "set" THEN [keyDrafts EXCEPT ![c.provider] = NoKey] ELSE keyDrafts
    /\ keyCalls' = keyCalls \ {c}
    /\ UNCHANGED <<storedKeys, views, shownView, keysTyped, pickVars, lostCalls, outlived>>

\* resolveDefaultProvider: the last one picked if it is there, else the first.
ResolveDefaultProvider(configured) ==
    IF configured = {} THEN NoOne
    ELSE IF lastPicked \in configured THEN lastPicked
    ELSE ProviderKinds[CHOOSE i \in DOMAIN ProviderKinds :
           /\ ProviderKinds[i] \in configured
           /\ \A j \in 1 .. i - 1 : ProviderKinds[j] \notin configured]

\* Mutant of PickDefault: a default takes the place of what was picked.
PickDefaultAnyway(configured) == ResolveDefaultProvider(configured)

\* The effect that selects, once the list is there and nothing was picked yet.
PickDefault(configured) ==
    IF chatPick.provider # NoOne THEN chatPick.provider ELSE ResolveDefaultProvider(configured)

ChatIsListed(c) ==
    /\ c \in keyCalls /\ c.done /\ IsHeard(c) /\ shownView = "chat"
    /\ LET configured == {p \in Providers : c.reply.ok /\ c.reply.list[p] # NoKey}
       IN  /\ chatPick' = [configured |-> configured, ready |-> TRUE, provider |-> PickDefault(configured)]
           /\ lastPicked' = IF chatPick'.provider = chatPick.provider THEN lastPicked ELSE chatPick'.provider
    /\ keyCalls' = keyCalls \ {c}
    /\ UNCHANGED <<storedKeys, views, shownView, panelVars, userPick, lostCalls, outlived>>

PickChatProvider(p) ==
    /\ shownView = "chat" /\ p \in chatPick.configured
    /\ chatPick' = [chatPick EXCEPT !.provider = p]
    /\ lastPicked' = p /\ userPick' = p
    /\ UNCHANGED <<storedKeys, views, shownView, panelVars, keyCalls, lostCalls, outlived>>

KeysNext ==
    \/ OpenSettings \/ OpenChatPicker \/ LeaveView
    \/ \E p \in Providers : TypeKey(p) \/ OnSave(p) \/ OnRemoveKey(p) \/ PickChatProvider(p)
    \/ \E c \in keyCalls :
         \/ \E ok \in BOOLEAN : RegistryAnswersCall(c, ok)
         \/ CallIsLost(c) \/ ReplyFindsNobody(c)
         \/ PanelIsListed(c) \/ PanelIsAnswered(c) \/ ChatIsListed(c)

KeysSpec == KeysInit /\ [][KeysNext]_keyVars

-----------------------------------------------------------------------------

\* The panel at rest lists the keys the Core has, whatever was saved, replaced and
\* removed in it, failed writes included, unless a change outlived the panel it was made
\* in or its answer was lost.  A chat that offers providers has one picked, the user's
\* own pick if there was one.
ProvidersAreTrue ==
    /\ shownView = "settings" /\ panelKeys.listLoaded /\ ~panelKeys.busy /\ ~outlived =>
         panelKeys.list = storedKeys
    /\ shownView = "chat" /\ chatPick.configured # {} => chatPick.provider # NoOne
    /\ userPick # NoOne => chatPick.provider = userPick

=============================================================================
