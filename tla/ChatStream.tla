----------------------------- MODULE ChatStream -----------------------------
(***************************************************************************)
(* A chat turn, from the composer to the model and back.  The page sends   *)
(* the question (src/src/ui/workspace/ChatTabView.tsx) and reads a stream  *)
(* of chunks (src/src/ui/rpc/rpc-stream.ts); Core prepares the request,    *)
(* pulls the provider and enqueues (src/src/core/chat.ts, server.ts).  The *)
(* tab may be left while an answer streams: the panel is unmounted, its    *)
(* fetch aborted, and the conversation, which App holds, is shown again by *)
(* a new mount.                                                            *)
(*                                                                         *)
(* A turn is a record: how far Core is, the chunks the page has not read,  *)
(* the text deltas the provider produced, and what the page's closure has: *)
(* the text so far and the conversation it will append the answer to.      *)
(***************************************************************************)
EXTENDS Naturals, SequencesExt

CONSTANTS MaxTurns,   \* bound: questions asked
          MaxDeltas   \* bound: text deltas of one answer

ASSUME ChatAssumption == MaxTurns \in Nat /\ MaxDeltas \in Nat

VARIABLES
    chatMounted,   \* the chat tab is the active one
    chatBusy,      \* the mounted panel's busy and firing
    chatMessages,  \* App: the conversation of the tab
    turns          \* the turns so far

chatVars == <<chatMounted, chatBusy, chatMessages, turns>>

ChatMessage(role, n, text) == [role |-> role, turn |-> n, text |-> text]

Over(turn) == turn.core \in {"done", "failed"}

ChatInit ==
    chatMounted = TRUE /\ chatBusy = FALSE /\ chatMessages = <<>> /\ turns = <<>>

-----------------------------------------------------------------------------
(* The page asks.                                                          *)

\* send, up to its await.
Ask ==
    LET n         == Len(turns) + 1
        afterUser == Append(chatMessages, ChatMessage("user", n, 0))
    IN  /\ chatMounted /\ n <= MaxTurns
        /\ chatMessages' = afterUser
        /\ chatBusy' = TRUE
        /\ turns' = Append(turns, [core |-> "requested", wire |-> <<>>, produced |-> 0,
                                   heard |-> FALSE, page |-> "reading", text |-> 0,
                                   afterUser |-> afterUser])
        /\ UNCHANGED chatMounted

\* Mutant of Send: the composer is not locked while an answer streams.
SendUnlocked == Ask

Send == ~chatBusy /\ Ask

-----------------------------------------------------------------------------
(* Core.                                                                   *)

CoreStep(n, turn) ==
    /\ turns' = [turns EXCEPT ![n] = turn]
    /\ UNCHANGED <<chatMounted, chatBusy, chatMessages>>

\* The route takes the request, or it never arrives or is refused: streamChat
\* then makes the error chunk itself.
CoreAccepts(n) ==
    LET t == turns[n]
    IN  /\ t.core = "requested"
        /\ \/ CoreStep(n, [t EXCEPT !.core = "preparing"])
           \/ CoreStep(n, [t EXCEPT !.core = "failed", !.wire = <<"error">>])

\* prepareRequest: the key, the schema and the model are there, or one of them
\* is not; what throws is answered by the route's own error chunk.
Prepare(n) ==
    LET t == turns[n]
    IN  /\ t.core = "preparing"
        /\ \/ CoreStep(n, [t EXCEPT !.core = "streaming"])
           \/ CoreStep(n, [t EXCEPT !.core = "failed", !.wire = Append(@, "error")])

\* A text part of the provider's stream, enqueued as it comes.  Reasoning parts
\* travel the same way and are left out.
ProviderSends(n) ==
    LET t == turns[n]
    IN  /\ t.core = "streaming" /\ ~t.heard /\ t.produced < MaxDeltas
        /\ CoreStep(n, [t EXCEPT !.produced = @ + 1, !.wire = Append(@, "text")])

\* The provider's stream ends, or fails.
ProviderEnds(n) ==
    LET t == turns[n]
    IN  /\ t.core = "streaming" /\ ~t.heard
        /\ \/ CoreStep(n, [t EXCEPT !.core = "done", !.wire = Append(@, "done")])
           \/ CoreStep(n, [t EXCEPT !.core = "failed", !.wire = Append(@, "error")])

\* The abort of the fetch, or the cancel of its reader, reaches Core.
CoreHears(n) ==
    LET t == turns[n]
    IN  /\ t.page # "reading" /\ ~Over(t) /\ ~t.heard
        /\ CoreStep(n, [t EXCEPT !.heard = TRUE,
                                 !.core = IF @ = "requested" THEN "failed" ELSE @])

\* Mutant of CoreStops: the abort is not passed to the provider, which has to
\* end by itself.
CoreIgnores(n) == FALSE /\ CoreStep(n, turns[n])

\* The provider call is aborted: the generator returns without a chunk.
CoreStops(n) ==
    LET t == turns[n]
    IN  /\ t.core = "streaming" /\ t.heard
        /\ CoreStep(n, [t EXCEPT !.core = "failed"])

-----------------------------------------------------------------------------
(* The page reads.                                                         *)

\* The turn of a mounted panel is over: the composer is free again.
SettleTurn(n, turn) ==
    /\ turns' = [turns EXCEPT ![n] = [turn EXCEPT !.page = "settled"]]
    /\ chatBusy' = FALSE
    /\ UNCHANGED chatMounted

\* A text delta grows the partial answer.
ReadDelta(n) ==
    LET t == turns[n]
    IN  /\ t.page = "reading" /\ t.wire # <<>> /\ Head(t.wire) = "text"
        /\ turns' = [turns EXCEPT ![n] = [t EXCEPT !.text = @ + 1, !.wire = Tail(@)]]
        /\ UNCHANGED <<chatMounted, chatBusy, chatMessages>>

\* A done chunk: the answer is appended.  One without text is an error, unless
\* the model reasoned.
ReadDone(n) ==
    LET t == turns[n]
    IN  /\ t.page = "reading" /\ t.wire # <<>> /\ Head(t.wire) = "done"
        /\ \/ chatMessages' = Append(t.afterUser, ChatMessage("assistant", n, t.text))
           \/ t.text = 0 /\ UNCHANGED chatMessages
        /\ SettleTurn(n, t)

\* Mutant of ReadError: what has been streamed is kept as the answer.
ReadErrorKeeping(n) ==
    LET t == turns[n]
    IN  /\ t.page = "reading" /\ t.wire # <<>> /\ Head(t.wire) = "error"
        /\ chatMessages' = Append(t.afterUser, ChatMessage("assistant", n, t.text))
        /\ SettleTurn(n, t)

\* An error chunk: the composer shows it, the conversation stays.
ReadError(n) ==
    LET t == turns[n]
    IN  /\ t.page = "reading" /\ t.wire # <<>> /\ Head(t.wire) = "error"
        /\ SettleTurn(n, t)
        /\ UNCHANGED chatMessages

\* The connection drops: a read rejects, or the stream ends inside a frame or
\* short of a terminal chunk.  Each becomes an error; the reader is cancelled.
StreamBreaks(n) ==
    /\ turns[n].page = "reading"
    /\ SettleTurn(n, [turns[n] EXCEPT !.wire = <<>>])
    /\ UNCHANGED chatMessages

\* Leaving the tab unmounts the panel, which aborts its fetch; what the closure
\* of an unmounted panel still learns changes nothing.
LeaveChat ==
    /\ chatMounted
    /\ chatMounted' = FALSE /\ chatBusy' = FALSE
    /\ turns' = [n \in DOMAIN turns |->
                   IF turns[n].page = "reading" THEN [turns[n] EXCEPT !.page = "left"] ELSE turns[n]]
    /\ UNCHANGED chatMessages

ReturnToChat ==
    /\ ~chatMounted
    /\ chatMounted' = TRUE
    /\ UNCHANGED <<chatBusy, chatMessages, turns>>

-----------------------------------------------------------------------------

PageReads(n) == ReadDelta(n) \/ ReadDone(n) \/ ReadError(n)

ChatNext ==
    \/ Send \/ LeaveChat \/ ReturnToChat
    \/ \E n \in DOMAIN turns :
         \/ CoreAccepts(n) \/ Prepare(n) \/ ProviderSends(n) \/ ProviderEnds(n)
         \/ CoreHears(n) \/ CoreStops(n)
         \/ PageReads(n) \/ StreamBreaks(n)

ChatSpec == ChatInit /\ [][ChatNext]_chatVars

\* The page reads what has come, an abort reaches Core and an aborted provider
\* call ends.  Nothing bounds a provider that is not aborted, nor Prepare: it
\* waits for the schema, that is for a database the first round trips of whose
\* connection nothing bounds, and never looks at the abort.
ChatFairness ==
    \A n \in 1 .. MaxTurns :
        /\ WF_chatVars(n \in DOMAIN turns /\ PageReads(n))
        /\ WF_chatVars(n \in DOMAIN turns /\ CoreHears(n))
        /\ WF_chatVars(n \in DOMAIN turns /\ CoreStops(n))

-----------------------------------------------------------------------------
(* Properties.                                                             *)

\* An answer in the conversation stands right after its own question and is the
\* whole text the provider produced for it: never a prefix kept from a turn that
\* failed, was aborted or whose tab was left, and never another turn's text.  And
\* no question is lost: an answer is appended to the conversation its own question
\* was asked in, a value captured before the await, so a turn that ended after
\* another was asked would erase that one.
AnswersAreWhole ==
    /\ \A n \in DOMAIN turns : Contains(chatMessages, ChatMessage("user", n, 0))
    /\ \A i \in DOMAIN chatMessages :
         LET m == chatMessages[i]
         IN  m.role = "assistant" =>
              /\ i > 1 /\ chatMessages[i - 1] = ChatMessage("user", m.turn, 0)
              /\ m.text = turns[m.turn].produced
              /\ turns[m.turn].core = "done"

\* A turn whose page is gone stops costing: Core ends it, wherever it was, and
\* however late it was left, unless it is waiting for the schema; when that
\* comes after all, the provider is still not left running.  And once Core has
\* ended a turn the composer does not stay busy with it.
TurnsEnd ==
    LET Page(n, state) == n \in DOMAIN turns /\ turns[n].page = state
        Preparing(n)   == n \in DOMAIN turns /\ turns[n].core = "preparing"
        Ended(n)       == n \in DOMAIN turns /\ Over(turns[n])
    IN  \A n \in 1 .. MaxTurns :
          /\ Page(n, "left") ~> Ended(n) \/ Preparing(n)
          /\ Ended(n) ~> ~Page(n, "reading")

=============================================================================
