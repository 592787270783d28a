------------------------------- MODULE AgentChat -------------------------------
(***************************************************************************)
(* A chat request of the AI service: the handler that loads and saves the   *)
(* conversation, the agent loop with its tool rounds, the goroutine that    *)
(* streams the model's answer through a bounded channel, the SSE or         *)
(* WebSocket writer, and the hourly cleanup of old conversations.           *)
(*                                                                         *)
(* Every SQL statement, channel operation and event to the client is a step *)
(* of its own. Requests share nothing but the tables, which agent.Run does   *)
(* not touch: with several requests its steps are taken as one, and the      *)
(* steps themselves are those of a request alone.                           *)
(***************************************************************************)
EXTENDS Naturals, Sequences, FiniteSets

CONSTANTS
    Requests,       \* chat requests
    ToolUsers,      \* the requests the model answers with tool calls
    Shared,         \* a conversation that exists already
    NoConv,         \* the empty conversation id
    Routes,         \* how requests come in, a subset of AllRoutes
    HistoryLimit,   \* messages handed to the model
    MaxIterations,  \* maxToolIterations
    ChannelCap,     \* capacity of the event channel
    MaxChunks,      \* bound on the chunks of one streamed answer
    MaxCalls,       \* bound on the tool calls of one answer
    Faults          \* a subset of AllFaults

AllRoutes == {"sse",      \* POST /api/v1/chat
              "upgrade",  \* the same with an Upgrade header
              "ws"}       \* GET /api/v1/chat/ws

AllFaults == {"invalid",      \* the message is malformed or empty
              "llm_off",      \* no model is configured
              "llm",          \* the model refuses or the stream breaks
              "truncated",    \* the stream ends without a finish reason
              "db",           \* a database statement fails
              "disconnect",   \* the client goes away
              "tool_error",   \* a tool is unknown or fails
              "cleanup"}      \* the hourly cleanup runs

ASSUME ChatParameters ==
    /\ IsFiniteSet(Requests) /\ ToolUsers \subseteq Requests
    /\ Shared \notin Requests /\ NoConv \notin Requests \cup {Shared}
    /\ Routes \subseteq AllRoutes /\ Faults \subseteq AllFaults
    /\ HistoryLimit \in Nat \ {0} /\ MaxIterations \in Nat \ {0}
    /\ ChannelCap \in Nat \ {0} /\ MaxChunks \in Nat \ {0} /\ MaxCalls \in Nat

VARIABLES
    h,        \* the handler of each request
    prod,     \* its streaming goroutine
    chan,     \* the channel between the two
    ctx,      \* the request context is live
    link,     \* the client is connected
    closed,   \* the WebSocket writer has sent its close frame
    seen,     \* the final events the client received, in order
    conv,     \* ai_conversation
    msgs,     \* ai_message
    lastId,   \* its AUTO_INCREMENT counter
    sweep,    \* the cleanup is between its two DELETEs
    alone     \* the one request there is, or none: see WholeRun

vars == <<h, prod, chan, ctx, link, closed, seen, conv, msgs, lastId, sweep, alone>>

stream == <<prod, chan>>
client == <<ctx, link, closed, seen>>
tables == <<conv, msgs, lastId>>

--------------------------------------------------------------------------------
(* A request that starts a conversation names it after itself.             *)
Convs == Requests \cup {Shared}

CallIds == 0 .. MaxCalls - 1

Messages == [id : Nat, conv : Convs, role : {"user", "assistant"}, req : Requests,
             text : Nat, counted : BOOLEAN]

(* route: how it came in; hist: what GetHistory returned; told: requests     *)
(* whose client knew its conversation id by then; msgs: messages of this     *)
(* run, which follow the history; text: deltas of the current round; calls:   *)
(* tool calls still to be executed; made: successful ones; dbfail: a          *)
(* statement failed.                                                        *)
Idle == [pc |-> "idle", route |-> "sse", conv |-> NoConv, hist |-> {},
         told |-> {}, msgs |-> <<>>, iter |-> 0, text |-> 0, calls |-> {},
         made |-> 0, done |-> FALSE, dbfail |-> FALSE]

NoStream == [pc |-> "none", n |-> 0, accum |-> {}, finished |-> FALSE]

At(r, pc) == h[r].pc = pc

Goto(r, pc) == h' = [h EXCEPT ![r].pc = pc]

(* A call with the request's context fails when the client is gone, and of a *)
(* request alone also when the database fails.                              *)
CallFails(r) == (alone = r /\ "db" \in Faults) \/ ~ctx[r]

(* On a failing statement the handler logs at most, and goes on.           *)
GotoFailed(r, pc) == h' = [h EXCEPT ![r].pc = pc, ![r].dbfail = TRUE]

(* The model's answers, WSWriter.closed and disconnected clients decide     *)
(* what arrives; SSEWriter never closes.                                    *)
Send(r, e) == seen' = IF link[r] /\ ~closed[r] THEN [seen EXCEPT ![r] = Append(@, e)]
                      ELSE seen

Got(r, e) == \E k \in DOMAIN seen[r] : seen[r][k] = e

(* Variants: the WebSocket writer stays open; the conversation id goes out    *)
(* with the end of the answer.                                              *)
SendFinalOpen(r, e) == Send(r, e) /\ UNCHANGED closed

SendFinalTells(r, e) ==
    /\ seen' = [seen EXCEPT ![r] = @ \o IF e = "done" THEN <<e, "conversation_id">> ELSE <<e>>]
    /\ UNCHANGED closed

(* Done and Error of WSWriter close the connection, those of SSEWriter don't. *)
SendFinal(r, e) == /\ Send(r, e)
                   /\ closed' = [closed EXCEPT ![r] = @ \/ h[r].route # "sse"]

(* conv: absent, or the age of updated_at: "old" rows are deleted, "ripe"   *)
(* ones get old at any moment, "fresh" ones were updated just now.          *)
Init == /\ h = [r \in Requests |-> Idle]
        /\ prod = [r \in Requests |-> NoStream]
        /\ chan = [r \in Requests |-> <<>>]
        /\ ctx = [r \in Requests |-> TRUE]
        /\ link = [r \in Requests |-> TRUE]
        /\ closed = [r \in Requests |-> FALSE]
        /\ seen = [r \in Requests |-> <<>>]
        /\ conv = [c \in Convs |-> [age |-> IF c = Shared THEN "ripe" ELSE "absent",
                                    count |-> 0]]
        /\ msgs = {} /\ lastId = 0
        /\ sweep = {}
        /\ alone \in ToolUsers \cup {NoConv}

--------------------------------------------------------------------------------
(* Conversation memory.                                                    *)

(* ORDER BY id ASC LIMIT: the oldest messages of the conversation.         *)
IsHistory(rows, c) ==
    LET mine == {m \in msgs : m.conv = c}
    IN  /\ rows \subseteq mine
        /\ Cardinality(rows) = IF Cardinality(mine) < HistoryLimit THEN Cardinality(mine)
                               ELSE HistoryLimit
        /\ \A m \in rows, n \in mine \ rows : m.id < n.id

(* AddMessage, first statement. tool_calls_json is a JSON column, and the   *)
(* %q of two or more names is not JSON: MySQL refuses the row.              *)
InsertMessage(r, role, n) ==
    /\ lastId' = lastId + 1
    /\ msgs' = msgs \cup {[id |-> lastId + 1, conv |-> h[r].conv, role |-> role, req |-> r,
                           text |-> n, counted |-> FALSE]}

(* AddMessage, second statement; it touches no row if the conversation is    *)
(* gone.                                                                    *)
CountMessage(r, role) ==
    LET c == h[r].conv IN
    IF conv[c].age = "absent" THEN UNCHANGED tables
    ELSE /\ conv' = [conv EXCEPT ![c] = [age |-> "fresh", count |-> @.count + 1]]
         /\ msgs' = {IF m.req = r /\ m.role = role THEN [m EXCEPT !.counted = TRUE] ELSE m :
                        m \in msgs}
         /\ UNCHANGED lastId

--------------------------------------------------------------------------------
(* handleChat and handleChatWS up to agent.Run.                            *)

(* Several requests meet in the shared conversation only, and as far as the  *)
(* tables are concerned a WebSocket request is an SSE request whose client    *)
(* stays.                                                                   *)
Accept(r) ==
    /\ At(r, "idle") /\ alone \in {r, NoConv}
    /\ \E route \in Routes, c \in {NoConv, Shared} :
          /\ alone = NoConv => route = "sse" /\ c = Shared
          /\ h' = [h EXCEPT ![r] =
                     [Idle EXCEPT !.pc = IF c = NoConv THEN "create" ELSE "load",
                                  !.route = route, !.conv = c,
                                  !.told = {q \in Requests :
                                              h[q].conv = c /\ Got(q, "conversation_id")}]]
    /\ UNCHANGED <<stream, client, tables, sweep, alone>>

(* A bad request, or a failing upgrade, is answered by a status; a bad        *)
(* message on a WebSocket by an error.                                      *)
Reject(r) ==
    /\ At(r, "idle") /\ alone = r
    /\ "invalid" \in Faults
    /\ \E route \in Routes, e \in {"refused", "error"} :
          /\ e = "error" => route = "ws"
          /\ h' = [h EXCEPT ![r] = [Idle EXCEPT !.pc = "end", !.route = route]]
          /\ Send(r, e)
          /\ closed' = [closed EXCEPT ![r] = TRUE]
    /\ UNCHANGED <<stream, ctx, link, tables, sweep, alone>>

(* The error of GetHistory is ignored: the run starts without history.     *)
Load(r) ==
    /\ At(r, "load")
    /\ \/ \E rows \in SUBSET msgs :
             /\ IsHistory(rows, h[r].conv)
             /\ h' = [h EXCEPT ![r].pc = "user", ![r].hist = rows]
       \/ CallFails(r) /\ GotoFailed(r, "user")
    /\ UNCHANGED <<stream, client, tables, sweep, alone>>

(* Without a conversation nothing is saved.                                *)
Create(r) ==
    /\ At(r, "create")
    /\ \/ /\ conv' = [conv EXCEPT ![r] = [age |-> "fresh", count |-> 0]]
          /\ h' = [h EXCEPT ![r].pc = "user", ![r].conv = r]
       \/ CallFails(r) /\ GotoFailed(r, "run") /\ UNCHANGED conv
    /\ UNCHANGED <<stream, client, msgs, lastId, sweep, alone>>

SaveUser(r) ==
    /\ At(r, "user")
    /\ \/ InsertMessage(r, "user", 1) /\ Goto(r, "userCount")
       \/ CallFails(r) /\ GotoFailed(r, "run") /\ UNCHANGED <<msgs, lastId>>
    /\ UNCHANGED <<stream, client, conv, sweep, alone>>

CountUser(r) ==
    /\ At(r, "userCount")
    /\ \/ CountMessage(r, "user") /\ Goto(r, "run")
       \/ CallFails(r) /\ GotoFailed(r, "run") /\ UNCHANGED tables
    /\ UNCHANGED <<stream, client, sweep, alone>>

--------------------------------------------------------------------------------
(* agent.Run.                                                              *)

(* The initial messages of the run: the history, in which no call is kept,   *)
(* then the user's message.                                                 *)
StartRun(r) ==
    /\ At(r, "run") /\ alone = r
    /\ \/ /\ h' = [h EXCEPT ![r].pc = "iterate",
                            ![r].msgs = <<[role |-> "user", calls |-> {}]>>]
          /\ UNCHANGED client
       \/ /\ "llm_off" \in Faults
          /\ SendFinal(r, "error")
          /\ Goto(r, "failed")
          /\ UNCHANGED <<ctx, link>>
    /\ UNCHANGED <<stream, tables, sweep, alone>>

(* The whole of agent.Run: done with some text after some tools, an error     *)
(* event, or a dead context.                                                *)
WholeRun(r) ==
    /\ At(r, "run") /\ alone # r
    /\ \/ \E n \in {0, 1}, k \in IF r \in ToolUsers THEN {0, 2} ELSE {0} :
             /\ ctx[r]
             /\ SendFinal(r, "done")
             /\ h' = [h EXCEPT ![r].pc = "save", ![r].done = TRUE,
                               ![r].text = n, ![r].made = k]
       \/ /\ Faults \cap {"llm", "llm_off"} # {} \/ ~ctx[r]
          /\ SendFinal(r, "error")
          /\ Goto(r, "failed")
       \/ /\ ~ctx[r]
          /\ Goto(r, "failed")
          /\ UNCHANGED <<closed, seen>>
    /\ UNCHANGED <<stream, ctx, link, tables, sweep, alone>>

(* Variant: one round more.                                                *)
OverBudgetLate(r) == h[r].iter > MaxIterations

OverBudget(r) == h[r].iter >= MaxIterations

(* The next round starts a stream, unless the budget is used up or the      *)
(* context is dead; the latter tells the client nothing.                    *)
Iterate(r) ==
    /\ At(r, "iterate")
    /\ \/ /\ OverBudget(r)
          /\ SendFinal(r, "error")
          /\ Goto(r, "failed")
          /\ UNCHANGED <<stream, ctx, link>>
       \/ /\ ~OverBudget(r) /\ ~ctx[r]
          /\ Goto(r, "failed")
          /\ UNCHANGED <<stream, client>>
       \/ /\ ~OverBudget(r) /\ ctx[r]
          /\ h' = [h EXCEPT ![r].pc = "receive", ![r].text = 0]
          /\ prod' = [prod EXCEPT ![r] = [NoStream EXCEPT !.pc = "request"]]
          /\ chan' = [chan EXCEPT ![r] = <<>>]
          /\ UNCHANGED client
    /\ UNCHANGED <<tables, sweep, alone>>

(* An error ends the loop over the channel; a finish brings the tool calls. *)
Receive(r) ==
    /\ At(r, "receive")
    /\ chan[r] # <<>>
    /\ LET e == Head(chan[r]) IN
       \/ /\ e.kind = "error"
          /\ SendFinal(r, "error")
          /\ Goto(r, "failed")
          /\ UNCHANGED <<ctx, link>>
       \/ /\ e.kind = "text"
          /\ h' = [h EXCEPT ![r].text = @ + 1]
          /\ UNCHANGED client
       \/ /\ e.kind = "finish"
          /\ h' = [h EXCEPT ![r].calls = e.calls]
          /\ UNCHANGED client
    /\ chan' = [chan EXCEPT ![r] = Tail(@)]
    /\ UNCHANGED <<prod, tables, sweep, alone>>

(* The channel is closed and empty: tools to call, or the final answer.    *)
EndOfStream(r) ==
    /\ At(r, "receive")
    /\ chan[r] = <<>> /\ prod[r].pc = "end"
    /\ IF h[r].calls # {}
       THEN h' = [h EXCEPT ![r].pc = "tools",
                           ![r].msgs = Append(@, [role |-> "assistant", calls |-> h[r].calls])]
       ELSE Goto(r, "done")
    /\ UNCHANGED <<stream, client, tables, sweep, alone>>

(* Variant: a failed tool is reported to the client and not to the model.  *)
ExecuteToolUnanswered(r) ==
    /\ At(r, "tools")
    /\ \E i \in h[r].calls, ok \in BOOLEAN :
          /\ \A j \in h[r].calls : i <= j
          /\ ok \/ "tool_error" \in Faults \/ ~ctx[r]
          /\ h' = [h EXCEPT ![r].calls = @ \ {i},
                            ![r].msgs = IF ok THEN Append(@, [role |-> "tool", calls |-> {i}])
                                        ELSE @,
                            ![r].made = IF ok THEN @ + 1 ELSE @]
    /\ UNCHANGED <<stream, client, tables, sweep, alone>>

(* The calls in their order, each answered by a message of its own, whether   *)
(* the tool worked, failed or is unknown.                                   *)
ExecuteTool(r) ==
    /\ At(r, "tools")
    /\ \E i \in h[r].calls, ok \in BOOLEAN :
          /\ \A j \in h[r].calls : i <= j
          /\ ok \/ "tool_error" \in Faults \/ ~ctx[r]
          /\ h' = [h EXCEPT ![r].calls = @ \ {i},
                            ![r].msgs = Append(@, [role |-> "tool", calls |-> {i}]),
                            ![r].made = IF ok THEN @ + 1 ELSE @]
    /\ UNCHANGED <<stream, client, tables, sweep, alone>>

ToolsDone(r) ==
    /\ At(r, "tools") /\ h[r].calls = {}
    /\ h' = [h EXCEPT ![r].pc = "iterate", ![r].iter = @ + 1]
    /\ UNCHANGED <<stream, client, tables, sweep, alone>>

Done(r) ==
    /\ At(r, "done")
    /\ SendFinal(r, "done")
    /\ h' = [h EXCEPT ![r].pc = "save", ![r].done = TRUE]
    /\ UNCHANGED <<stream, ctx, link, tables, sweep, alone>>

--------------------------------------------------------------------------------
(* handleChat and handleChatWS after agent.Run.                            *)

(* Variant: an answer that needed a tool is not saved.                     *)
SavesPlain(r) == h[r].conv # NoConv /\ h[r].text > 0 /\ h[r].made = 0

Saves(r) == h[r].conv # NoConv /\ h[r].text > 0

(* The error of AddMessage is ignored.                                     *)
SaveAnswer(r) ==
    /\ At(r, "save")
    /\ \/ ~Saves(r) /\ Goto(r, "notify") /\ UNCHANGED <<msgs, lastId>>
       \/ /\ Saves(r) /\ h[r].made < 2
          /\ InsertMessage(r, "assistant", h[r].text)
          /\ Goto(r, "answerCount")
       \/ /\ Saves(r)
          /\ h[r].made >= 2 \/ CallFails(r)
          /\ GotoFailed(r, "notify")
          /\ UNCHANGED <<msgs, lastId>>
    /\ UNCHANGED <<stream, client, conv, sweep, alone>>

CountAnswer(r) ==
    /\ At(r, "answerCount")
    /\ \/ CountMessage(r, "assistant") /\ Goto(r, "notify")
       \/ CallFails(r) /\ GotoFailed(r, "notify") /\ UNCHANGED tables
    /\ UNCHANGED <<stream, client, sweep, alone>>

Notify(r) ==
    /\ At(r, "notify")
    /\ IF h[r].conv # NoConv THEN Send(r, "conversation_id") ELSE UNCHANGED seen
    /\ Goto(r, "end")
    /\ UNCHANGED <<stream, ctx, link, closed, tables, sweep, alone>>

(* handleChat sends the error of Run once more, handleChatWS does not.     *)
Failed(r) ==
    /\ At(r, "failed")
    /\ IF h[r].route = "ws" THEN UNCHANGED <<seen, closed>> ELSE SendFinal(r, "error")
    /\ Goto(r, "end")
    /\ UNCHANGED <<stream, ctx, link, tables, sweep, alone>>

Handler(r) ==
    \/ Load(r) \/ Create(r) \/ SaveUser(r) \/ CountUser(r)
    \/ StartRun(r) \/ WholeRun(r) \/ Iterate(r) \/ Receive(r) \/ EndOfStream(r)
    \/ ExecuteTool(r) \/ ToolsDone(r) \/ Done(r)
    \/ SaveAnswer(r) \/ CountAnswer(r) \/ Notify(r) \/ Failed(r)

--------------------------------------------------------------------------------
(* runStreamWithClient: the producer. Its sends block on a full channel.   *)

Emit(r, evs) == /\ Len(chan[r]) + Len(evs) <= ChannelCap
                /\ chan' = [chan EXCEPT ![r] = @ \o evs]

Error == [kind |-> "error", calls |-> {}]
Text == [kind |-> "text", calls |-> {}]

(* Variant: the loop starts at 1.                                          *)
AccumulatedFromOne(acc) == acc \cap 1 .. Cardinality(acc)

(* The loop over accum counts up to its size, so that an index beyond a gap  *)
(* is left out.                                                             *)
Accumulated(acc) == acc \cap 0 .. Cardinality(acc) - 1

(* Variant: an error is sent and the loop goes on.                         *)
StreamErrorContinues(r) ==
    /\ prod[r].pc \in {"request", "scan"}
    /\ "llm" \in Faults \/ ~ctx[r]
    /\ Emit(r, <<Error>>)
    /\ UNCHANGED prod
    /\ UNCHANGED <<h, client, tables, sweep, alone>>

(* The request fails, the status is not 2xx, the context is dead or the     *)
(* body cannot be read on: one error event, and the goroutine ends.         *)
StreamError(r) ==
    /\ prod[r].pc \in {"request", "scan"}
    /\ "llm" \in Faults \/ ~ctx[r]
    /\ Emit(r, <<Error>>)
    /\ prod' = [prod EXCEPT ![r].pc = "end"]
    /\ UNCHANGED <<h, client, tables, sweep, alone>>

StreamOpen(r) ==
    /\ prod[r].pc = "request"
    /\ prod' = [prod EXCEPT ![r].pc = "scan"]
    /\ UNCHANGED <<h, chan, client, tables, sweep, alone>>

(* One chunk of the answer: a text delta or a tool call delta. Its line is   *)
(* only read while the context is live.                                     *)
StreamChunk(r) ==
    /\ prod[r].pc = "scan" /\ ~prod[r].finished /\ ctx[r]
    /\ prod[r].n < MaxChunks
    /\ \/ /\ Emit(r, <<Text>>)
          /\ prod' = [prod EXCEPT ![r].n = @ + 1]
       \/ /\ r \in ToolUsers
          /\ \E i \in CallIds :
                prod' = [prod EXCEPT ![r].n = @ + 1, ![r].accum = @ \cup {i}]
          /\ UNCHANGED chan
    /\ UNCHANGED <<h, client, tables, sweep, alone>>

(* The chunk with the finish reason brings the accumulated tool calls.     *)
StreamFinish(r) ==
    /\ prod[r].pc = "scan" /\ ~prod[r].finished /\ ctx[r]
    /\ Emit(r, <<[kind |-> "finish", calls |-> Accumulated(prod[r].accum)]>>)
    /\ prod' = [prod EXCEPT ![r].finished = TRUE]
    /\ UNCHANGED <<h, client, tables, sweep, alone>>

(* Variant: the channel is never closed.                                   *)
StreamEndUnclosed(r) ==
    /\ prod[r].pc = "scan"
    /\ prod[r].finished \/ "truncated" \in Faults
    /\ prod' = [prod EXCEPT ![r].pc = "none"]
    /\ UNCHANGED <<h, chan, client, tables, sweep, alone>>

(* The body ends; the deferred close makes the channel end.                *)
StreamEnd(r) ==
    /\ prod[r].pc = "scan"
    /\ prod[r].finished \/ "truncated" \in Faults
    /\ prod' = [prod EXCEPT ![r].pc = "end"]
    /\ UNCHANGED <<h, chan, client, tables, sweep, alone>>

Stream(r) == \/ StreamError(r) \/ StreamOpen(r) \/ StreamChunk(r)
             \/ StreamFinish(r) \/ StreamEnd(r)

--------------------------------------------------------------------------------
(* Environment and cleanup.                                                *)

(* The server watches the connection of a plain request only: after Hijack  *)
(* a client that goes away does not cancel the context.                     *)
Disconnect(r) ==
    /\ "disconnect" \in Faults
    /\ link[r] /\ h[r].pc \notin {"idle", "end"}
    /\ link' = [link EXCEPT ![r] = FALSE]
    /\ ctx' = [ctx EXCEPT ![r] = h[r].route # "sse"]
    /\ UNCHANGED <<h, stream, closed, seen, tables, sweep, alone>>

GrowOld(c) ==
    /\ "cleanup" \in Faults /\ alone = NoConv
    /\ conv[c].age = "ripe"
    /\ conv' = [conv EXCEPT ![c].age = "old"]
    /\ UNCHANGED <<h, stream, client, msgs, lastId, sweep, alone>>

(* DeleteOldConversations: the messages first, then the conversations that   *)
(* are old by then.                                                         *)
CleanMessages ==
    /\ sweep = {}
    /\ \E c \in Convs : conv[c].age = "old"
    /\ msgs' = {m \in msgs : conv[m.conv].age # "old"}
    /\ sweep' = {c \in Convs : conv[c].age = "old"}
    /\ UNCHANGED <<h, stream, client, conv, lastId, alone>>

(* Variant: the conversations that were old at the first DELETE.           *)
CleanConversationsListed ==
    /\ sweep # {}
    /\ conv' = [c \in Convs |-> IF c \in sweep THEN [age |-> "absent", count |-> 0]
                                ELSE conv[c]]
    /\ sweep' = {}
    /\ UNCHANGED <<h, stream, client, msgs, lastId, alone>>

CleanConversations ==
    /\ sweep # {}
    /\ conv' = [c \in Convs |-> IF conv[c].age = "old" THEN [age |-> "absent", count |-> 0]
                                ELSE conv[c]]
    /\ sweep' = {}
    /\ UNCHANGED <<h, stream, client, msgs, lastId, alone>>

Next == \/ \E r \in Requests : \/ Accept(r) \/ Reject(r) \/ Handler(r)
                               \/ Stream(r) \/ Disconnect(r)
        \/ \E c \in Convs : GrowOld(c)
        \/ CleanMessages \/ CleanConversations

Spec == Init /\ [][Next]_vars

--------------------------------------------------------------------------------
(* Safety.                                                                 *)

PCs == {"idle", "create", "load", "user", "userCount", "run", "iterate", "receive",
        "tools", "done", "save", "answerCount", "notify", "failed", "end"}

(* Handlers, streams, writers and the two tables stay within their types.  *)
TypeOK ==
    /\ \A r \in Requests :
          /\ h[r].pc \in PCs /\ h[r].route \in AllRoutes
          /\ h[r].conv \in Convs \cup {NoConv}
          /\ h[r].iter \in 0 .. MaxIterations /\ h[r].text \in 0 .. MaxChunks
          /\ h[r].calls \subseteq CallIds
          /\ prod[r].pc \in {"none", "request", "scan", "end"}
          /\ prod[r].n \in 0 .. MaxChunks /\ prod[r].accum \subseteq CallIds
          /\ Len(chan[r]) <= ChannelCap
          /\ ctx[r] \in BOOLEAN /\ link[r] \in BOOLEAN /\ closed[r] \in BOOLEAN
    /\ \A c \in Convs : conv[c].age \in {"absent", "old", "ripe", "fresh"}
    /\ msgs \subseteq Messages

(* What ends an answer for its client.                                     *)
Ends == {"done", "error", "refused"}

(* Done and Error of the writers, as Run and the handlers call them: an answer  *)
(* that is done is not also an error, a WebSocket is told one end, and on SSE    *)
(* only the conversation id or the error once more follows the end.           *)
EndsOnce ==
    \A r \in Requests :
        /\ ~(Got(r, "done") /\ Got(r, "error"))
        /\ h[r].route # "sse" => \A j, k \in DOMAIN seen[r] :
              seen[r][j] \in Ends /\ seen[r][k] \in Ends => j = k
        /\ h[r].route = "sse" =>
              \/ Len(seen[r]) <= 1
              \/ seen[r] \in {<<"done", "conversation_id">>, <<"error", "error">>}

(* Run and runStreamWithClient: a handler that no longer reads its channel    *)
(* leaves no goroutine behind that could block on it.                       *)
NoStreamLeft ==
    \A r \in Requests : h[r].pc # "receive" => prod[r].pc \in {"none", "end"}

(* The n messages behind position k answer the calls made there, each once. *)
Answers(q, k) ==
    LET n == Cardinality(q[k].calls)
    IN  /\ k + n <= Len(q)
        /\ \A j \in k + 1 .. k + n : q[j].role = "tool"
        /\ UNION {q[j].calls : j \in k + 1 .. k + n} = q[k].calls

Contiguous(acc) == acc = 0 .. Cardinality(acc) - 1

(* Run and runStreamWithClient: every request to the model answers each tool   *)
(* call of an earlier message once, directly behind that message, as the      *)
(* protocol demands; and an answer that came in whole, with its tool calls     *)
(* numbered from 0 without a gap, is not the last while there are any.        *)
CallsAnswered ==
    \A r \in Requests :
        /\ At(r, "receive") => \A k \in DOMAIN h[r].msgs :
              h[r].msgs[k].role = "assistant" => Answers(h[r].msgs, k)
        /\ At(r, "done") /\ prod[r].finished /\ Contiguous(prod[r].accum)
              => prod[r].accum = {}

Stored(r, role) == \E m \in msgs : m.req = r /\ m.role = role

(* handleChat, handleChatWS: an answer the client was told is done is in the  *)
(* conversation with the text of its last round, unless its request lost its  *)
(* context, a statement failed, or two tools were called.                    *)
AnswerSaved ==
    \A r \in Requests :
        /\ At(r, "end") /\ h[r].done /\ h[r].conv # NoConv /\ h[r].text > 0
        /\ ~h[r].dbfail
        => \E m \in msgs : m.req = r /\ m.role = "assistant" /\ m.text = h[r].text

(* handleChat: who was told the conversation id and then asks again is asked  *)
(* on top of the saved answer, within the limit of the history.              *)
FollowUpInformed ==
    \A r \in Requests :
        /\ h[r].pc \notin {"idle", "create", "load"}
        /\ ~h[r].dbfail
        /\ Cardinality(h[r].hist) < HistoryLimit
        => \A q \in h[r].told : Stored(q, "assistant") =>
              \E m \in h[r].hist : m.req = q /\ m.role = "assistant"

(* AddMessage and DeleteOldConversations: a message that was counted keeps    *)
(* its conversation, and the conversation counts at least the messages that   *)
(* are there.                                                               *)
KeptTogether ==
    \A m \in msgs : m.counted =>
        /\ conv[m.conv].age # "absent"
        /\ conv[m.conv].count >= Cardinality({n \in msgs : n.counted /\ n.conv = m.conv})

--------------------------------------------------------------------------------
(* Liveness: goroutines are scheduled, and the HTTP client's timeout ends a   *)
(* request to the model that does not end by itself.                         *)

Fairness == \A r \in Requests : WF_vars(Handler(r)) /\ WF_vars(Stream(r))

FairSpec == Spec /\ Fairness

(* handleChat, handleChatWS: whatever model, tools, client and database do,  *)
(* the handler returns, and a client that stayed got an end of its answer.   *)
ClientAnswered ==
    \A r \in Requests :
        ~At(r, "idle") ~> /\ At(r, "end")
                          /\ link[r] => \E e \in Ends : Got(r, e)

================================================================================
