----------------------------- MODULE AgentChatProofs ----------------------------
(***************************************************************************)
(* The chat requests, for any number of them, any number of rounds, chunks   *)
(* and tool calls, any capacity of the channel and any faults: one end for    *)
(* the client, no goroutine left on the channel, and every tool call          *)
(* answered.                                                               *)
(***************************************************************************)
EXTENDS AgentChat, FiniteSetTheorems, TLAPS

RunMessages == [role : {"user", "assistant", "tool"}, calls : SUBSET CallIds]

(* A handler that touches the tables has a conversation, and one in a round  *)
(* has a round left.                                                       *)
HandlerStates ==
    {g \in [pc : PCs, route : AllRoutes, conv : Convs \cup {NoConv}, hist : SUBSET Messages,
            told : SUBSET Requests, msgs : Seq(RunMessages), iter : Nat, text : Nat,
            calls : SUBSET CallIds, made : Nat, done : BOOLEAN, dbfail : BOOLEAN] :
        /\ g.pc \in {"load", "user", "userCount", "answerCount"} => g.conv \in Convs
        /\ g.pc \in {"receive", "tools"} => g.iter < MaxIterations
        /\ g.iter <= MaxIterations}

StreamStates == [pc : {"none", "request", "scan", "end"}, n : Nat, accum : SUBSET CallIds,
                 finished : BOOLEAN]

ChatEvents == [kind : {"error", "text", "finish"}, calls : SUBSET CallIds]

FinalEvents == {"done", "error", "refused", "conversation_id"}

ConvRows == [age : {"absent", "old", "ripe", "fresh"}, count : Nat]

ChatInv ==
    /\ h \in [Requests -> HandlerStates]
    /\ prod \in [Requests -> StreamStates]
    /\ chan \in [Requests -> Seq(ChatEvents)]
    /\ ctx \in [Requests -> BOOLEAN] /\ link \in [Requests -> BOOLEAN]
    /\ closed \in [Requests -> BOOLEAN]
    /\ seen \in [Requests -> Seq(FinalEvents)]
    /\ conv \in [Convs -> ConvRows]
    /\ msgs \subseteq Messages /\ lastId \in Nat /\ sweep \subseteq Convs

--------------------------------------------------------------------------------
(* How the state moves.                                                    *)

(* The handlers keep their types, and only r's moves.                      *)
Moved(r) == /\ h' \in [Requests -> HandlerStates]
            /\ \A q \in Requests \ {r} : h'[q] = h[q]

(* A handler state goes into the table of handlers.                        *)
LEMMA Typed ==
  ASSUME ChatInv, NEW r \in Requests, NEW g \in HandlerStates, h' = [h EXCEPT ![r] = g]
  PROVE  Moved(r) /\ h'[r] = g
BY DEF ChatInv, Moved

(* A handler moves on.                                                     *)
LEMMA Going ==
  ASSUME ChatInv, NEW r \in Requests, NEW pc, Goto(r, pc)
  PROVE  h' = [h EXCEPT ![r] = [h[r] EXCEPT !.pc = pc]]
BY DEF ChatInv, Goto

LEMMA GoingFailed ==
  ASSUME ChatInv, NEW r \in Requests, NEW pc, GotoFailed(r, pc)
  PROVE  h' = [h EXCEPT ![r] = [h[r] EXCEPT !.pc = pc, !.dbfail = TRUE]]
BY Zenon DEF ChatInv, GotoFailed

(* The places a handler reaches without a condition.                       *)
LEMMA AnyPlace ==
  ASSUME NEW g \in HandlerStates, NEW pc \in PCs,
         pc \in {"load", "user", "userCount", "answerCount"} => g.conv \in Convs,
         pc \in {"receive", "tools"} => g.iter < MaxIterations
  PROVE  /\ [g EXCEPT !.pc = pc] \in HandlerStates
         /\ [g EXCEPT !.pc = pc, !.dbfail = TRUE] \in HandlerStates
BY Zenon DEF HandlerStates

LEMMA GoingTyped ==
  ASSUME ChatInv, NEW r \in Requests, NEW pc \in PCs, Goto(r, pc) \/ GotoFailed(r, pc),
         pc \in {"load", "user", "userCount", "answerCount"} => h[r].conv \in Convs,
         pc \in {"receive", "tools"} => h[r].iter < MaxIterations
  PROVE  Moved(r)
<1>1. h[r] \in HandlerStates
  BY DEF ChatInv
<1>2. /\ [h[r] EXCEPT !.pc = pc] \in HandlerStates
      /\ [h[r] EXCEPT !.pc = pc, !.dbfail = TRUE] \in HandlerStates
  BY <1>1, AnyPlace, Zenon
<1>3. CASE Goto(r, pc)
  BY <1>2, <1>3, Going, Typed
<1>4. CASE GotoFailed(r, pc)
  <2>1. PICK g : g = [h[r] EXCEPT !.pc = pc, !.dbfail = TRUE]
    OBVIOUS
  <2>2. g \in HandlerStates /\ h' = [h EXCEPT ![r] = g]
    BY <1>2, <1>4, <2>1, GoingFailed, Zenon
  <2> QED
    BY <2>2, Typed, Zenon
<1> QED
  BY <1>3, <1>4

(* Accept, Reject and the handler keep the type of the handlers.           *)
LEMMA HandlerTyped ==
  ASSUME ChatInv, NEW r \in Requests, Accept(r) \/ Reject(r) \/ Handler(r)
  PROVE  Moved(r)
<1> DEFINE Same(g) == h' = [h EXCEPT ![r] = g]
<1>0. h[r] \in HandlerStates
  BY DEF ChatInv
<1>i. Idle \in HandlerStates
  BY ChatParameters DEF HandlerStates, Idle, PCs, AllRoutes
<1>p. /\ {"create", "load", "user", "userCount", "run"} \subseteq PCs
      /\ {"iterate", "receive", "tools", "done", "save"} \subseteq PCs
      /\ {"answerCount", "notify", "failed", "end"} \subseteq PCs
  BY DEF PCs
<1>t. ASSUME NEW g \in HandlerStates, Same(g) PROVE Moved(r)
  BY <1>t, Typed, Zenon
<1>1. CASE Accept(r)
  <2>1. PICK route \in Routes, c \in {NoConv, Shared} : Same(
             [Idle EXCEPT !.pc = IF c = NoConv THEN "create" ELSE "load",
                          !.route = route, !.conv = c,
                          !.told = {q \in Requests : h[q].conv = c /\ Got(q, "conversation_id")}])
    BY <1>1, Zenon DEF Accept
  <2>2. PICK pc, told : /\ pc = (IF c = NoConv THEN "create" ELSE "load")
                        /\ told = {q \in Requests : h[q].conv = c /\ Got(q, "conversation_id")}
    BY Zenon
  <2>3. PICK g : g = [Idle EXCEPT !.pc = pc, !.route = route, !.conv = c, !.told = told]
    OBVIOUS
  <2>4. pc \in PCs /\ route \in AllRoutes /\ told \in SUBSET Requests
        /\ c \in Convs \cup {NoConv} /\ (pc # "create" => pc = "load" /\ c \in Convs)
    BY <2>2, ChatParameters, <1>p DEF Convs
  <2>5. g \in HandlerStates
    BY <1>i, <2>3, <2>4, Zenon DEF HandlerStates
  <2> QED
    BY <1>t, <2>1, <2>2, <2>3, <2>5, Zenon
<1>2. CASE Reject(r)
  <2>1. PICK route \in Routes : Same([Idle EXCEPT !.pc = "end", !.route = route])
    BY <1>2, Zenon DEF Reject
  <2>2. [Idle EXCEPT !.pc = "end", !.route = route] \in HandlerStates
    BY <1>i, <1>p, ChatParameters, Zenon DEF HandlerStates
  <2> QED
    BY <1>t, <2>1, <2>2, Zenon
<1>3. CASE Load(r)
  <2>1. h[r].conv \in Convs
    BY <1>0, <1>3 DEF Load, At, HandlerStates
  <2>2. CASE \E rows \in SUBSET msgs : h' = [h EXCEPT ![r].pc = "user", ![r].hist = rows]
    <3>1. PICK rows \in SUBSET msgs : h' = [h EXCEPT ![r].pc = "user", ![r].hist = rows]
      BY <2>2, Zenon
    <3>2. PICK g : g = [h[r] EXCEPT !.pc = "user", !.hist = rows]
      OBVIOUS
    <3>3. g \in HandlerStates
      BY <1>0, <1>p, <2>1, <3>2, Zenon DEF HandlerStates, ChatInv
    <3>4. Same(g)
      BY <3>1, <3>2, Zenon DEF ChatInv
    <3> QED
      BY <1>t, <3>3, <3>4, Zenon
  <2> QED
    BY <1>3, <1>p, <2>1, <2>2, GoingTyped DEF Load
<1>4. CASE Create(r)
  <2>1. CASE h' = [h EXCEPT ![r].pc = "user", ![r].conv = r]
    <3>1. PICK g : g = [h[r] EXCEPT !.pc = "user", !.conv = r]
      OBVIOUS
    <3>2. g \in HandlerStates
      BY <1>0, <1>p, <3>1, Zenon DEF HandlerStates, Convs
    <3>3. Same(g)
      BY <2>1, <3>1, Zenon DEF ChatInv
    <3> QED
      BY <1>t, <3>2, <3>3, Zenon
  <2> QED
    BY <1>4, <1>p, <2>1, GoingTyped DEF Create
<1>5. CASE SaveUser(r) \/ CountUser(r) \/ SaveAnswer(r) \/ CountAnswer(r) \/ Notify(r) \/ Failed(r)
  <2>1. \/ \E pc \in {"run", "notify", "end"} : Goto(r, pc) \/ GotoFailed(r, pc)
        \/ h[r].conv \in Convs /\ Goto(r, "userCount")
        \/ h[r].conv # NoConv /\ Goto(r, "answerCount")
    BY <1>0, <1>5 DEF SaveUser, CountUser, SaveAnswer, CountAnswer, Notify, Failed, At, Saves,
       HandlerStates
  <2>2. h[r].conv \in Convs \cup {NoConv}
    BY <1>0 DEF HandlerStates
  <2> QED
    BY <1>p, <2>1, <2>2, GoingTyped
<1>6. CASE StartRun(r)
  <2>1. CASE h' = [h EXCEPT ![r].pc = "iterate", ![r].msgs = <<[role |-> "user", calls |-> {}]>>]
    <3>1. PICK g, q : /\ q = <<[role |-> "user", calls |-> {}]>>
                      /\ g = [h[r] EXCEPT !.pc = "iterate", !.msgs = q]
      BY Zenon
    <3>2. q \in Seq(RunMessages)
      BY <3>1 DEF RunMessages
    <3>3. g = [h[r] EXCEPT !.pc = "iterate", !.msgs = q] /\ "iterate" \in PCs
      BY <1>p, <3>1
    <3>4. g \in HandlerStates
      BY <1>0, <3>2, <3>3, Zenon DEF HandlerStates
    <3>5. Same(g)
      BY <2>1, <3>1, Zenon DEF ChatInv
    <3> QED
      BY <1>t, <3>4, <3>5, Zenon
  <2> QED
    BY <1>6, <1>p, <2>1, GoingTyped DEF StartRun
<1>7. CASE WholeRun(r)
  <2>1. CASE \E n \in {0, 1}, k \in {0, 2} :
                h' = [h EXCEPT ![r].pc = "save", ![r].done = TRUE, ![r].text = n, ![r].made = k]
    <3>1. PICK n \in {0, 1}, k \in {0, 2} :
             h' = [h EXCEPT ![r].pc = "save", ![r].done = TRUE, ![r].text = n, ![r].made = k]
      BY <2>1, Zenon
    <3>2. PICK g : g = [h[r] EXCEPT !.pc = "save", !.done = TRUE, !.text = n, !.made = k]
      OBVIOUS
    <3>3. n \in Nat /\ k \in Nat /\ "save" \in PCs
      BY <1>p
    <3>4. g \in HandlerStates
      BY <1>0, <3>2, <3>3, Zenon DEF HandlerStates
    <3>5. Same(g)
      BY <3>1, <3>2, Zenon DEF ChatInv
    <3> QED
      BY <1>t, <3>4, <3>5, Zenon
  <2>2. CASE Goto(r, "failed")
    BY <1>p, <2>2, GoingTyped
  <2> QED
    BY <1>7, <2>1, <2>2, Zenon DEF WholeRun
<1>8. CASE Iterate(r)
  <2>1. CASE ~OverBudget(r) /\ h' = [h EXCEPT ![r].pc = "receive", ![r].text = 0]
    <3>1. PICK g : g = [h[r] EXCEPT !.pc = "receive", !.text = 0]
      OBVIOUS
    <3>2. h[r].iter < MaxIterations
      BY <1>0, <2>1, ChatParameters DEF OverBudget, HandlerStates
    <3>3. g \in HandlerStates
      BY <1>0, <1>p, <3>1, <3>2, Zenon DEF HandlerStates
    <3>4. Same(g)
      BY <2>1, <3>1, Zenon DEF ChatInv
    <3> QED
      BY <1>t, <3>3, <3>4, Zenon
  <2> QED
    BY <1>8, <1>p, <2>1, GoingTyped DEF Iterate
<1>9. CASE Receive(r)
  <2>1. PICK e : e = Head(chan[r])
    OBVIOUS
  <2>2. e \in ChatEvents /\ h[r].text + 1 \in Nat
    BY <1>0, <1>9, <2>1 DEF Receive, ChatInv, HandlerStates
  <2>3. CASE h' = [h EXCEPT ![r].text = @ + 1]
    <3>1. PICK g : g = [h[r] EXCEPT !.text = h[r].text + 1]
      BY Zenon
    <3>2. g \in HandlerStates
      BY <1>0, <2>2, <3>1 DEF HandlerStates
    <3>3. Same(g)
      BY <2>3, <3>1 DEF ChatInv
    <3> QED
      BY <1>t, <3>2, <3>3, Zenon
  <2>4. CASE h' = [h EXCEPT ![r].calls = e.calls]
    <3>1. PICK g : g = [h[r] EXCEPT !.calls = e.calls]
      BY Zenon
    <3>2. g \in HandlerStates
      BY <1>0, <2>2, <3>1 DEF HandlerStates, ChatEvents
    <3>3. Same(g)
      BY <2>4, <3>1 DEF ChatInv
    <3> QED
      BY <1>t, <3>2, <3>3, Zenon
  <2> QED
    BY <1>9, <1>p, <2>1, <2>3, <2>4, GoingTyped DEF Receive
<1>10. CASE EndOfStream(r)
  <2>1. CASE h' = [h EXCEPT ![r].pc = "tools",
                            ![r].msgs = Append(@, [role |-> "assistant", calls |-> h[r].calls])]
    <3>1. PICK q : q = Append(h[r].msgs, [role |-> "assistant", calls |-> h[r].calls])
      BY Zenon
    <3>2. q \in Seq(RunMessages)
      BY <1>0, <3>1 DEF RunMessages, HandlerStates
    <3>3. PICK g : g = [h[r] EXCEPT !.pc = "tools", !.msgs = q]
      OBVIOUS
    <3>4. g \in HandlerStates
      BY <1>0, <1>10, <1>p, <3>2, <3>3, Zenon DEF HandlerStates, EndOfStream, At
    <3>5. Same(g)
      BY <2>1, <3>1, <3>3, Zenon DEF ChatInv
    <3> QED
      BY <1>t, <3>4, <3>5, Zenon
  <2> QED
    BY <1>10, <1>p, <2>1, GoingTyped DEF EndOfStream
<1>11. CASE ExecuteTool(r)
  <2>1. PICK i \in h[r].calls, ok \in BOOLEAN :
           h' = [h EXCEPT ![r].calls = @ \ {i},
                          ![r].msgs = Append(@, [role |-> "tool", calls |-> {i}]),
                          ![r].made = IF ok THEN @ + 1 ELSE @]
    BY <1>11, Zenon DEF ExecuteTool
  <2>2. PICK todo, q, made : /\ todo = h[r].calls \ {i}
                             /\ q = Append(h[r].msgs, [role |-> "tool", calls |-> {i}])
                             /\ made = (IF ok THEN h[r].made + 1 ELSE h[r].made)
    BY Zenon
  <2>3. q \in Seq(RunMessages) /\ todo \in SUBSET CallIds /\ made \in Nat
    BY <1>0, <2>2 DEF RunMessages, HandlerStates
  <2>4. PICK g : g = [h[r] EXCEPT !.calls = todo, !.msgs = q, !.made = made]
    OBVIOUS
  <2>5. g \in HandlerStates
    BY <1>0, <2>3, <2>4, Zenon DEF HandlerStates
  <2>6. Same(g)
    BY <2>1, <2>2, <2>4, Zenon DEF ChatInv
  <2> QED
    BY <1>t, <2>5, <2>6, Zenon
<1>12. CASE ToolsDone(r)
  <2>1. PICK g : g = [h[r] EXCEPT !.pc = "iterate", !.iter = h[r].iter + 1]
    OBVIOUS
  <2>2. h[r].iter \in Nat /\ h[r].iter < MaxIterations /\ MaxIterations \in Nat
    BY <1>0, <1>12, ChatParameters DEF HandlerStates, ToolsDone, At
  <2>3. h[r].iter + 1 \in Nat /\ h[r].iter + 1 <= MaxIterations /\ "iterate" \in PCs
    BY <1>p, <2>2
  <2>4. g \in HandlerStates
    BY <1>0, <2>1, <2>3, Zenon DEF HandlerStates
  <2>5. Same(g)
    BY <1>12, <2>1, Zenon DEF ChatInv, ToolsDone
  <2> QED
    BY <1>t, <2>4, <2>5, Zenon
<1>13. CASE Done(r)
  <2>1. PICK g : g = [h[r] EXCEPT !.pc = "save", !.done = TRUE]
    OBVIOUS
  <2>2. g \in HandlerStates
    BY <1>0, <1>p, <2>1, Zenon DEF HandlerStates
  <2>3. Same(g)
    BY <1>13, <2>1, Zenon DEF ChatInv, Done
  <2> QED
    BY <1>t, <2>2, <2>3, Zenon
<1> QED
  BY <1>1, <1>2, <1>3, <1>4, <1>5, <1>6, <1>7, <1>8, <1>9, <1>10, <1>11, <1>12, <1>13
     DEF Handler

(* The writers.                                                            *)
LEMMA SentTyped ==
  ASSUME ChatInv, NEW r \in Requests, NEW e \in FinalEvents, Send(r, e)
  PROVE  /\ seen' \in [Requests -> Seq(FinalEvents)]
         /\ \A q \in Requests \ {r} : seen'[q] = seen[q]
         /\ seen'[r] = seen[r] \/ (~closed[r] /\ seen'[r] = Append(seen[r], e))
<1>1. seen[r] \in Seq(FinalEvents)
  BY DEF ChatInv
<1>2. Append(seen[r], e) \in Seq(FinalEvents)
  BY <1>1
<1> QED
  BY <1>2 DEF ChatInv, Send

LEMMA SentFinal ==
  ASSUME ChatInv, NEW r \in Requests, NEW e \in FinalEvents, SendFinal(r, e)
  PROVE  /\ Send(r, e)
         /\ closed' \in [Requests -> BOOLEAN]
         /\ \A q \in Requests \ {r} : closed'[q] = closed[q]
         /\ closed'[r] <=> closed[r] \/ h[r].route # "sse"
<1>1. PICK b \in BOOLEAN : b = (closed[r] \/ h[r].route # "sse")
  BY Zenon
<1>2. closed' = [closed EXCEPT ![r] = b] /\ closed \in [Requests -> BOOLEAN]
  BY <1>1 DEF SendFinal, ChatInv
<1> QED
  BY <1>1, <1>2, Zenon DEF SendFinal

(* The stream.                                                             *)
LEMMA StreamTyped ==
  ASSUME ChatInv, NEW r \in Requests, Stream(r) \/ Iterate(r) \/ Receive(r)
  PROVE  /\ prod' \in [Requests -> StreamStates] /\ chan' \in [Requests -> Seq(ChatEvents)]
         /\ \A q \in Requests \ {r} : prod'[q] = prod[q] /\ chan'[q] = chan[q]
<1>0. /\ prod[r] \in StreamStates /\ chan[r] \in Seq(ChatEvents)
      /\ prod \in [Requests -> StreamStates] /\ chan \in [Requests -> Seq(ChatEvents)]
  BY DEF ChatInv
<1>p. ASSUME NEW g \in StreamStates, prod' = [prod EXCEPT ![r] = g]
      PROVE  /\ prod' \in [Requests -> StreamStates]
             /\ \A q \in Requests \ {r} : prod'[q] = prod[q]
  BY <1>0, <1>p
<1>c. ASSUME NEW s \in Seq(ChatEvents), chan' = [chan EXCEPT ![r] = s]
      PROVE  /\ chan' \in [Requests -> Seq(ChatEvents)]
             /\ \A q \in Requests \ {r} : chan'[q] = chan[q]
  BY <1>0, <1>c
<1>e. ASSUME NEW e \in ChatEvents, Emit(r, <<e>>)
      PROVE  /\ chan' \in [Requests -> Seq(ChatEvents)]
             /\ \A q \in Requests \ {r} : chan'[q] = chan[q]
  <2>1. PICK s : s = chan[r] \o <<e>>
    BY Zenon
  <2>2. s \in Seq(ChatEvents)
    BY <1>0, <2>1
  <2>3. chan' = [chan EXCEPT ![r] = s]
    BY <1>e, <2>1 DEF Emit
  <2> QED
    BY <1>c, <2>2, <2>3, Zenon
<1>1. CASE StreamError(r)
  <2>1. [prod[r] EXCEPT !.pc = "end"] \in StreamStates /\ Error \in ChatEvents
    BY <1>0, Zenon DEF StreamStates, Error, ChatEvents
  <2> QED
    BY <1>1, <1>e, <1>p, <2>1, Zenon DEF StreamError
<1>2. CASE StreamOpen(r)
  <2>1. [prod[r] EXCEPT !.pc = "scan"] \in StreamStates
    BY <1>0, Zenon DEF StreamStates
  <2> QED
    BY <1>0, <1>2, <1>p, <2>1, Zenon DEF StreamOpen
<1>3. CASE StreamEnd(r)
  <2>1. [prod[r] EXCEPT !.pc = "end"] \in StreamStates
    BY <1>0, Zenon DEF StreamStates
  <2> QED
    BY <1>0, <1>3, <1>p, <2>1, Zenon DEF StreamEnd
<1>4. CASE StreamChunk(r)
  <2>1. CASE Emit(r, <<Text>>) /\ prod' = [prod EXCEPT ![r].n = @ + 1]
    <3>1. PICK n \in Nat : n = prod[r].n + 1
      BY <1>0 DEF StreamStates
    <3>2. [prod[r] EXCEPT !.n = n] \in StreamStates
      BY <1>0, Zenon DEF StreamStates
    <3>3. prod' = [prod EXCEPT ![r] = [prod[r] EXCEPT !.n = n]]
      BY <2>1, <3>1
    <3>4. Text \in ChatEvents
      BY DEF Text, ChatEvents
    <3> QED
      BY <1>e, <1>p, <2>1, <3>2, <3>3, <3>4, Zenon
  <2>2. CASE /\ \E i \in CallIds : prod' = [prod EXCEPT ![r].n = @ + 1, ![r].accum = @ \cup {i}]
             /\ chan' = chan
    <3>1. PICK i \in CallIds : prod' = [prod EXCEPT ![r].n = @ + 1, ![r].accum = @ \cup {i}]
      BY <2>2, Zenon
    <3>2. PICK n, acc : n = prod[r].n + 1 /\ acc = prod[r].accum \cup {i}
      BY Zenon
    <3>a. n \in Nat /\ acc \in SUBSET CallIds
      BY <1>0, <3>2 DEF StreamStates
    <3>3. PICK g : g = [prod[r] EXCEPT !.n = n, !.accum = acc]
      OBVIOUS
    <3>4. g \in StreamStates
      BY <1>0, <3>3, <3>a, Zenon DEF StreamStates
    <3>5. prod' = [prod EXCEPT ![r] = g]
      BY <1>0, <3>1, <3>2, <3>3, Zenon
    <3> QED
      BY <1>0, <1>p, <2>2, <3>4, <3>5, Zenon
  <2> QED
    BY <1>4, <2>1, <2>2 DEF StreamChunk
<1>5. CASE StreamFinish(r)
  <2>1. PICK g, e : /\ g = [prod[r] EXCEPT !.finished = TRUE]
                    /\ e = [kind |-> "finish", calls |-> Accumulated(prod[r].accum)]
    BY Zenon
  <2>2. g \in StreamStates
    BY <1>0, <2>1, Zenon DEF StreamStates
  <2>3. e \in ChatEvents
    BY <1>0, <2>1 DEF StreamStates, Accumulated, ChatEvents
  <2>4. prod' = [prod EXCEPT ![r] = g] /\ Emit(r, <<e>>)
    BY <1>5, <2>1 DEF StreamFinish
  <2> QED
    BY <1>e, <1>p, <2>2, <2>3, <2>4, Zenon
<1>6. CASE Iterate(r)
  <2>1. [NoStream EXCEPT !.pc = "request"] \in StreamStates /\ <<>> \in Seq(ChatEvents)
    <3>1. NoStream \in StreamStates
      BY DEF StreamStates, NoStream
    <3> QED
      BY <3>1 DEF StreamStates
  <2>2. CASE UNCHANGED stream
    BY <1>0, <2>2 DEF stream
  <2>3. CASE /\ prod' = [prod EXCEPT ![r] = [NoStream EXCEPT !.pc = "request"]]
             /\ chan' = [chan EXCEPT ![r] = <<>>]
    BY <1>c, <1>p, <2>1, <2>3, Zenon
  <2> QED
    BY <1>6, <2>2, <2>3 DEF Iterate
<1>7. CASE Receive(r)
  <2>1. chan' = [chan EXCEPT ![r] = Tail(chan[r])] /\ prod' = prod /\ chan[r] # <<>>
    BY <1>7 DEF Receive
  <2>2. Tail(chan[r]) \in Seq(ChatEvents)
    BY <1>0, <2>1
  <2> QED
    BY <1>0, <1>c, <2>1, <2>2
<1> QED
  BY <1>1, <1>2, <1>3, <1>4, <1>5, <1>6, <1>7 DEF Stream

(* The rows of the tables.                                                 *)
LEMMA InsertTyped ==
  ASSUME ChatInv, NEW r \in Requests, NEW role \in {"user", "assistant"}, NEW n \in Nat,
         h[r].conv \in Convs, InsertMessage(r, role, n)
  PROVE  msgs' \subseteq Messages /\ lastId' \in Nat
<1>1. PICK id \in Nat : id = lastId + 1
  BY DEF ChatInv
<1>2. [id |-> id, conv |-> h[r].conv, role |-> role, req |-> r, text |-> n, counted |-> FALSE]
        \in Messages
  BY DEF Messages
<1> QED
  BY <1>1, <1>2, Zenon DEF ChatInv, InsertMessage

LEMMA CountTyped ==
  ASSUME ChatInv, NEW r \in Requests, NEW role, h[r].conv \in Convs, CountMessage(r, role)
  PROVE  msgs' \subseteq Messages /\ lastId' = lastId /\ conv' \in [Convs -> ConvRows]
<1>1. CASE UNCHANGED tables
  BY <1>1 DEF tables, ChatInv
<1>2. CASE /\ conv' = [conv EXCEPT ![h[r].conv] = [age |-> "fresh", count |-> @.count + 1]]
           /\ msgs' = {IF m.req = r /\ m.role = role THEN [m EXCEPT !.counted = TRUE] ELSE m :
                           m \in msgs}
           /\ UNCHANGED lastId
  <2>1. \A m \in msgs : m \in Messages /\ [m EXCEPT !.counted = TRUE] \in Messages
    BY Zenon DEF ChatInv, Messages
  <2>2. msgs' \subseteq Messages
    BY <1>2, <2>1, Zenon
  <2>3. PICK c \in Convs : c = h[r].conv
    OBVIOUS
  <2>4. conv[c] \in ConvRows /\ conv \in [Convs -> ConvRows]
    BY DEF ChatInv
  <2>5. PICK x : x = [age |-> "fresh", count |-> conv[c].count + 1]
    BY Zenon
  <2>6. x \in ConvRows
    BY <2>4, <2>5 DEF ConvRows
  <2>7. conv' = [conv EXCEPT ![c] = x]
    BY <1>2, <2>3, <2>5
  <2> QED
    BY <1>2, <2>2, <2>4, <2>6, <2>7
<1> QED
  BY <1>1, <1>2 DEF CountMessage

LEMMA TablesTyped ==
  ASSUME ChatInv, NEW r \in Requests, Handler(r)
  PROVE  conv' \in [Convs -> ConvRows] /\ msgs' \subseteq Messages /\ lastId' \in Nat
<1>0. /\ h[r] \in HandlerStates /\ lastId \in Nat
      /\ conv \in [Convs -> ConvRows] /\ msgs \subseteq Messages
  BY DEF ChatInv
<1>1. CASE UNCHANGED tables
  BY <1>0, <1>1 DEF tables
<1>2. CASE Create(r)
  <2>1. [age |-> "fresh", count |-> 0] \in ConvRows /\ r \in Convs
    BY DEF ConvRows, Convs
  <2> QED
    BY <1>0, <1>2, <2>1 DEF Create
<1>3. CASE SaveUser(r)
  <2>1. h[r].conv \in Convs
    BY <1>0, <1>3 DEF SaveUser, At, HandlerStates
  <2> QED
    BY <1>0, <1>3, <2>1, InsertTyped DEF SaveUser
<1>4. CASE CountUser(r) \/ CountAnswer(r)
  <2>1. h[r].conv \in Convs
    BY <1>0, <1>4 DEF CountUser, CountAnswer, At, HandlerStates
  <2> QED
    BY <1>0, <1>1, <1>4, <2>1, CountTyped DEF CountUser, CountAnswer
<1>5. CASE SaveAnswer(r)
  <2>1. h[r].text \in Nat /\ (Saves(r) => h[r].conv \in Convs)
    BY <1>0 DEF Saves, HandlerStates
  <2> QED
    BY <1>0, <1>5, <2>1, InsertTyped DEF SaveAnswer
<1>6. CASE \/ Load(r) \/ StartRun(r) \/ WholeRun(r) \/ Iterate(r) \/ Receive(r) \/ EndOfStream(r)
          \/ ExecuteTool(r) \/ ToolsDone(r) \/ Done(r) \/ Notify(r) \/ Failed(r)
  BY <1>1, <1>6, Zenon DEF Load, StartRun, WholeRun, Iterate, Receive, EndOfStream, ExecuteTool,
     ToolsDone, Done, Notify, Failed
<1> QED
  BY <1>2, <1>3, <1>4, <1>5, <1>6 DEF Handler

(* What a handler tells its client.                                        *)
LEMMA WriterTyped ==
  ASSUME ChatInv, NEW r \in Requests, Handler(r)
  PROVE  /\ seen' \in [Requests -> Seq(FinalEvents)] /\ closed' \in [Requests -> BOOLEAN]
         /\ \A q \in Requests \ {r} : seen'[q] = seen[q] /\ closed'[q] = closed[q]
<1>0. /\ seen \in [Requests -> Seq(FinalEvents)] /\ closed \in [Requests -> BOOLEAN]
      /\ "done" \in FinalEvents /\ "error" \in FinalEvents /\ "conversation_id" \in FinalEvents
  BY DEF ChatInv, FinalEvents
<1>1. CASE UNCHANGED <<seen, closed>>
  BY <1>0, <1>1
<1>2. CASE SendFinal(r, "error") \/ SendFinal(r, "done")
  BY <1>0, <1>2, SentFinal, SentTyped
<1>3. CASE Notify(r)
  BY <1>0, <1>3, SentTyped DEF Notify
<1>4. CASE \/ Load(r) \/ Create(r) \/ SaveUser(r) \/ CountUser(r) \/ EndOfStream(r)
          \/ ExecuteTool(r) \/ ToolsDone(r) \/ SaveAnswer(r) \/ CountAnswer(r)
  BY <1>1, <1>4, Zenon
     DEF Load, Create, SaveUser, CountUser, EndOfStream, ExecuteTool, ToolsDone,
     SaveAnswer, CountAnswer, client
<1>5. CASE StartRun(r) \/ WholeRun(r) \/ Iterate(r) \/ Receive(r) \/ Done(r) \/ Failed(r)
  BY <1>1, <1>2, <1>5 DEF StartRun, WholeRun, Iterate, Receive, Done, Failed, client
<1> QED
  BY <1>3, <1>4, <1>5 DEF Handler

(* A request that stands still.                                            *)
Still(q) == /\ h'[q] = h[q] /\ prod'[q] = prod[q] /\ chan'[q] = chan[q]
            /\ seen'[q] = seen[q] /\ closed'[q] = closed[q]

Acts(r) == Accept(r) \/ Reject(r) \/ Handler(r) \/ Stream(r)

(* A request at work.                                                      *)
LEMMA ActsTyped ==
  ASSUME ChatInv, NEW r \in Requests, Acts(r)
  PROVE  ChatInv' /\ \A q \in Requests \ {r} : Still(q)
<1>0. /\ prod \in [Requests -> StreamStates] /\ chan \in [Requests -> Seq(ChatEvents)]
      /\ ctx \in [Requests -> BOOLEAN] /\ link \in [Requests -> BOOLEAN]
      /\ seen \in [Requests -> Seq(FinalEvents)] /\ closed \in [Requests -> BOOLEAN]
      /\ conv \in [Convs -> ConvRows] /\ msgs \subseteq Messages /\ lastId \in Nat
      /\ sweep \subseteq Convs /\ h \in [Requests -> HandlerStates]
  BY DEF ChatInv
<1>1. CASE Accept(r)
  BY <1>0, <1>1, HandlerTyped, Zenon DEF ChatInv, Moved, Still, Accept, stream, client, tables
<1>2. CASE Reject(r)
  <2>1. PICK e \in FinalEvents : Send(r, e) /\ closed' = [closed EXCEPT ![r] = TRUE]
    BY <1>2 DEF Reject, FinalEvents
  <2>2. /\ seen' \in [Requests -> Seq(FinalEvents)] /\ \A q \in Requests \ {r} : seen'[q] = seen[q]
        /\ closed' \in [Requests -> BOOLEAN] /\ \A q \in Requests \ {r} : closed'[q] = closed[q]
    BY <1>0, <2>1, SentTyped
  <2> QED
    BY <1>0, <1>2, <2>2, HandlerTyped, Zenon DEF ChatInv, Moved, Still, Reject, stream, tables
<1>3. CASE Handler(r)
  <2>1. UNCHANGED <<ctx, link, sweep>>
    BY <1>3, Zenon
       DEF Handler, Load, Create, SaveUser, CountUser, StartRun, WholeRun, Iterate, Receive,
       EndOfStream, ExecuteTool, ToolsDone, Done, SaveAnswer, CountAnswer, Notify, Failed, client
  <2>2. UNCHANGED <<prod, chan>> \/ Iterate(r) \/ Receive(r)
    BY <1>3, Zenon DEF Handler, Load, Create, SaveUser, CountUser, StartRun, WholeRun,
       EndOfStream, ExecuteTool, ToolsDone, Done, SaveAnswer, CountAnswer, Notify, Failed, stream
  <2>3. /\ prod' \in [Requests -> StreamStates] /\ chan' \in [Requests -> Seq(ChatEvents)]
        /\ \A q \in Requests \ {r} : prod'[q] = prod[q] /\ chan'[q] = chan[q]
    BY <1>0, <2>2, StreamTyped
  <2> QED
    BY <1>0, <1>3, <2>1, <2>3, HandlerTyped, WriterTyped, TablesTyped
       DEF ChatInv, Moved, Still
<1>4. CASE Stream(r)
  <2>1. UNCHANGED <<h, client, tables, sweep>>
    BY <1>4 DEF Stream, StreamError, StreamOpen, StreamChunk, StreamFinish, StreamEnd
  <2> QED
    BY <1>0, <1>4, <2>1, StreamTyped DEF ChatInv, Still, client, tables
<1> QED
  BY <1>1, <1>2, <1>3, <1>4 DEF Acts

(* The client, the clock and the cleanup.                                  *)
Outside == \/ \E r \in Requests : Disconnect(r)
           \/ \E c \in Convs : GrowOld(c)
           \/ CleanMessages \/ CleanConversations \/ UNCHANGED vars

LEMMA OutsideTyped ==
  ASSUME ChatInv, Outside
  PROVE  ChatInv' /\ UNCHANGED <<h, prod, chan, seen, closed>>
<1>0. /\ ctx \in [Requests -> BOOLEAN] /\ link \in [Requests -> BOOLEAN]
      /\ conv \in [Convs -> ConvRows] /\ msgs \subseteq Messages /\ sweep \subseteq Convs
  BY DEF ChatInv
<1>1. ASSUME NEW r \in Requests, Disconnect(r)
      PROVE  ChatInv' /\ UNCHANGED <<h, prod, chan, seen, closed>>
  <2>1. PICK b \in BOOLEAN : b = (h[r].route # "sse")
    BY Zenon
  <2>2. link' = [link EXCEPT ![r] = FALSE] /\ ctx' = [ctx EXCEPT ![r] = b]
    BY <1>1, <2>1 DEF Disconnect
  <2>3. link' \in [Requests -> BOOLEAN] /\ ctx' \in [Requests -> BOOLEAN]
    BY <1>0, <2>2
  <2> QED
    BY <1>1, <2>3 DEF ChatInv, Disconnect, stream, tables
<1>2. ASSUME NEW c \in Convs, GrowOld(c)
      PROVE  ChatInv' /\ UNCHANGED <<h, prod, chan, seen, closed>>
  <2>1. [conv[c] EXCEPT !.age = "old"] \in ConvRows
    BY <1>0 DEF ConvRows
  <2>2. conv' \in [Convs -> ConvRows]
    BY <1>0, <1>2, <2>1 DEF GrowOld
  <2> QED
    BY <1>2, <2>2 DEF ChatInv, GrowOld, stream, client
<1>3. CASE CleanMessages
  BY <1>0, <1>3 DEF ChatInv, CleanMessages, stream, client
<1>4. CASE CleanConversations
  <2>1. [age |-> "absent", count |-> 0] \in ConvRows
    BY DEF ConvRows
  <2>2. conv' \in [Convs -> ConvRows]
    BY <1>0, <1>4, <2>1 DEF CleanConversations
  <2> QED
    BY <1>4, <2>2 DEF ChatInv, CleanConversations, stream, client
<1>5. CASE UNCHANGED vars
  BY <1>5 DEF ChatInv, vars
<1> QED
  BY <1>1, <1>2, <1>3, <1>4, <1>5 DEF Outside

(* Every step is one of a request or comes from outside.                   *)
LEMMA StepKinds == [Next]_vars => Outside \/ \E r \in Requests : Acts(r)
BY DEF Next, Outside, Acts

LEMMA InitChat == Init => ChatInv
<1> SUFFICES ASSUME Init PROVE ChatInv
  OBVIOUS
<1>1. Idle \in HandlerStates
  BY ChatParameters DEF HandlerStates, Idle, PCs, AllRoutes
<1>2. NoStream \in StreamStates
  BY DEF NoStream, StreamStates
<1>3. conv \in [Convs -> ConvRows]
  BY DEF Init, ConvRows
<1> QED
  BY <1>1, <1>2, <1>3 DEF Init, ChatInv

--------------------------------------------------------------------------------
(* What the client is told.                                                *)

Asked == {"idle", "create", "load", "user", "userCount", "run", "iterate", "receive", "tools",
          "done"}

Answered == {"save", "answerCount", "notify"}

(* By the place of the handler: a WebSocket that got its end is closed when  *)
(* the handler comes to its writer again.                                  *)
Told(r) ==
    \/ h[r].pc \in Asked /\ seen[r] = <<>>
    \/ /\ h[r].pc \in Answered /\ seen[r] \in {<<>>, <<"done">>}
       /\ h[r].route # "sse" => closed[r]
    \/ /\ h[r].pc = "failed" /\ seen[r] \in {<<>>, <<"error">>}
       /\ h[r].route # "sse" /\ seen[r] # <<>> => closed[r]
    \/ /\ h[r].pc = "end"
       /\ \/ seen[r] \in {<<>>, <<"done">>, <<"error">>, <<"refused">>}
          \/ seen[r] = <<"conversation_id">> /\ h[r].conv # NoConv
          \/ /\ h[r].route = "sse"
             /\ \/ seen[r] = <<"done", "conversation_id">> /\ h[r].conv # NoConv
                \/ seen[r] = <<"error", "error">>

(* Places and routes after a step.                                         *)
Goes(r, pc) == h'[r].pc = pc /\ h'[r].route = h[r].route /\ h'[r].conv = h[r].conv

LEMMA GoesOn ==
  ASSUME ChatInv, NEW r \in Requests, NEW pc, Goto(r, pc) \/ GotoFailed(r, pc)
  PROVE  Goes(r, pc)
<1>1. h[r] \in HandlerStates /\ h \in [Requests -> HandlerStates]
  BY DEF ChatInv
<1>2. CASE Goto(r, pc)
  <2>1. h'[r] = [h[r] EXCEPT !.pc = pc]
    BY <1>1, <1>2 DEF Goto
  <2> QED
    BY <1>1, <2>1 DEF HandlerStates, Goes
<1>3. CASE GotoFailed(r, pc)
  <2>1. h'[r] = [h[r] EXCEPT !.pc = pc, !.dbfail = TRUE]
    BY <1>1, <1>3 DEF GotoFailed
  <2> QED
    BY <1>1, <2>1 DEF HandlerStates, Goes
<1> QED
  BY <1>2, <1>3

(* Two lists of the same events.                                           *)
LEMMA SameEvents ==
  ASSUME NEW S, NEW s \in Seq(S), NEW t \in Seq(S), Len(s) = Len(t),
         \A k \in 1 .. Len(s) : s[k] = t[k]
  PROVE  s = t
  OBVIOUS

(* A second event.                                                         *)
LEMMA TwoEvents ==
  ASSUME NEW e, NEW f
  PROVE  Append(<<e>>, f) = <<e, f>>
<1> DEFINE both == Append(<<e>>, f)
<1>1. both \in Seq({e, f}) /\ Len(both) = 2 /\ both[1] = e /\ both[2] = f
  OBVIOUS
<1>2. <<e, f>> \in Seq({e, f}) /\ Len(<<e, f>>) = 2
  OBVIOUS
<1>3. \A k \in 1 .. 2 : both[k] = <<e, f>>[k]
  BY <1>1
<1> QED
  BY <1>1, <1>2, <1>3, SameEvents, Zenon

(* The steps that tell the client nothing.                                 *)
LEMMA TellsNothing ==
  ASSUME ChatInv, NEW r \in Requests, Told(r), UNCHANGED <<seen, closed>>,
         \/ h[r].pc \in Asked /\ h'[r].pc \in Asked
         \/ h[r].pc \in Asked /\ h'[r].pc = "failed"
         \/ /\ h[r].pc \in Answered /\ h'[r].pc \in Answered
            /\ h'[r].route = h[r].route
  PROVE  Told(r)'
BY DEF Told, Asked, Answered

(* Run ends with an error or with an answer.                               *)
LEMMA TellsEnd ==
  ASSUME ChatInv, NEW r \in Requests, Told(r), h[r].pc \in Asked,
         h'[r].route = h[r].route,
         \/ SendFinal(r, "error") /\ h'[r].pc = "failed"
         \/ SendFinal(r, "done") /\ h'[r].pc = "save"
  PROVE  Told(r)'
<1>1. seen[r] = <<>>
  BY DEF Told, Asked, Answered
<1>2. PICK e \in {"error", "done"} :
         SendFinal(r, e) /\ h'[r].pc = IF e = "error" THEN "failed" ELSE "save"
  OBVIOUS
<1>3. e \in FinalEvents
  BY DEF FinalEvents
<1>4. /\ seen'[r] = seen[r] \/ seen'[r] = Append(seen[r], e)
      /\ closed'[r] <=> closed[r] \/ h[r].route # "sse"
  BY <1>2, <1>3, SentFinal, SentTyped
<1>5. seen'[r] = <<>> \/ seen'[r] = <<e>>
  BY <1>1, <1>4
<1>6. CASE e = "error"
  BY <1>2, <1>4, <1>5, <1>6, Zenon DEF Told
<1>7. CASE e = "done"
  BY <1>2, <1>4, <1>5, <1>7, Zenon DEF Told, Answered
<1> QED
  BY <1>6, <1>7

LEMMA ActsTold ==
  ASSUME ChatInv, NEW r \in Requests, Told(r), Acts(r)
  PROVE  Told(r)'
<1>0. h[r] \in HandlerStates /\ h \in [Requests -> HandlerStates]
  BY DEF ChatInv
<1> USE <1>0
<1>1. CASE Accept(r)
  <2>1. h[r].pc = "idle" /\ h'[r].pc \in {"create", "load"} /\ UNCHANGED <<seen, closed>>
    BY <1>1 DEF Accept, At, client, Idle
  <2> QED
    BY <2>1, TellsNothing DEF Asked
<1>2. CASE Reject(r)
  <2>1. h[r].pc = "idle" /\ h'[r].pc = "end"
    BY <1>2 DEF Reject, At, Idle
  <2>2. PICK e \in {"refused", "error"} : Send(r, e)
    BY <1>2 DEF Reject
  <2>3. seen[r] = <<>> /\ e \in FinalEvents
    BY <2>1 DEF Told, Asked, Answered, FinalEvents
  <2>4. seen'[r] = seen[r] \/ seen'[r] = Append(seen[r], e)
    BY <2>2, <2>3, SentTyped
  <2>5. seen'[r] = <<>> \/ seen'[r] = <<e>>
    BY <2>3, <2>4
  <2> QED
    BY <2>1, <2>5, Zenon DEF Told
<1>3. CASE Load(r)
  <2>1. h[r].pc = "load" /\ h'[r].pc = "user" /\ UNCHANGED <<seen, closed>>
    BY <1>3, GoesOn DEF Load, At, client, Goes, HandlerStates
  <2> QED
    BY <2>1, TellsNothing DEF Asked
<1>4. CASE Create(r)
  <2>1. h[r].pc = "create" /\ h'[r].pc \in {"user", "run"} /\ UNCHANGED <<seen, closed>>
    BY <1>4, GoesOn DEF Create, At, client, Goes, HandlerStates
  <2> QED
    BY <2>1, TellsNothing DEF Asked
<1>5. CASE SaveUser(r) \/ CountUser(r)
  <2>1. h[r].pc \in {"user", "userCount"} /\ h'[r].pc \in {"userCount", "run"}
        /\ UNCHANGED <<seen, closed>>
    BY <1>5, GoesOn DEF SaveUser, CountUser, At, client, Goes
  <2> QED
    BY <2>1, TellsNothing DEF Asked
<1>6. CASE StartRun(r)
  <2> USE <1>6
  <2>1. CASE h' = [h EXCEPT ![r].pc = "iterate", ![r].msgs = <<[role |-> "user", calls |-> {}]>>]
             /\ UNCHANGED client
    <3>1. h[r].pc = "run" /\ h'[r].pc = "iterate" /\ UNCHANGED <<seen, closed>>
      BY <2>1 DEF StartRun, At, client, HandlerStates
    <3> QED
      BY <3>1, TellsNothing DEF Asked
  <2>2. CASE SendFinal(r, "error") /\ Goto(r, "failed")
    BY <2>2, GoesOn, TellsEnd DEF StartRun, At, Asked, Goes
  <2> QED
    BY <2>1, <2>2 DEF StartRun
<1>7. CASE WholeRun(r)
  <2>0. h[r].pc \in Asked
    BY <1>7 DEF WholeRun, At, Asked
  <2> USE <2>0
  <2>1. CASE SendFinal(r, "done") /\ h'[r].pc = "save" /\ h'[r].route = h[r].route
    BY <2>1, TellsEnd
  <2>2. CASE SendFinal(r, "error") /\ Goto(r, "failed")
    BY <2>2, GoesOn, TellsEnd DEF Goes
  <2>3. CASE Goto(r, "failed") /\ UNCHANGED <<closed, seen>>
    BY <2>3, GoesOn, TellsNothing DEF Goes
  <2> QED
    BY <1>7, <2>1, <2>2, <2>3 DEF WholeRun, HandlerStates
<1>8. CASE Iterate(r)
  <2>0. h[r].pc \in Asked
    BY <1>8 DEF Iterate, At, Asked
  <2> USE <2>0
  <2>1. CASE SendFinal(r, "error") /\ Goto(r, "failed")
    BY <2>1, GoesOn, TellsEnd DEF Goes
  <2>2. CASE Goto(r, "failed") /\ UNCHANGED client
    BY <2>2, GoesOn, TellsNothing DEF Goes, client
  <2>3. CASE h' = [h EXCEPT ![r].pc = "receive", ![r].text = 0] /\ UNCHANGED client
    <3>1. h'[r].pc = "receive" /\ UNCHANGED <<seen, closed>>
      BY <2>3 DEF client, HandlerStates
    <3> QED
      BY <3>1, TellsNothing DEF Asked
  <2> QED
    BY <1>8, <2>1, <2>2, <2>3 DEF Iterate
<1>9. CASE Receive(r)
  <2> USE <1>9
  <2>0. h[r].pc = "receive" /\ h[r].pc \in Asked
    BY DEF Receive, At, Asked
  <2> USE <2>0
  <2>1. CASE SendFinal(r, "error") /\ Goto(r, "failed")
    BY <2>1, GoesOn, TellsEnd DEF Goes
  <2>2. CASE UNCHANGED client /\ ~Goto(r, "failed")
    <3>1. h'[r].pc = h[r].pc /\ UNCHANGED <<seen, closed>>
      BY <2>2 DEF client, HandlerStates, Receive
    <3> QED
      BY <3>1, TellsNothing
  <2>3. CASE UNCHANGED client /\ Goto(r, "failed")
    BY <2>3, GoesOn, TellsNothing DEF Goes, client
  <2> QED
    BY <2>1, <2>2, <2>3 DEF Receive
<1>10. CASE EndOfStream(r) \/ ExecuteTool(r) \/ ToolsDone(r)
  <2>0. h[r].pc \in Asked /\ UNCHANGED <<seen, closed>>
    BY <1>10, Zenon DEF EndOfStream, ExecuteTool, ToolsDone, At, Asked, client
  <2> USE <2>0
  <2>1. CASE EndOfStream(r)
    <3>1. h'[r].pc \in {"tools", "done"}
      BY <2>1, GoesOn DEF EndOfStream, Goes, HandlerStates
    <3> QED
      BY <3>1, TellsNothing DEF Asked
  <2>2. CASE ExecuteTool(r)
    <3>1. h'[r].pc = h[r].pc
      BY <2>2 DEF ExecuteTool, HandlerStates
    <3> QED
      BY <3>1, TellsNothing
  <2>3. CASE ToolsDone(r)
    <3>1. h'[r].pc = "iterate"
      BY <2>3 DEF ToolsDone, HandlerStates
    <3> QED
      BY <3>1, TellsNothing DEF Asked
  <2> QED
    BY <1>10, <2>1, <2>2, <2>3
<1>11. CASE Done(r)
  <2>1. h[r].pc \in Asked /\ h'[r].pc = "save" /\ h'[r].route = h[r].route /\ SendFinal(r, "done")
    BY <1>11 DEF Done, At, Asked, HandlerStates
  <2> QED
    BY <2>1, TellsEnd
<1>12. CASE SaveAnswer(r) \/ CountAnswer(r)
  <2>1. /\ h[r].pc \in Answered /\ h'[r].pc \in Answered /\ h'[r].route = h[r].route
        /\ UNCHANGED <<seen, closed>>
    BY <1>12, GoesOn DEF SaveAnswer, CountAnswer, At, client, Goes, Answered
  <2> QED
    BY <2>1, TellsNothing
<1>13. CASE Notify(r)
  <2>1. Goes(r, "end") /\ h[r].pc = "notify" /\ closed' = closed
    BY <1>13, GoesOn DEF Notify, At
  <2> USE <2>1
  <2>2. seen[r] \in {<<>>, <<"done">>} /\ (h[r].route # "sse" => closed[r])
    BY DEF Told, Asked
  <2> USE <2>2
  <2>3. CASE seen' = seen
    BY <2>3 DEF Told, Goes
  <2>4. CASE h[r].conv # NoConv /\ Send(r, "conversation_id")
    <3> USE <2>4
    <3>1. seen'[r] = seen[r] \/ (~closed[r] /\ seen'[r] = Append(seen[r], "conversation_id"))
      BY SentTyped DEF FinalEvents
    <3>2. CASE seen'[r] = seen[r]
      BY <3>2 DEF Told, Goes
    <3>3. CASE ~closed[r] /\ seen'[r] = Append(seen[r], "conversation_id")
      <4> USE <3>3
      <4>1. CASE seen[r] = <<>>
        <5>1. seen'[r] = <<"conversation_id">>
          BY <4>1
        <5> QED
          BY <5>1, Zenon DEF Told, Goes
      <4>2. CASE seen[r] = <<"done">>
        <5>1. seen'[r] = <<"done", "conversation_id">>
          BY <4>2, TwoEvents
        <5> QED
          BY <5>1, Zenon DEF Told, Goes
      <4> QED
        BY <4>1, <4>2
    <3> QED
      BY <3>1, <3>2, <3>3
  <2> QED
    BY <1>13, <2>3, <2>4, Zenon DEF Notify
<1>14. CASE Failed(r)
  <2>1. Goes(r, "end") /\ h[r].pc = "failed"
    BY <1>14, GoesOn DEF Failed, At
  <2> USE <2>1
  <2>2. /\ seen[r] \in {<<>>, <<"error">>}
        /\ h[r].route # "sse" /\ seen[r] # <<>> => closed[r]
    BY DEF Told, Asked, Answered
  <2> USE <2>2
  <2>3. CASE seen' = seen
    BY <2>3 DEF Told, Goes
  <2>4. CASE SendFinal(r, "error")
    <3>1. seen'[r] = seen[r] \/ (~closed[r] /\ seen'[r] = Append(seen[r], "error"))
      BY <2>4, SentFinal, SentTyped DEF FinalEvents
    <3>2. CASE seen'[r] = seen[r]
      BY <3>2 DEF Told, Goes
    <3>3. CASE ~closed[r] /\ seen'[r] = Append(seen[r], "error")
      <4> USE <3>3
      <4>1. CASE seen[r] = <<>>
        <5>1. seen'[r] = <<"error">>
          BY <4>1
        <5> QED
          BY <5>1, Zenon DEF Told, Goes
      <4>2. CASE seen[r] = <<"error">>
        <5>1. seen'[r] = <<"error", "error">>
          BY <4>2, TwoEvents
        <5>2. seen[r] # <<>>
          BY <4>2
        <5> QED
          BY <5>1, <5>2, Zenon DEF Told, Goes
      <4> QED
        BY <4>1, <4>2
    <3> QED
      BY <3>1, <3>2, <3>3, Zenon
  <2> QED
    BY <1>14, <2>3, <2>4 DEF Failed
<1>15. CASE Stream(r)
  <2>1. UNCHANGED <<h, seen, closed>>
    BY <1>15 DEF Stream, StreamError, StreamOpen, StreamChunk, StreamFinish, StreamEnd, client
  <2> QED
    BY <2>1 DEF Told
<1> QED
  BY <1>1, <1>2, <1>3, <1>4, <1>5, <1>6, <1>7, <1>8, <1>9, <1>10, <1>11, <1>12, <1>13, <1>14,
     <1>15
  DEF Acts, Handler

--------------------------------------------------------------------------------
(* What the larger steps leave in the handler.                             *)

(* Accept starts a handler afresh.                                         *)
LEMMA Accepted ==
  ASSUME ChatInv, NEW r \in Requests, Accept(r)
  PROVE  \E c \in {NoConv, Shared} :
            /\ h'[r].pc = (IF c = NoConv THEN "create" ELSE "load") /\ h'[r].conv = c
            /\ h'[r].told = {q \in Requests : h[q].conv = c /\ Got(q, "conversation_id")}
            /\ h'[r].text = 0 /\ h'[r].done = FALSE /\ h'[r].dbfail = FALSE
<1>1. h \in [Requests -> HandlerStates]
  BY DEF ChatInv
<1>2. PICK route \in Routes, c \in {NoConv, Shared} :
         h' = [h EXCEPT ![r] =
                 [Idle EXCEPT !.pc = IF c = NoConv THEN "create" ELSE "load",
                              !.route = route, !.conv = c,
                              !.told = {q \in Requests :
                                          h[q].conv = c /\ Got(q, "conversation_id")}]]
  BY Zenon DEF Accept
<1>3. PICK pc, told : /\ pc = (IF c = NoConv THEN "create" ELSE "load")
                      /\ told = {q \in Requests : h[q].conv = c /\ Got(q, "conversation_id")}
  BY Zenon
<1>4. h'[r] = [Idle EXCEPT !.pc = pc, !.route = route, !.conv = c, !.told = told]
  BY <1>1, <1>2, <1>3
<1>5. /\ h'[r].pc = pc /\ h'[r].conv = c /\ h'[r].told = told
      /\ h'[r].text = 0 /\ h'[r].done = FALSE /\ h'[r].dbfail = FALSE
  BY <1>4 DEF Idle
<1> QED
  BY <1>3, <1>5

LEMMA Rejected ==
  ASSUME ChatInv, NEW r \in Requests, Reject(r)
  PROVE  /\ h'[r].pc = "end" /\ h'[r].conv = NoConv /\ h'[r].told = {}
         /\ h'[r].text = 0 /\ h'[r].done = FALSE
<1>1. h \in [Requests -> HandlerStates]
  BY DEF ChatInv
<1>2. PICK route \in Routes : h' = [h EXCEPT ![r] = [Idle EXCEPT !.pc = "end", !.route = route]]
  BY Zenon DEF Reject
<1>3. h'[r] = [Idle EXCEPT !.pc = "end", !.route = route]
  BY <1>1, <1>2
<1> QED
  BY <1>3 DEF Idle

LEMMA Executed ==
  ASSUME ChatInv, NEW r \in Requests, ExecuteTool(r)
  PROVE  /\ \E i \in h[r].calls :
               /\ h'[r].calls = h[r].calls \ {i}
               /\ h'[r].msgs = Append(h[r].msgs, [role |-> "tool", calls |-> {i}])
         /\ h'[r].pc = h[r].pc /\ h'[r].conv = h[r].conv /\ h'[r].told = h[r].told
         /\ h'[r].hist = h[r].hist /\ h'[r].text = h[r].text
         /\ h'[r].done = h[r].done /\ h'[r].dbfail = h[r].dbfail
<1>1. h \in [Requests -> HandlerStates] /\ h[r] \in HandlerStates
  BY DEF ChatInv
<1>2. PICK i \in h[r].calls, ok \in BOOLEAN :
         h' = [h EXCEPT ![r].calls = @ \ {i},
                        ![r].msgs = Append(@, [role |-> "tool", calls |-> {i}]),
                        ![r].made = IF ok THEN @ + 1 ELSE @]
  BY Zenon DEF ExecuteTool
<1>3. PICK left, all, n : /\ left = h[r].calls \ {i}
                          /\ all = Append(h[r].msgs, [role |-> "tool", calls |-> {i}])
                          /\ n = IF ok THEN h[r].made + 1 ELSE h[r].made
  BY Zenon
<1>4. h'[r] = [h[r] EXCEPT !.calls = left, !.msgs = all, !.made = n]
  BY <1>1, <1>2, <1>3
<1>5. /\ h'[r].calls = left /\ h'[r].msgs = all
      /\ h'[r].pc = h[r].pc /\ h'[r].conv = h[r].conv /\ h'[r].told = h[r].told
      /\ h'[r].hist = h[r].hist /\ h'[r].text = h[r].text
      /\ h'[r].done = h[r].done /\ h'[r].dbfail = h[r].dbfail
  BY <1>1, <1>4 DEF HandlerStates
<1> QED
  BY <1>3, <1>5, Zenon

--------------------------------------------------------------------------------
(* The stream and its reader.                                              *)

(* In the channel: an error is the last thing a goroutine sends, texts have   *)
(* been counted and come before the finish, and a finish has all the calls.   *)
Fits(e, k, p, text) ==
    /\ e.kind = "error" => p.pc = "end"
    /\ e.kind = "text" => text + k <= p.n
    /\ e.kind = "finish" => p.finished /\ e.calls = Accumulated(p.accum)

InChannel(r) == \A k \in 1 .. Len(chan[r]) : Fits(chan[r][k], k, prod[r], h[r].text)

(* The calls of a finished stream are with the reader or on the way.       *)
OnTheWay(r) ==
    prod[r].finished => \/ h[r].calls = Accumulated(prod[r].accum)
                        \/ \E k \in 1 .. Len(chan[r]) : chan[r][k].kind = "finish"

Streaming(r) ==
    /\ h[r].text <= MaxChunks /\ prod[r].n <= MaxChunks /\ Len(chan[r]) <= ChannelCap
    /\ h[r].pc # "receive" => prod[r].pc \in {"none", "end"}
    /\ h[r].pc = "done" /\ prod[r].finished => Accumulated(prod[r].accum) = {}
    /\ h[r].pc = "receive" =>
          /\ InChannel(r) /\ OnTheWay(r)
          /\ prod[r].pc # "end" /\ ~prod[r].finished => h[r].text + Len(chan[r]) <= prod[r].n

(* A handler that is not reading and does not start to.                    *)
LEMMA NotReading ==
  ASSUME ChatInv, NEW r \in Requests, Streaming(r), h[r].pc # "receive",
         h'[r].pc \notin {"receive", "done"}, h'[r].text = h[r].text \/ h'[r].text \in {0, 1},
         UNCHANGED <<prod, chan>>
  PROVE  Streaming(r)'
BY ChatParameters DEF Streaming

LEMMA HandlerStreaming ==
  ASSUME ChatInv, NEW r \in Requests, Streaming(r), Accept(r) \/ Reject(r) \/ Handler(r)
  PROVE  Streaming(r)'
<1>0. /\ h[r] \in HandlerStates /\ h \in [Requests -> HandlerStates]
      /\ prod[r] \in StreamStates /\ prod \in [Requests -> StreamStates]
      /\ chan[r] \in Seq(ChatEvents) /\ chan \in [Requests -> Seq(ChatEvents)]
  BY DEF ChatInv
<1>1. CASE Accept(r) \/ Reject(r)
  <2>1. h[r].pc = "idle" /\ UNCHANGED <<prod, chan>>
    BY <1>1, Zenon DEF Accept, Reject, At, stream
  <2>2. h'[r].pc \in {"create", "load", "end"} /\ h'[r].text = 0
    BY <1>1, Accepted, Rejected, Zenon
  <2> QED
    BY <2>1, <2>2, NotReading
<1>2. CASE Load(r) \/ Create(r)
  <2>1. h[r].pc \in {"load", "create"} /\ UNCHANGED <<prod, chan>>
    BY <1>2 DEF Load, Create, At, stream
  <2>2. h'[r].pc \in {"user", "run"} /\ h'[r].text = h[r].text
    BY <1>0, <1>2 DEF Load, Create, Goto, GotoFailed, HandlerStates
  <2> QED
    BY <2>1, <2>2, NotReading
<1>3. CASE SaveUser(r) \/ CountUser(r)
  <2>1. h[r].pc \in {"user", "userCount"} /\ UNCHANGED <<prod, chan>>
    BY <1>3 DEF SaveUser, CountUser, At, stream
  <2>2. h'[r].pc \in {"userCount", "run"} /\ h'[r].text = h[r].text
    BY <1>0, <1>3 DEF SaveUser, CountUser, Goto, GotoFailed, HandlerStates
  <2> QED
    BY <2>1, <2>2, NotReading
<1>4. CASE StartRun(r) \/ WholeRun(r)
  <2>1. h[r].pc = "run" /\ UNCHANGED <<prod, chan>>
    BY <1>4 DEF StartRun, WholeRun, At, stream
  <2>2. /\ h'[r].pc \in {"iterate", "failed", "save"}
        /\ h'[r].text = h[r].text \/ h'[r].text \in {0, 1}
    BY <1>0, <1>4 DEF StartRun, WholeRun, Goto, HandlerStates
  <2> QED
    BY <2>1, <2>2, NotReading
<1>5. CASE Iterate(r)
  <2>1. CASE Goto(r, "failed") /\ UNCHANGED stream
    <3>1. h[r].pc = "iterate" /\ h'[r].pc = "failed" /\ h'[r].text = h[r].text
          /\ UNCHANGED <<prod, chan>>
      BY <1>0, <1>5, <2>1 DEF Iterate, At, Goto, HandlerStates, stream
    <3> QED
      BY <3>1, NotReading
  <2>2. CASE /\ h' = [h EXCEPT ![r].pc = "receive", ![r].text = 0]
             /\ prod' = [prod EXCEPT ![r] = [NoStream EXCEPT !.pc = "request"]]
             /\ chan' = [chan EXCEPT ![r] = <<>>]
    <3>1. h'[r].pc = "receive" /\ h'[r].text = 0 /\ chan'[r] = <<>>
      BY <1>0, <2>2 DEF HandlerStates
    <3>2. prod'[r].n = 0 /\ ~prod'[r].finished
      BY <1>0, <2>2 DEF NoStream
    <3> QED
      BY <3>1, <3>2, ChatParameters DEF Streaming, InChannel, Fits, OnTheWay
  <2> QED
    BY <1>5, <2>1, <2>2 DEF Iterate
<1>6. CASE Receive(r)
  <2>1. PICK e : e = Head(chan[r])
    OBVIOUS
  <2>2. /\ h[r].pc = "receive" /\ chan[r] # <<>> /\ prod' = prod
        /\ chan'[r] = Tail(chan[r]) /\ e = chan[r][1]
        /\ Len(chan'[r]) = Len(chan[r]) - 1 /\ Len(chan[r]) \in Nat /\ Len(chan[r]) # 0
        /\ \A k \in 1 .. Len(chan'[r]) : chan'[r][k] = chan[r][k + 1]
    BY <1>0, <1>6, <2>1 DEF Receive, At
  <2>3. CASE e.kind = "error" /\ Goto(r, "failed")
    <3>1. h'[r].pc = "failed" /\ h'[r].text = h[r].text
      BY <1>0, <2>3 DEF Goto, HandlerStates
    <3>2. prod[r].pc = "end"
      <4>1. InChannel(r)
        BY <2>2, Zenon DEF Streaming
      <4>2. 1 \in 1 .. Len(chan[r])
        BY <2>2
      <4> QED
        BY <2>2, <2>3, <4>1, <4>2, Zenon DEF InChannel, Fits
    <3>3. Len(chan'[r]) <= ChannelCap
      <4>1. Len(chan[r]) <= ChannelCap
        BY Zenon DEF Streaming
      <4>2. Len(chan'[r]) = Len(chan[r]) - 1 /\ Len(chan[r]) \in Nat
        BY <2>2, Zenon
      <4> QED
        BY <4>1, <4>2, ChatParameters
    <3> QED
      BY <2>2, <3>1, <3>2, <3>3, Zenon DEF Streaming
  <2>4. CASE e.kind = "text" /\ h' = [h EXCEPT ![r].text = @ + 1]
    <3>1. h'[r].pc = "receive" /\ h'[r].text = h[r].text + 1 /\ h[r].text \in Nat
          /\ h'[r].calls = h[r].calls
      BY <1>0, <2>2, <2>4 DEF HandlerStates
    <3>2. prod[r].n \in Nat
      BY <1>0 DEF StreamStates
    <3>3. InChannel(r) /\ OnTheWay(r) /\ prod[r].n <= MaxChunks /\ Len(chan[r]) <= ChannelCap
          /\ (prod[r].pc # "end" /\ ~prod[r].finished => h[r].text + Len(chan[r]) <= prod[r].n)
      BY <2>2 DEF Streaming
    <3>4. h[r].text + 1 <= prod[r].n
      BY <2>2, <2>4, <3>3 DEF InChannel, Fits
    <3>5. InChannel(r)'
      <4>1. SUFFICES ASSUME NEW k \in 1 .. Len(chan'[r])
                     PROVE  Fits(chan'[r][k], k, prod[r], h[r].text + 1)
        BY <2>2, <3>1, Zenon DEF InChannel
      <4>2. k \in Nat /\ k + 1 \in 1 .. Len(chan[r]) /\ chan'[r][k] = chan[r][k + 1]
        BY <2>2
      <4>3. Fits(chan'[r][k], k + 1, prod[r], h[r].text)
        BY <3>3, <4>2 DEF InChannel
      <4>4. h[r].text + 1 + k = h[r].text + (k + 1)
        <5>1. \A t, j \in Nat : t + 1 + j = t + (j + 1)
          OBVIOUS
        <5>2. h[r].text \in Nat /\ k \in Nat
          BY <3>1, <4>2
        <5> QED
          BY <5>1, <5>2, Zenon
      <4> QED
        BY <4>3, <4>4 DEF Fits
    <3>6. OnTheWay(r)'
      <4>1. ASSUME NEW k \in 1 .. Len(chan[r]), chan[r][k].kind = "finish"
            PROVE  k - 1 \in 1 .. Len(chan'[r]) /\ chan'[r][k - 1].kind = "finish"
        BY <2>2, <2>4, <4>1
      <4> QED
        BY <2>2, <3>1, <3>3, <4>1, Zenon DEF OnTheWay
    <3>7. Len(chan'[r]) = Len(chan[r]) - 1 /\ Len(chan[r]) \in Nat
      BY <2>2, Zenon
    <3>8. h'[r].text <= MaxChunks /\ Len(chan'[r]) <= ChannelCap
      <4>1. prod[r].n <= MaxChunks /\ Len(chan[r]) <= ChannelCap
        BY <3>3, Zenon
      <4>2. h'[r].text <= MaxChunks
        BY <3>1, <3>2, <3>4, <4>1, ChatParameters
      <4>3. Len(chan'[r]) <= ChannelCap
        BY <3>7, <4>1, ChatParameters
      <4> QED
        BY <4>2, <4>3, Zenon
    <3>9. prod[r].pc # "end" /\ ~prod[r].finished => h'[r].text + Len(chan'[r]) <= prod[r].n
      BY <3>1, <3>2, <3>3, <3>7
    <3> QED
      BY <2>2, <3>1, <3>3, <3>5, <3>6, <3>8, <3>9, Zenon DEF Streaming
  <2>5. CASE e.kind = "finish" /\ h' = [h EXCEPT ![r].calls = e.calls]
    <3>1. h'[r].pc = "receive" /\ h'[r].text = h[r].text /\ h[r].text \in Nat
          /\ h'[r].calls = e.calls
      BY <1>0, <2>2, <2>5 DEF HandlerStates
    <3>2. prod[r].n \in Nat
      BY <1>0 DEF StreamStates
    <3>3. InChannel(r) /\ prod[r].n <= MaxChunks /\ Len(chan[r]) <= ChannelCap
          /\ h[r].text <= MaxChunks
      BY <2>2 DEF Streaming
    <3>4. prod[r].finished /\ e.calls = Accumulated(prod[r].accum)
      BY <2>2, <2>5, <3>3 DEF InChannel, Fits
    <3>5. InChannel(r)'
      <4>1. SUFFICES ASSUME NEW k \in 1 .. Len(chan'[r])
                     PROVE  Fits(chan'[r][k], k, prod[r], h[r].text)
        BY <2>2, <3>1, Zenon DEF InChannel
      <4>2. k \in Nat /\ k + 1 \in 1 .. Len(chan[r]) /\ chan'[r][k] = chan[r][k + 1]
        BY <2>2
      <4>3. Fits(chan'[r][k], k + 1, prod[r], h[r].text)
        BY <3>3, <4>2, Zenon DEF InChannel
      <4>4. h[r].text + (k + 1) <= prod[r].n => h[r].text + k <= prod[r].n
        BY <3>1, <3>2, <4>2
      <4> QED
        BY <4>3, <4>4, Zenon DEF Fits
    <3>6. OnTheWay(r)'
      BY <2>2, <3>1, <3>4 DEF OnTheWay
    <3>7. Len(chan'[r]) <= ChannelCap
      BY <2>2, <3>3, ChatParameters
    <3> QED
      BY <2>2, <3>1, <3>3, <3>4, <3>5, <3>6, <3>7, Zenon DEF Streaming
  <2> QED
    BY <1>6, <2>1, <2>3, <2>4, <2>5 DEF Receive
<1>7. CASE EndOfStream(r)
  <2>1. h[r].pc = "receive" /\ chan[r] = <<>> /\ prod[r].pc = "end" /\ UNCHANGED <<prod, chan>>
    BY <1>7 DEF EndOfStream, At, stream
  <2>2. h'[r].text = h[r].text /\ h'[r].pc \in {"tools", "done"}
        /\ (h'[r].pc = "done" => h[r].calls = {})
    <3>1. CASE h[r].calls # {}
      BY <1>0, <1>7, <3>1 DEF EndOfStream, HandlerStates
    <3>2. CASE h[r].calls = {}
      BY <1>0, <1>7, <3>2 DEF EndOfStream, Goto, HandlerStates
    <3> QED
      BY <3>1, <3>2, Zenon
  <2>3. prod[r].finished => h[r].calls = Accumulated(prod[r].accum)
    <3>1. OnTheWay(r)
      BY <2>1, Zenon DEF Streaming
    <3>2. 1 .. Len(chan[r]) = {}
      BY <2>1
    <3> QED
      BY <3>1, <3>2, Zenon DEF OnTheWay
  <2> QED
    BY <2>1, <2>2, <2>3, Zenon DEF Streaming
<1>8. CASE ExecuteTool(r) \/ ToolsDone(r)
  <2>1. h[r].pc = "tools" /\ UNCHANGED <<prod, chan>>
    BY <1>8, Zenon DEF ExecuteTool, ToolsDone, At, stream
  <2>2. h'[r].pc \in {"tools", "iterate"} /\ h'[r].text = h[r].text
    <3>1. CASE ExecuteTool(r)
      BY <2>1, <3>1, Executed
    <3>2. CASE ToolsDone(r)
      BY <1>0, <3>2 DEF ToolsDone, HandlerStates
    <3> QED
      BY <1>8, <3>1, <3>2
  <2> QED
    BY <2>1, <2>2, NotReading
<1>9. CASE Done(r) \/ Failed(r)
  <2>1. h[r].pc \in {"done", "failed"} /\ UNCHANGED <<prod, chan>>
    BY <1>9 DEF Done, Failed, At, stream
  <2>2. h'[r].pc \in {"save", "end"} /\ h'[r].text = h[r].text
    BY <1>0, <1>9 DEF Done, Failed, Goto, HandlerStates
  <2> QED
    BY <2>1, <2>2, NotReading
<1>10. CASE SaveAnswer(r) \/ CountAnswer(r) \/ Notify(r)
  <2>1. h[r].pc \in {"save", "answerCount", "notify"} /\ UNCHANGED <<prod, chan>>
    BY <1>10 DEF SaveAnswer, CountAnswer, Notify, At, stream
  <2>2. h'[r].pc \in {"answerCount", "notify", "end"} /\ h'[r].text = h[r].text
    BY <1>0, <1>10 DEF SaveAnswer, CountAnswer, Notify, Goto, GotoFailed, HandlerStates
  <2> QED
    BY <2>1, <2>2, NotReading
<1> QED
  BY <1>1, <1>2, <1>3, <1>4, <1>5, <1>6, <1>7, <1>8, <1>9, <1>10 DEF Handler

(* One event more at the end of the channel.                               *)
LEMMA Emitted ==
  ASSUME ChatInv, NEW r \in Requests, NEW e, Emit(r, <<e>>)
  PROVE  /\ Len(chan'[r]) = Len(chan[r]) + 1 /\ Len(chan'[r]) <= ChannelCap
         /\ Len(chan[r]) \in Nat /\ chan'[r][Len(chan[r]) + 1] = e
         /\ \A k \in 1 .. Len(chan[r]) : chan'[r][k] = chan[r][k]
<1>1. chan[r] \in Seq(ChatEvents) /\ chan'[r] = chan[r] \o <<e>>
  BY DEF ChatInv, Emit
<1>2. Len(chan[r]) + Len(<<e>>) <= ChannelCap
  BY DEF Emit
<1>3. Len(chan[r]) \in Nat /\ Len(<<e>>) = 1
  BY <1>1
<1>4. Len(chan'[r]) = Len(chan[r]) + 1
  BY <1>1, <1>3
<1>5. \A k \in 1 .. Len(chan[r]) : chan'[r][k] = chan[r][k]
  BY <1>1
<1>6. chan'[r][Len(chan[r]) + 1] = e
  BY <1>1, <1>3
<1> QED
  BY <1>2, <1>3, <1>4, <1>5, <1>6

LEMMA StreamStreaming ==
  ASSUME ChatInv, NEW r \in Requests, Streaming(r), Stream(r)
  PROVE  Streaming(r)'
<1>0. /\ h[r] \in HandlerStates /\ prod[r] \in StreamStates
      /\ prod \in [Requests -> StreamStates] /\ chan \in [Requests -> Seq(ChatEvents)]
      /\ chan[r] \in Seq(ChatEvents)
  BY DEF ChatInv
<1>1. h' = h
  BY DEF Stream, StreamError, StreamOpen, StreamChunk, StreamFinish, StreamEnd
<1>2. prod[r].pc \in {"request", "scan"}
  BY DEF Stream, StreamError, StreamOpen, StreamChunk, StreamFinish, StreamEnd
<1>3. /\ h[r].pc = "receive" /\ InChannel(r) /\ OnTheWay(r)
      /\ ~prod[r].finished => h[r].text + Len(chan[r]) <= prod[r].n
      /\ h[r].text <= MaxChunks /\ prod[r].n <= MaxChunks /\ Len(chan[r]) <= ChannelCap
  BY <1>2 DEF Streaming
<1>4. h[r].text \in Nat /\ prod[r].n \in Nat /\ Len(chan[r]) \in Nat
  <2>1. h[r].text \in Nat
    BY <1>0 DEF HandlerStates
  <2>2. prod[r].n \in Nat
    BY <1>0 DEF StreamStates
  <2>3. Len(chan[r]) \in Nat
    BY <1>0
  <2> QED
    BY <2>1, <2>2, <2>3, Zenon
<1>5. CASE StreamError(r)
  <2>1. prod'[r] = [prod[r] EXCEPT !.pc = "end"] /\ Emit(r, <<Error>>)
    BY <1>0, <1>5 DEF StreamError
  <2>2. /\ prod'[r].pc = "end" /\ prod'[r].n = prod[r].n
        /\ prod'[r].accum = prod[r].accum /\ prod'[r].finished = prod[r].finished
    BY <1>0, <2>1 DEF StreamStates
  <2>3. /\ Len(chan'[r]) = Len(chan[r]) + 1 /\ Len(chan'[r]) <= ChannelCap
        /\ chan'[r][Len(chan[r]) + 1].kind = "error"
        /\ \A k \in 1 .. Len(chan[r]) : chan'[r][k] = chan[r][k]
    BY <2>1, Emitted DEF Error
  <2>4. InChannel(r)'
    <3>1. \A k \in 1 .. Len(chan[r]) : Fits(chan'[r][k], k, prod'[r], h[r].text)
      BY <1>1, <1>2, <1>3, <1>4, <2>2, <2>3, Zenon DEF InChannel, Fits
    <3>2. Fits(chan'[r][Len(chan[r]) + 1], Len(chan[r]) + 1, prod'[r], h[r].text)
      BY <1>4, <2>2, <2>3, Zenon DEF Fits
    <3> QED
      BY <1>1, <1>4, <2>3, <3>1, <3>2 DEF InChannel
  <2>5. OnTheWay(r)'
    <3>1. 1 .. Len(chan[r]) \subseteq 1 .. Len(chan'[r])
      BY <1>4, <2>3
    <3> QED
      BY <1>1, <1>3, <2>2, <2>3, <3>1, Zenon DEF OnTheWay
  <2> QED
    BY <1>1, <1>3, <2>2, <2>3, <2>4, <2>5, Zenon DEF Streaming
<1>6. CASE StreamOpen(r) \/ StreamEnd(r)
  <2>1. PICK pc \in {"scan", "end"} : prod'[r] = [prod[r] EXCEPT !.pc = pc] /\ chan' = chan
    BY <1>0, <1>6 DEF StreamOpen, StreamEnd
  <2>2. /\ prod'[r].pc = pc /\ prod'[r].n = prod[r].n
        /\ prod'[r].accum = prod[r].accum /\ prod'[r].finished = prod[r].finished
    BY <1>0, <2>1 DEF StreamStates
  <2>3. InChannel(r)'
    BY <1>1, <1>2, <1>3, <2>1, <2>2 DEF InChannel, Fits
  <2>4. OnTheWay(r)'
    BY <1>1, <1>3, <2>1, <2>2 DEF OnTheWay
  <2> QED
    BY <1>1, <1>3, <2>1, <2>2, <2>3, <2>4 DEF Streaming
<1>7. CASE StreamChunk(r)
  <2>0. ~prod[r].finished /\ prod[r].n < MaxChunks
    BY <1>7 DEF StreamChunk
  <2>1. CASE Emit(r, <<Text>>) /\ prod' = [prod EXCEPT ![r].n = @ + 1]
    <3>1. prod'[r] = [prod[r] EXCEPT !.n = prod[r].n + 1]
      BY <1>0, <2>1
    <3>2. /\ prod'[r].pc = prod[r].pc /\ prod'[r].n = prod[r].n + 1
          /\ prod'[r].accum = prod[r].accum /\ prod'[r].finished = prod[r].finished
      BY <1>0, <3>1 DEF StreamStates
    <3>3. /\ Len(chan'[r]) = Len(chan[r]) + 1 /\ Len(chan'[r]) <= ChannelCap
          /\ chan'[r][Len(chan[r]) + 1].kind = "text"
          /\ \A k \in 1 .. Len(chan[r]) : chan'[r][k] = chan[r][k]
      BY <2>1, Emitted DEF Text
    <3>4. InChannel(r)'
      <4>1. \A k \in 1 .. Len(chan[r]) : Fits(chan'[r][k], k, prod'[r], h[r].text)
        <5>1. SUFFICES ASSUME NEW k \in 1 .. Len(chan[r])
                       PROVE  Fits(chan'[r][k], k, prod'[r], h[r].text)
          BY Zenon
        <5>2. Fits(chan'[r][k], k, prod[r], h[r].text) /\ k \in Nat
          BY <1>3, <1>4, <3>3 DEF InChannel
        <5>3. h[r].text + k <= prod[r].n => h[r].text + k <= prod[r].n + 1
          BY <1>4, <5>2
        <5> QED
          BY <3>2, <5>2, <5>3, Zenon DEF Fits
      <4>2. Fits(chan'[r][Len(chan[r]) + 1], Len(chan[r]) + 1, prod'[r], h[r].text)
        BY <1>1, <1>3, <1>4, <2>0, <3>2, <3>3 DEF Fits
      <4> QED
        BY <1>1, <1>4, <3>3, <4>1, <4>2 DEF InChannel
    <3>5. OnTheWay(r)' /\ prod'[r].n <= MaxChunks
      <4>1. OnTheWay(r)'
        BY <2>0, <3>2, Zenon DEF OnTheWay
      <4>2. prod'[r].n <= MaxChunks
        BY <1>4, <2>0, <3>2, ChatParameters
      <4> QED
        BY <4>1, <4>2, Zenon
    <3>6. h[r].text + Len(chan'[r]) <= prod'[r].n
      BY <1>3, <1>4, <2>0, <3>2, <3>3
    <3> QED
      BY <1>1, <1>3, <3>3, <3>4, <3>5, <3>6, Zenon DEF Streaming
  <2>2. CASE chan' = chan /\ \E i \in CallIds :
                prod' = [prod EXCEPT ![r].n = @ + 1, ![r].accum = @ \cup {i}]
    <3>1. PICK i \in CallIds :
             prod'[r] = [prod[r] EXCEPT !.n = prod[r].n + 1, !.accum = prod[r].accum \cup {i}]
      BY <1>0, <2>2, Zenon
    <3>2. /\ prod'[r].pc = prod[r].pc /\ prod'[r].n = prod[r].n + 1
          /\ prod'[r].finished = prod[r].finished
      BY <1>0, <3>1 DEF StreamStates
    <3>3. InChannel(r)'
      BY <1>1, <1>3, <1>4, <2>0, <2>2, <3>2 DEF InChannel, Fits
    <3>4. prod'[r].n <= MaxChunks /\ h[r].text + Len(chan[r]) <= prod'[r].n
      BY <1>3, <1>4, <2>0, <3>2, ChatParameters
    <3> QED
      BY <1>1, <1>3, <2>0, <2>2, <3>2, <3>3, <3>4 DEF Streaming, OnTheWay
  <2> QED
    BY <1>7, <2>1, <2>2 DEF StreamChunk
<1>8. CASE StreamFinish(r)
  <2>1. PICK e : e = [kind |-> "finish", calls |-> Accumulated(prod[r].accum)]
    BY Zenon
  <2>2. /\ ~prod[r].finished /\ prod'[r] = [prod[r] EXCEPT !.finished = TRUE]
        /\ Emit(r, <<e>>)
    BY <1>0, <1>8, <2>1 DEF StreamFinish
  <2>3. /\ prod'[r].pc = prod[r].pc /\ prod'[r].n = prod[r].n
        /\ prod'[r].accum = prod[r].accum /\ prod'[r].finished
    BY <1>0, <2>2 DEF StreamStates
  <2>4. /\ Len(chan'[r]) = Len(chan[r]) + 1 /\ Len(chan'[r]) <= ChannelCap
        /\ chan'[r][Len(chan[r]) + 1] = e
        /\ \A k \in 1 .. Len(chan[r]) : chan'[r][k] = chan[r][k]
    BY <2>2, Emitted
  <2>5. e.kind = "finish" /\ e.calls = Accumulated(prod[r].accum)
    BY <2>1
  <2>6. InChannel(r)'
    <3>1. \A k \in 1 .. Len(chan[r]) : Fits(chan'[r][k], k, prod'[r], h[r].text)
      BY <1>1, <1>3, <1>4, <2>3, <2>4 DEF InChannel, Fits
    <3>2. Fits(chan'[r][Len(chan[r]) + 1], Len(chan[r]) + 1, prod'[r], h[r].text)
      BY <1>4, <2>3, <2>4, <2>5 DEF Fits
    <3> QED
      BY <1>1, <1>4, <2>4, <3>1, <3>2 DEF InChannel
  <2>7. OnTheWay(r)'
    BY <1>4, <2>4, <2>5 DEF OnTheWay
  <2> QED
    BY <1>1, <1>3, <2>3, <2>4, <2>6, <2>7, Zenon DEF Streaming
<1> QED
  BY <1>5, <1>6, <1>7, <1>8 DEF Stream

--------------------------------------------------------------------------------
(* The tool calls.                                                         *)

(* At position b the assistant made calls of which todo are still to be      *)
(* answered, and those of the messages before are.                          *)
Underway(q, b, todo) ==
    /\ q[b].role = "assistant" /\ todo \subseteq q[b].calls
    /\ \A k \in 1 .. b - 1 : q[k].role = "assistant" => Answers(q, k)
    /\ \A j \in b + 1 .. Len(q) : q[j].role = "tool"
    /\ UNION {q[j].calls : j \in b + 1 .. Len(q)} = q[b].calls \ todo
    /\ Len(q) = b + Cardinality(q[b].calls \ todo)

Replied(q) == \A k \in 1 .. Len(q) : q[k].role = "assistant" => Answers(q, k)

Dialogue(r) ==
    /\ h[r].pc \in {"iterate", "receive"} => Replied(h[r].msgs)
    /\ h[r].pc = "tools" => \E b \in 1 .. Len(h[r].msgs) : Underway(h[r].msgs, b, h[r].calls)

(* The calls that messages answer.                                         *)
LEMMA CallsOf ==
  ASSUME NEW q, NEW s
  PROVE  \A i : i \in UNION {q[j].calls : j \in s} <=> \E j \in s : i \in q[j].calls
OBVIOUS

(* A set of calls is finite.                                               *)
LEMMA FiniteCalls ==
  ASSUME NEW s \in SUBSET CallIds
  PROVE  IsFiniteSet(s) /\ Cardinality(s) \in Nat
<1>1. IsFiniteSet(CallIds)
  BY ChatParameters, FS_Interval DEF CallIds
<1> QED
  BY <1>1, FS_Subset, FS_CardinalityType

(* What was answered stays so when messages follow.                        *)
LEMMA AnswersStay ==
  ASSUME NEW q \in Seq(RunMessages), NEW e \in RunMessages, NEW k \in 1 .. Len(q), Answers(q, k)
  PROVE  Answers(Append(q, e), k)
<1>1. PICK p : p = Append(q, e)
  BY Zenon
<1>2. /\ Len(p) = Len(q) + 1 /\ Len(q) \in Nat
      /\ \A j \in 1 .. Len(q) : p[j] = q[j]
  BY <1>1
<1>3. PICK n : n = Cardinality(q[k].calls)
  OBVIOUS
<1>4. n \in Nat
  <2>1. q[k] \in RunMessages
    OBVIOUS
  <2>2. q[k].calls \in SUBSET CallIds
    BY <2>1 DEF RunMessages
  <2> QED
    BY <1>3, <2>2, FiniteCalls
<1>5. k + n <= Len(q) /\ \A j \in k + 1 .. k + n : q[j].role = "tool"
  BY <1>3 DEF Answers
<1>6. UNION {q[j].calls : j \in k + 1 .. k + n} = q[k].calls
  BY <1>3 DEF Answers
<1>7. \A j \in k + 1 .. k + n : p[j] = q[j]
  BY <1>2, <1>4, <1>5
<1>8. {p[j].calls : j \in k + 1 .. k + n} = {q[j].calls : j \in k + 1 .. k + n}
  BY <1>7
<1>9. p[k] = q[k] /\ k + n <= Len(p)
  BY <1>2, <1>4, <1>5
<1>10. UNION {p[j].calls : j \in k + 1 .. k + n} = p[k].calls
  BY <1>6, <1>8, <1>9, Zenon
<1>11. \A j \in k + 1 .. k + n : p[j].role = "tool"
  BY <1>5, <1>7
<1>12. n = Cardinality(p[k].calls)
  BY <1>3, <1>9
<1>13. Answers(p, k)
  BY <1>9, <1>10, <1>11, <1>12 DEF Answers
<1> QED
  BY <1>1, <1>13

(* EndOfStream: the assistant asks for calls.                              *)
LEMMA Asks ==
  ASSUME NEW q \in Seq(RunMessages), Replied(q), NEW s \in SUBSET CallIds
  PROVE  Underway(Append(q, [role |-> "assistant", calls |-> s]), Len(q) + 1, s)
<1>1. PICK e : e = [role |-> "assistant", calls |-> s]
  BY Zenon
<1>2. e \in RunMessages /\ e.role = "assistant" /\ e.calls = s
  BY <1>1 DEF RunMessages
<1>3. PICK p : p = Append(q, e)
  BY Zenon
<1>4. /\ Len(p) = Len(q) + 1 /\ Len(q) \in Nat /\ p[Len(q) + 1] = e
      /\ \A j \in 1 .. Len(q) : p[j] = q[j]
  BY <1>2, <1>3
<1>5. \A k \in 1 .. Len(q) : p[k].role = "assistant" => Answers(p, k)
  BY <1>2, <1>3, <1>4, AnswersStay DEF Replied
<1>6. PICK b : b = Len(q) + 1
  OBVIOUS
<1>7. b - 1 = Len(q) /\ b + 1 .. Len(p) = {} /\ p[b] = e /\ b \in Nat
  BY <1>4, <1>6
<1>8. UNION {p[j].calls : j \in b + 1 .. Len(p)} = {}
  BY <1>7
<1>9. s \ s = {} /\ Cardinality({}) = 0
  BY FS_EmptySet
<1>10. Underway(p, b, s)
  <2>1. \A k \in 1 .. b - 1 : p[k].role = "assistant" => Answers(p, k)
    BY <1>5, <1>7
  <2>2. \A j \in b + 1 .. Len(p) : p[j].role = "tool"
    BY <1>7
  <2>3. Len(p) = b + Cardinality(p[b].calls \ s)
    <3>1. p[b].calls \ s = {}
      BY <1>2, <1>7
    <3>2. Cardinality(p[b].calls \ s) = 0
      BY <1>9, <3>1
    <3> QED
      BY <1>4, <1>6, <1>7, <3>2
  <2> QED
    BY <1>2, <1>7, <1>8, <1>9, <2>1, <2>2, <2>3, Zenon DEF Underway
<1> QED
  BY <1>1, <1>3, <1>6, <1>10

(* ExecuteTool: one call less is open.                                     *)
LEMMA Replies ==
  ASSUME NEW q \in Seq(RunMessages), NEW b \in 1 .. Len(q), NEW todo \in SUBSET CallIds,
         Underway(q, b, todo), NEW i \in todo
  PROVE  Underway(Append(q, [role |-> "tool", calls |-> {i}]), b, todo \ {i})
<1>1. PICK e : e = [role |-> "tool", calls |-> {i}]
  BY Zenon
<1>2. e \in RunMessages /\ e.role = "tool" /\ e.calls = {i}
  BY <1>1 DEF RunMessages
<1>3. PICK p : p = Append(q, e)
  BY Zenon
<1>4. /\ Len(p) = Len(q) + 1 /\ Len(q) \in Nat /\ p[Len(q) + 1] = e
      /\ \A j \in 1 .. Len(q) : p[j] = q[j]
  BY <1>2, <1>3
<1>5. p[b] = q[b] /\ q[b].calls \in SUBSET CallIds /\ q[b].role = "assistant"
      /\ todo \subseteq q[b].calls
  <2>1. p[b] = q[b] /\ q[b] \in RunMessages
    BY <1>4
  <2>2. q[b].role = "assistant" /\ todo \subseteq q[b].calls
    BY DEF Underway
  <2> QED
    BY <2>1, <2>2 DEF RunMessages
<1>6. \A k \in 1 .. b - 1 : p[k].role = "assistant" => Answers(p, k)
  <2>1. SUFFICES ASSUME NEW k \in 1 .. b - 1, p[k].role = "assistant" PROVE Answers(p, k)
    OBVIOUS
  <2>2. k \in 1 .. Len(q) /\ p[k] = q[k]
    BY <1>4
  <2>3. Answers(q, k)
    BY <2>1, <2>2 DEF Underway
  <2> QED
    BY <1>2, <1>3, <2>2, <2>3, AnswersStay
<1>7. \A j \in b + 1 .. Len(p) : p[j].role = "tool"
  <2>1. \A j \in b + 1 .. Len(q) : q[j].role = "tool"
    BY Zenon DEF Underway
  <2> QED
    BY <1>2, <1>4, <2>1
<1>8. UNION {p[j].calls : j \in b + 1 .. Len(p)} = p[b].calls \ (todo \ {i})
  <2>1. UNION {q[j].calls : j \in b + 1 .. Len(q)} = q[b].calls \ todo
    BY Zenon DEF Underway
  <2>2. \A j \in b + 1 .. Len(q) : p[j] = q[j]
    BY <1>4
  <2>3. b + 1 .. Len(p) = (b + 1 .. Len(q)) \cup {Len(q) + 1}
    BY <1>4
  <2>4. ASSUME NEW x
        PROVE  (\E j \in b + 1 .. Len(p) : x \in p[j].calls)
                 <=> (\E j \in b + 1 .. Len(q) : x \in q[j].calls) \/ x = i
    BY <1>2, <1>4, <2>2, <2>3
  <2>5. ASSUME NEW x
        PROVE  x \in UNION {p[j].calls : j \in b + 1 .. Len(p)}
                 <=> x \in q[b].calls \ todo \/ x = i
    <3>1. x \in UNION {p[j].calls : j \in b + 1 .. Len(p)}
            <=> \E j \in b + 1 .. Len(p) : x \in p[j].calls
      BY CallsOf
    <3>2. x \in UNION {q[j].calls : j \in b + 1 .. Len(q)}
            <=> \E j \in b + 1 .. Len(q) : x \in q[j].calls
      BY CallsOf
    <3> QED
      BY <2>1, <2>4, <3>1, <3>2, Zenon
  <2>6. p[b].calls \ (todo \ {i}) = (q[b].calls \ todo) \cup {i}
    BY <1>5
  <2>7. UNION {p[j].calls : j \in b + 1 .. Len(p)} = (q[b].calls \ todo) \cup {i}
    BY <2>5, Zenon
  <2> QED
    BY <2>6, <2>7
<1>9. Cardinality(p[b].calls \ (todo \ {i})) = Cardinality(q[b].calls \ todo) + 1
  <2>1. q[b].calls \ (todo \ {i}) = (q[b].calls \ todo) \cup {i} /\ i \notin q[b].calls \ todo
    BY <1>5
  <2>2. IsFiniteSet(q[b].calls \ todo)
    BY <1>5, FiniteCalls
  <2> QED
    <3>1. PICK s : s = q[b].calls \ todo
      BY Zenon
    <3>2. Cardinality(s \cup {i}) = Cardinality(s) + 1
      BY <2>1, <2>2, <3>1, FS_AddElement, Zenon
    <3> QED
      BY <1>5, <2>1, <3>1, <3>2, Zenon
<1>10. Len(p) = b + Cardinality(p[b].calls \ (todo \ {i}))
  <2>1. Cardinality(q[b].calls \ todo) \in Nat
    BY <1>5, FiniteCalls
  <2>2. Len(q) = b + Cardinality(q[b].calls \ todo)
    BY DEF Underway
  <2> QED
    BY <1>4, <1>9, <2>1, <2>2
<1> QED
  <2>1. p[b].role = "assistant" /\ todo \ {i} \subseteq p[b].calls
    BY <1>5
  <2>2. Underway(p, b, todo \ {i})
    BY <1>6, <1>7, <1>8, <1>10, <2>1, Zenon DEF Underway
  <2> QED
    BY <1>1, <1>3, <2>2

(* ToolsDone: nothing is open.                                             *)
LEMMA AllReplied ==
  ASSUME NEW q \in Seq(RunMessages), NEW b \in 1 .. Len(q), Underway(q, b, {})
  PROVE  Replied(q)
<1>1. q[b].calls \ {} = q[b].calls
  OBVIOUS
<1>2. PICK n : n = Cardinality(q[b].calls)
  OBVIOUS
<1>3. n \in Nat /\ Len(q) = b + n
  <2>1. q[b] \in RunMessages
    OBVIOUS
  <2>2. q[b].calls \in SUBSET CallIds
    BY <2>1 DEF RunMessages
  <2>3. Len(q) = b + Cardinality(q[b].calls \ {})
    BY DEF Underway
  <2> QED
    BY <1>1, <1>2, <2>2, <2>3, FiniteCalls
<1>4. Answers(q, b)
  <2>1. /\ UNION {q[j].calls : j \in b + 1 .. Len(q)} = q[b].calls \ {}
        /\ \A j \in b + 1 .. Len(q) : q[j].role = "tool"
    BY DEF Underway
  <2>2. /\ UNION {q[j].calls : j \in b + 1 .. b + n} = q[b].calls
        /\ \A j \in b + 1 .. b + n : q[j].role = "tool"
    BY <1>1, <1>3, <2>1
  <2>3. b + n <= Len(q)
    BY <1>3
  <2> QED
    BY <1>2, <2>2, <2>3 DEF Answers
<1>5. ASSUME NEW k \in b + 1 .. Len(q) PROVE q[k].role # "assistant"
  BY DEF Underway
<1>6. ASSUME NEW k \in 1 .. b - 1, q[k].role = "assistant" PROVE Answers(q, k)
  BY <1>6 DEF Underway
<1>7. \A k \in 1 .. Len(q) : k = b \/ k \in 1 .. b - 1 \/ k \in b + 1 .. Len(q)
  BY <1>3
<1> QED
  BY <1>4, <1>5, <1>6, <1>7 DEF Replied

LEMMA ActsDialogue ==
  ASSUME ChatInv, NEW r \in Requests, Dialogue(r), Acts(r)
  PROVE  Dialogue(r)'
<1>0. /\ h[r] \in HandlerStates /\ h \in [Requests -> HandlerStates]
      /\ h[r].msgs \in Seq(RunMessages) /\ h[r].calls \in SUBSET CallIds
  BY Zenon DEF ChatInv, HandlerStates
<1>1. CASE h'[r].pc \notin {"iterate", "receive", "tools"}
  BY <1>1 DEF Dialogue
<1>2. CASE StartRun(r)
  <2>1. CASE Goto(r, "failed")
    BY <1>1, <2>1, GoesOn DEF Goes
  <2>2. CASE h' = [h EXCEPT ![r].pc = "iterate", ![r].msgs = <<[role |-> "user", calls |-> {}]>>]
    <3>1. h'[r].pc = "iterate" /\ h'[r].msgs = <<[role |-> "user", calls |-> {}]>>
      BY <1>0, <2>2, Zenon DEF HandlerStates
    <3>2. Replied(h'[r].msgs)
      BY <3>1 DEF Replied
    <3> QED
      BY <3>1, <3>2, Zenon DEF Dialogue
  <2> QED
    BY <1>2, <2>1, <2>2 DEF StartRun
<1>3. CASE Iterate(r) \/ Receive(r)
  <2>1. Replied(h[r].msgs)
    BY <1>3 DEF Iterate, Receive, At, Dialogue
  <2>2. h'[r].pc \in {"failed", "receive"} /\ h'[r].msgs = h[r].msgs
    BY <1>0, <1>3 DEF Iterate, Receive, At, Goto, HandlerStates
  <2> QED
    BY <2>1, <2>2 DEF Dialogue
<1>4. CASE EndOfStream(r)
  <2>1. CASE Goto(r, "done")
    BY <1>1, <2>1, GoesOn DEF Goes
  <2>2. CASE h' = [h EXCEPT ![r].pc = "tools",
                  ![r].msgs = Append(@, [role |-> "assistant", calls |-> h[r].calls])]
    <3>1. PICK q : q = Append(h[r].msgs, [role |-> "assistant", calls |-> h[r].calls])
      BY Zenon
    <3>2. h'[r] = [h[r] EXCEPT !.pc = "tools", !.msgs = q]
      BY <1>0, <2>2, <3>1
    <3>3. h'[r].pc = "tools" /\ h'[r].msgs = q /\ h'[r].calls = h[r].calls
      BY <1>0, <3>2 DEF HandlerStates
    <3>4. Replied(h[r].msgs)
      BY <1>4 DEF EndOfStream, At, Dialogue
    <3>5. Underway(q, Len(h[r].msgs) + 1, h[r].calls)
      BY <1>0, <3>1, <3>4, Asks
    <3>6. Len(h[r].msgs) + 1 \in 1 .. Len(q)
      BY <1>0, <3>1
    <3> QED
      BY <3>3, <3>5, <3>6 DEF Dialogue
  <2> QED
    BY <1>4, <2>1, <2>2 DEF EndOfStream
<1>5. CASE ExecuteTool(r)
  <2>1. PICK i \in h[r].calls :
           /\ h'[r].calls = h[r].calls \ {i}
           /\ h'[r].msgs = Append(h[r].msgs, [role |-> "tool", calls |-> {i}])
           /\ h'[r].pc = "tools"
    BY <1>5, Executed, Zenon DEF ExecuteTool, At
  <2>2. PICK b \in 1 .. Len(h[r].msgs) : Underway(h[r].msgs, b, h[r].calls)
    BY <1>5 DEF ExecuteTool, At, Dialogue
  <2>3. Underway(h'[r].msgs, b, h'[r].calls)
    <3>1. Underway(Append(h[r].msgs, [role |-> "tool", calls |-> {i}]), b, h[r].calls \ {i})
      BY <1>0, <2>2, Replies
    <3> QED
      BY <2>1, <3>1
  <2>4. b \in 1 .. Len(h'[r].msgs)
    BY <1>0, <2>1
  <2> QED
    BY <2>1, <2>3, <2>4 DEF Dialogue
<1>6. CASE ToolsDone(r)
  <2>1. h[r].calls = {} /\ h'[r].pc = "iterate" /\ h'[r].msgs = h[r].msgs
    BY <1>0, <1>6 DEF ToolsDone, HandlerStates
  <2>2. PICK b \in 1 .. Len(h[r].msgs) : Underway(h[r].msgs, b, {})
    BY <1>6, <2>1 DEF ToolsDone, At, Dialogue
  <2>3. Replied(h[r].msgs)
    BY <1>0, <2>2, AllReplied
  <2> QED
    BY <2>1, <2>3 DEF Dialogue
<1>7. CASE Stream(r)
  <2>1. h' = h
    BY <1>7 DEF Stream, StreamError, StreamOpen, StreamChunk, StreamFinish, StreamEnd
  <2> QED
    BY <2>1 DEF Dialogue
<1>8. CASE Accept(r) \/ Reject(r)
  BY <1>1, <1>8, Accepted, Rejected, Zenon
<1>9. CASE Load(r) \/ Create(r) \/ SaveUser(r) \/ CountUser(r) \/ WholeRun(r)
  <2>1. h'[r].pc \in {"user", "userCount", "run", "save", "failed"}
    BY <1>0, <1>9
       DEF Load, Create, SaveUser, CountUser, WholeRun, Goto, GotoFailed, HandlerStates
  <2> QED
    BY <1>1, <2>1
<1>10. CASE Done(r) \/ SaveAnswer(r) \/ CountAnswer(r) \/ Notify(r) \/ Failed(r)
  <2>1. h'[r].pc \in {"save", "answerCount", "notify", "end"}
    BY <1>0, <1>10 DEF Done, SaveAnswer, CountAnswer, Notify, Failed, Goto, GotoFailed,
       HandlerStates
  <2> QED
    BY <1>1, <2>1
<1> QED
  BY <1>2, <1>3, <1>4, <1>5, <1>6, <1>7, <1>8, <1>9, <1>10 DEF Acts, Handler

--------------------------------------------------------------------------------
(* The inductive invariant, and what follows from it.                      *)

(* Every request by itself.                                                *)
RequestInv(r) == Told(r) /\ Streaming(r) /\ Dialogue(r)

RequestsInv == ChatInv /\ \A r \in Requests : RequestInv(r)

LEMMA InitRequests == Init => RequestsInv
<1> SUFFICES ASSUME Init PROVE RequestsInv
  OBVIOUS
<1>1. ChatInv
  BY InitChat
<1>2. SUFFICES ASSUME NEW r \in Requests PROVE RequestInv(r)
  BY <1>1 DEF RequestsInv
<1>3. h[r] = Idle /\ seen[r] = <<>> /\ chan[r] = <<>> /\ prod[r] = NoStream
  BY DEF Init
<1> USE <1>3
<1>4. /\ h[r].pc = "idle" /\ h[r].text = 0 /\ h[r].done = FALSE
      /\ prod[r].pc = "none" /\ prod[r].n = 0
  <2>1. h[r].pc = "idle" /\ h[r].text = 0 /\ h[r].done = FALSE
    BY DEF Idle
  <2>2. prod[r].pc = "none" /\ prod[r].n = 0
    BY DEF NoStream
  <2> QED
    BY <2>1, <2>2, Zenon
<1> USE <1>4
<1>5. Told(r)
  BY DEF Told, Asked
<1>6. Streaming(r)
  <2>1. h[r].text <= MaxChunks /\ prod[r].n <= MaxChunks /\ Len(chan[r]) <= ChannelCap
    BY ChatParameters
  <2> QED
    BY <2>1, Zenon DEF Streaming
<1>7. Dialogue(r)
  BY DEF Dialogue
<1> QED
  BY <1>5, <1>6, <1>7 DEF RequestInv

LEMMA NextRequests == RequestsInv /\ [Next]_vars => RequestsInv'
<1> SUFFICES ASSUME RequestsInv, [Next]_vars PROVE RequestsInv'
  OBVIOUS
<1>0. ChatInv /\ \A q \in Requests : RequestInv(q)
  BY DEF RequestsInv
<1> USE <1>0
<1>1. ASSUME NEW r \in Requests, Acts(r)
      PROVE  RequestsInv'
  <2> USE <1>1
  <2>1. ChatInv' /\ \A q \in Requests \ {r} : Still(q)
    BY ActsTyped
  <2>2. SUFFICES ASSUME NEW q \in Requests PROVE RequestInv(q)'
    BY <2>1 DEF RequestsInv
  <2>3. Told(q) /\ Streaming(q) /\ Dialogue(q)
    BY DEF RequestInv
  <2> USE <2>3
  <2>4. CASE q = r
    <3> USE <2>4
    <3>1. Told(r)'
      BY ActsTold
    <3>2. Streaming(r)'
      BY HandlerStreaming, StreamStreaming DEF Acts
    <3>3. Dialogue(r)'
      BY ActsDialogue
    <3> QED
      BY <3>1, <3>2, <3>3 DEF RequestInv
  <2>5. CASE q # r
    <3>1. Still(q)
      BY <2>1, <2>5
    <3> USE <3>1
    <3>2. Told(q)'
      BY Zenon DEF Told, Still
    <3>3. Streaming(q)'
      BY Zenon DEF Streaming, InChannel, OnTheWay, Still
    <3>4. Dialogue(q)'
      BY Zenon DEF Dialogue, Still
    <3> QED
      BY <3>2, <3>3, <3>4 DEF RequestInv
  <2> QED
    BY <2>4, <2>5
<1>2. CASE Outside
  <2>1. ChatInv' /\ UNCHANGED <<h, prod, chan, seen, closed>>
    BY <1>2, OutsideTyped
  <2> USE <2>1
  <2>2. SUFFICES ASSUME NEW q \in Requests PROVE RequestInv(q)'
    BY DEF RequestsInv
  <2>3. Told(q) /\ Streaming(q) /\ Dialogue(q)
    BY DEF RequestInv
  <2> USE <2>3
  <2>4. Told(q)'
    BY Zenon DEF Told
  <2>5. Streaming(q)'
    BY Zenon DEF Streaming, InChannel, OnTheWay
  <2>6. Dialogue(q)'
    BY Zenon DEF Dialogue
  <2> QED
    BY <2>4, <2>5, <2>6 DEF RequestInv
<1> QED
  BY <1>1, <1>2, StepKinds

(* The requests and their streams keep what they need to know of each other.  *)
THEOREM RequestsInductive == Spec => []RequestsInv
BY InitRequests, NextRequests, PTL DEF Spec

(* Handlers, streams, writers and tables keep their types: an answer never    *)
(* has more deltas than its stream had chunks, and the channel never more     *)
(* events than its capacity.                                                *)
THEOREM ChatTyped == Spec => []TypeOK
<1>1. RequestsInv => TypeOK
  <2> SUFFICES ASSUME RequestsInv PROVE TypeOK
    OBVIOUS
  <2>1. ChatInv /\ \A r \in Requests : Streaming(r)
    BY DEF RequestsInv, RequestInv
  <2> USE <2>1
  <2>2. ASSUME NEW r \in Requests
        PROVE  /\ h[r].pc \in PCs /\ h[r].route \in AllRoutes
               /\ h[r].conv \in Convs \cup {NoConv}
               /\ h[r].iter \in 0 .. MaxIterations /\ h[r].text \in 0 .. MaxChunks
               /\ h[r].calls \subseteq CallIds
               /\ prod[r].pc \in {"none", "request", "scan", "end"}
               /\ prod[r].n \in 0 .. MaxChunks /\ prod[r].accum \subseteq CallIds
               /\ Len(chan[r]) <= ChannelCap
               /\ ctx[r] \in BOOLEAN /\ link[r] \in BOOLEAN /\ closed[r] \in BOOLEAN
    <3>1. h[r] \in HandlerStates /\ prod[r] \in StreamStates
          /\ ctx[r] \in BOOLEAN /\ link[r] \in BOOLEAN /\ closed[r] \in BOOLEAN
      BY DEF ChatInv
    <3> USE <3>1
    <3>2. h[r].text <= MaxChunks /\ prod[r].n <= MaxChunks /\ Len(chan[r]) <= ChannelCap
      BY Zenon DEF Streaming
    <3> USE <3>2
    <3>3. /\ h[r].pc \in PCs /\ h[r].route \in AllRoutes /\ h[r].conv \in Convs \cup {NoConv}
          /\ h[r].iter \in Nat /\ h[r].iter <= MaxIterations /\ h[r].text \in Nat
          /\ h[r].calls \subseteq CallIds
      BY Zenon DEF HandlerStates
    <3>4. /\ prod[r].pc \in {"none", "request", "scan", "end"}
          /\ prod[r].n \in Nat /\ prod[r].accum \subseteq CallIds
      BY DEF StreamStates
    <3>5. h[r].iter \in 0 .. MaxIterations /\ h[r].text \in 0 .. MaxChunks
      BY <3>3, ChatParameters
    <3>6. prod[r].n \in 0 .. MaxChunks
      BY <3>4, ChatParameters
    <3> QED
      BY <3>3, <3>4, <3>5, <3>6, Zenon
  <2>3. \A c \in Convs : conv[c].age \in {"absent", "old", "ripe", "fresh"}
    BY DEF ChatInv, ConvRows
  <2>4. msgs \subseteq Messages
    BY DEF ChatInv
  <2> QED
    BY <2>2, <2>3, <2>4 DEF TypeOK
<1> QED
  BY <1>1, RequestsInductive, PTL

(* An answer that is done is not also an error, a WebSocket is told one end,   *)
(* and on SSE nothing but the conversation id or the error once more follows   *)
(* it.                                                                     *)
THEOREM OneEnd == Spec => []EndsOnce
<1>1. RequestsInv => EndsOnce
  <2> SUFFICES ASSUME RequestsInv, NEW r \in Requests
               PROVE  /\ ~(Got(r, "done") /\ Got(r, "error"))
                      /\ h[r].route # "sse" => \A j, k \in DOMAIN seen[r] : j = k
                      /\ \/ Len(seen[r]) <= 1
                         \/ seen[r] \in {<<"done", "conversation_id">>, <<"error", "error">>}
    BY DEF EndsOnce
  <2>1. \/ seen[r] = <<>>
        \/ \E e \in FinalEvents : seen[r] = <<e>>
        \/ /\ h[r].route = "sse"
           /\ seen[r] \in {<<"done", "conversation_id">>, <<"error", "error">>}
    <3>1. Told(r)
      BY DEF RequestsInv, RequestInv
    <3> QED
      BY <3>1, Zenon DEF Told, FinalEvents
  <2>2. CASE seen[r] = <<>>
    BY <2>2 DEF Got
  <2>3. CASE \E e \in FinalEvents : seen[r] = <<e>>
    <3>1. PICK e \in FinalEvents : seen[r] = <<e>>
      BY <2>3
    <3>2. Len(seen[r]) = 1 /\ \A k \in DOMAIN seen[r] : seen[r][k] = e /\ k = 1
      BY <3>1
    <3>3. ~(Got(r, "done") /\ Got(r, "error"))
      BY <3>2 DEF Got
    <3> QED
      BY <3>2, <3>3
  <2>4. CASE h[r].route = "sse" /\ seen[r] = <<"done", "conversation_id">>
    <3>1. Len(seen[r]) = 2 /\ \A k \in DOMAIN seen[r] : seen[r][k] # "error"
      BY <2>4
    <3> QED
      BY <2>4, <3>1 DEF Got
  <2>5. CASE h[r].route = "sse" /\ seen[r] = <<"error", "error">>
    <3>1. Len(seen[r]) = 2 /\ \A k \in DOMAIN seen[r] : seen[r][k] # "done"
      BY <2>5
    <3> QED
      BY <2>5, <3>1 DEF Got
  <2> QED
    BY <2>1, <2>2, <2>3, <2>4, <2>5, Zenon
<1> QED
  BY <1>1, RequestsInductive, PTL

(* A handler that no longer reads its channel leaves no goroutine behind     *)
(* that could block on it: an error is the last thing the goroutine sends.   *)
THEOREM NoStreamLeaks == Spec => []NoStreamLeft
<1>1. RequestsInv => NoStreamLeft
  BY Zenon DEF RequestsInv, RequestInv, Streaming, NoStreamLeft
<1> QED
  BY <1>1, RequestsInductive, PTL

(* Every request to the model answers each tool call of an earlier message    *)
(* directly behind it, however many rounds and calls there were, and the      *)
(* calls of a stream that came in whole are not dropped.                     *)
THEOREM EveryCallAnswered == Spec => []CallsAnswered
<1>1. RequestsInv => CallsAnswered
  <2> SUFFICES ASSUME RequestsInv, NEW r \in Requests
               PROVE  /\ At(r, "receive") => \A k \in DOMAIN h[r].msgs :
                            h[r].msgs[k].role = "assistant" => Answers(h[r].msgs, k)
                      /\ At(r, "done") /\ prod[r].finished /\ Contiguous(prod[r].accum)
                            => prod[r].accum = {}
    BY DEF CallsAnswered
  <2>1. Dialogue(r) /\ Streaming(r) /\ h[r] \in HandlerStates
    BY DEF RequestsInv, RequestInv, ChatInv
  <2> USE <2>1
  <2>2. h[r].msgs \in Seq(RunMessages)
    BY DEF HandlerStates
  <2>3. DOMAIN h[r].msgs = 1 .. Len(h[r].msgs)
    BY <2>2
  <2>4. At(r, "receive") => Replied(h[r].msgs)
    BY DEF Dialogue, At
  <2>5. At(r, "receive") => \A k \in DOMAIN h[r].msgs :
           h[r].msgs[k].role = "assistant" => Answers(h[r].msgs, k)
    BY <2>3, <2>4 DEF Replied
  <2>6. At(r, "done") /\ prod[r].finished => Accumulated(prod[r].accum) = {}
    BY DEF Streaming, At
  <2>7. Contiguous(prod[r].accum) => Accumulated(prod[r].accum) = prod[r].accum
    <3>1. SUFFICES ASSUME Contiguous(prod[r].accum)
                   PROVE  Accumulated(prod[r].accum) = prod[r].accum
      OBVIOUS
    <3>2. PICK all : all = 0 .. Cardinality(prod[r].accum) - 1
      OBVIOUS
    <3>3. prod[r].accum = all /\ Accumulated(prod[r].accum) = prod[r].accum \cap all
      BY <3>1, <3>2 DEF Contiguous, Accumulated
    <3> QED
      BY <3>3
  <2> QED
    BY <2>5, <2>6, <2>7, Zenon
<1> QED
  BY <1>1, RequestsInductive, PTL

================================================================================
