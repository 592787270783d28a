------------------------------ MODULE AgentChatRows -----------------------------
(***************************************************************************)
(* What the chat requests leave in the tables, for any number of requests and *)
(* conversations and any faults: an answer that was done is saved, a follow-up *)
(* knows it, and a conversation's rows fit together.                        *)
(***************************************************************************)
EXTENDS AgentChatProofs

(* The rows of the conversations.                                          *)

(* Before the user's message is inserted, and after the answer's.          *)
Early == {"idle", "create", "load", "user"}
Late == {"answerCount", "notify", "end"}

(* The steps between: they leave the tables alone.                         *)
Between(r) == \/ StartRun(r) \/ WholeRun(r) \/ Iterate(r) \/ Receive(r) \/ EndOfStream(r)
              \/ ExecuteTool(r) \/ ToolsDone(r) \/ Done(r) \/ Notify(r) \/ Failed(r)

LEMMA BetweenStep ==
  ASSUME ChatInv, NEW r \in Requests, Between(r)
  PROVE  /\ UNCHANGED <<conv, msgs, lastId>>
         /\ h'[r].conv = h[r].conv /\ h'[r].told = h[r].told /\ h'[r].hist = h[r].hist
         /\ h'[r].dbfail = h[r].dbfail
         /\ h[r].pc \notin Early \cup {"userCount"} /\ h'[r].pc \notin Early \cup {"userCount"}
         /\ h[r].pc # "save" /\ h[r].pc # "end"
         /\ h[r].pc \in Late =>
               h'[r].pc \in Late /\ h'[r].text = h[r].text /\ h'[r].done = h[r].done
         /\ h[r].pc \notin Late /\ h'[r].pc \in Late => h'[r].done = h[r].done
         /\ h'[r].done = h[r].done \/ h'[r].pc = "save"
<1> DEFINE Goal == /\ UNCHANGED <<conv, msgs, lastId>>
                   /\ h'[r].conv = h[r].conv /\ h'[r].told = h[r].told
                   /\ h'[r].hist = h[r].hist /\ h'[r].dbfail = h[r].dbfail
                   /\ h[r].pc \notin Early \cup {"userCount"}
                   /\ h'[r].pc \notin Early \cup {"userCount"}
                   /\ h[r].pc # "save" /\ h[r].pc # "end"
                   /\ h[r].pc \in Late =>
                         h'[r].pc \in Late /\ h'[r].text = h[r].text /\ h'[r].done = h[r].done
                   /\ h[r].pc \notin Late /\ h'[r].pc \in Late => h'[r].done = h[r].done
                   /\ h'[r].done = h[r].done \/ h'[r].pc = "save"
<1> SUFFICES Goal
  BY Zenon
<1>0. /\ h[r] \in HandlerStates /\ h \in [Requests -> HandlerStates]
  BY DEF ChatInv
<1>1. UNCHANGED <<conv, msgs, lastId>>
  BY Zenon
     DEF Between, StartRun, WholeRun, Iterate, Receive, EndOfStream, ExecuteTool, ToolsDone,
         Done,
     Notify, Failed, tables
<1>2. CASE StartRun(r) \/ Iterate(r)
  <2>1. h[r].pc \in {"run", "iterate"} /\ h'[r].pc \in {"iterate", "receive", "failed"}
    BY <1>0, <1>2 DEF StartRun, Iterate, At, Goto, HandlerStates
  <2>2. /\ h'[r].conv = h[r].conv /\ h'[r].told = h[r].told /\ h'[r].hist = h[r].hist
        /\ h'[r].dbfail = h[r].dbfail /\ h'[r].done = h[r].done
    BY <1>0, <1>2 DEF StartRun, Iterate, Goto, HandlerStates
  <2> QED
    BY <1>1, <2>1, <2>2 DEF Early, Late
<1>3. CASE WholeRun(r)
  <2>1. h[r].pc = "run" /\ h'[r].pc \in {"save", "failed"}
    BY <1>0, <1>3 DEF WholeRun, At, Goto, HandlerStates
  <2>2. /\ h'[r].conv = h[r].conv /\ h'[r].told = h[r].told /\ h'[r].hist = h[r].hist
        /\ h'[r].dbfail = h[r].dbfail /\ (h'[r].done = h[r].done \/ h'[r].pc = "save")
    BY <1>0, <1>3 DEF WholeRun, Goto, HandlerStates
  <2> QED
    BY <1>1, <2>1, <2>2 DEF Early, Late
<1>4. CASE Receive(r)
  <2>1. h[r].pc = "receive" /\ h'[r].pc \in {"receive", "failed"}
    BY <1>0, <1>4 DEF Receive, At, Goto, HandlerStates
  <2>2. /\ h'[r].conv = h[r].conv /\ h'[r].told = h[r].told /\ h'[r].hist = h[r].hist
        /\ h'[r].dbfail = h[r].dbfail /\ h'[r].done = h[r].done
    BY <1>0, <1>4 DEF Receive, Goto, HandlerStates
  <2> QED
    BY <1>1, <2>1, <2>2 DEF Early, Late
<1>5. CASE EndOfStream(r)
  <2>1. h[r].pc = "receive" /\ h'[r].pc \in {"tools", "done"}
    BY <1>0, <1>5 DEF EndOfStream, At, Goto, HandlerStates
  <2>2. /\ h'[r].conv = h[r].conv /\ h'[r].told = h[r].told /\ h'[r].hist = h[r].hist
        /\ h'[r].dbfail = h[r].dbfail /\ h'[r].done = h[r].done
    BY <1>0, <1>5 DEF EndOfStream, Goto, HandlerStates
  <2> QED
    BY <1>1, <2>1, <2>2 DEF Early, Late
<1>6. CASE ExecuteTool(r)
  <2>1. h[r].pc = "tools"
    BY <1>6 DEF ExecuteTool, At
  <2> QED
    BY <1>1, <1>6, <2>1, Executed DEF Early, Late
<1>7. CASE ToolsDone(r) \/ Done(r)
  <2>1. h[r].pc \in {"tools", "done"} /\ h'[r].pc \in {"iterate", "save"}
    BY <1>0, <1>7 DEF ToolsDone, Done, At, HandlerStates
  <2>2. /\ h'[r].conv = h[r].conv /\ h'[r].told = h[r].told /\ h'[r].hist = h[r].hist
        /\ h'[r].dbfail = h[r].dbfail /\ (h'[r].done = h[r].done \/ h'[r].pc = "save")
    BY <1>0, <1>7 DEF ToolsDone, Done, HandlerStates
  <2> QED
    BY <1>1, <2>1, <2>2 DEF Early, Late
<1>8. CASE Notify(r) \/ Failed(r)
  <2>1. h[r].pc \in {"notify", "failed"} /\ Goto(r, "end")
    BY <1>8, Zenon DEF Notify, Failed, At
  <2>2. /\ h'[r].pc = "end" /\ h'[r].conv = h[r].conv /\ h'[r].told = h[r].told
        /\ h'[r].hist = h[r].hist /\ h'[r].dbfail = h[r].dbfail /\ h'[r].done = h[r].done
        /\ h'[r].text = h[r].text
    BY <1>0, <2>1 DEF Goto, HandlerStates
  <2> QED
    BY <1>1, <2>1, <2>2 DEF Early, Late
<1> QED
  BY <1>2, <1>3, <1>4, <1>5, <1>6, <1>7, <1>8, Zenon DEF Between

(* Insert and count.                                                       *)
Counted(c) == {n \in msgs : n.counted /\ n.conv = c}

Row(m) == /\ m.conv = h[m.req].conv /\ h[m.req].pc \notin Early
          /\ m.role = "assistant" => h[m.req].pc \in Late
          /\ m.counted => conv[m.conv].age = "fresh"

(* A row belongs to the conversation of its request, a request has one row    *)
(* of each role, and a conversation that counted a row was updated then, so   *)
(* that the cleanup leaves it and its rows alone.                           *)
RowsInv ==
    /\ IsFiniteSet(msgs)
    /\ \A r \in Requests : h[r].conv \in {NoConv, Shared, r}
    /\ \A m \in msgs : Row(m)
    /\ \A m, n \in msgs : m.req = n.req /\ m.role = n.role => m = n
    /\ \A c \in Convs : conv[c].count >= Cardinality(Counted(c))

(* The tables rest, and a handler moves on.                                *)
LEMMA RowsRest ==
  ASSUME ChatInv, RowsInv, NEW r \in Requests, UNCHANGED <<conv, msgs>>,
         \A q \in Requests \ {r} : h'[q] = h[q],
         h'[r].conv \in {NoConv, Shared, r},
         \/ h[r].pc \in Early
         \/ /\ h'[r].conv = h[r].conv /\ h'[r].pc \notin Early
            /\ h[r].pc \in Late => h'[r].pc \in Late
  PROVE  RowsInv'
<1>1. \A m \in msgs : Row(m)'
  <2>1. SUFFICES ASSUME NEW m \in msgs PROVE Row(m)'
    OBVIOUS
  <2>2. Row(m) /\ m.req \in Requests
    BY DEF RowsInv, ChatInv, Messages
  <2> QED
    BY <2>2 DEF Row
<1>2. \A q \in Requests : h'[q].conv \in {NoConv, Shared, q}
  BY DEF RowsInv
<1>3. \A c : Counted(c)' = Counted(c)
  BY DEF Counted
<1> QED
  BY <1>1, <1>2, <1>3 DEF RowsInv

(* CreateConversation: the new conversation has no rows.                   *)
LEMMA RowsCreated ==
  ASSUME ChatInv, RowsInv, NEW r \in Requests, h[r].pc = "create", msgs' = msgs,
         conv' = [conv EXCEPT ![r] = [age |-> "fresh", count |-> 0]],
         \A q \in Requests \ {r} : h'[q] = h[q], h'[r].conv = r
  PROVE  RowsInv'
<1>0. conv \in [Convs -> ConvRows] /\ r \in Convs
  BY DEF ChatInv, Convs
<1>1. \A m \in msgs : m.req \in Requests \ {r} /\ m.conv # r /\ Row(m)
  <2>1. SUFFICES ASSUME NEW m \in msgs PROVE m.req \in Requests \ {r} /\ m.conv # r /\ Row(m)
    BY Zenon
  <2>2. Row(m) /\ m.req \in Requests
    BY Zenon DEF RowsInv, ChatInv, Messages
  <2>3. m.req # r
    BY <2>2, Zenon DEF Row, Early
  <2>4. h[m.req].conv \in {NoConv, Shared, m.req}
    BY <2>2, Zenon DEF RowsInv
  <2> QED
    BY <2>2, <2>3, <2>4, ChatParameters DEF Row
<1>2. \A m \in msgs : Row(m)'
  <2>1. SUFFICES ASSUME NEW m \in msgs PROVE Row(m)'
    OBVIOUS
  <2>2. h'[m.req] = h[m.req] /\ conv'[m.conv] = conv[m.conv]
    BY <1>0, <1>1
  <2> QED
    BY <1>1, <2>2 DEF Row
<1>3. \A q \in Requests : h'[q].conv \in {NoConv, Shared, q}
  BY DEF RowsInv
<1>4. Counted(r) = {} /\ \A c : Counted(c)' = Counted(c)
  BY <1>1 DEF Counted
<1>5. \A c \in Convs : conv'[c].count >= Cardinality(Counted(c))
  <2>1. SUFFICES ASSUME NEW c \in Convs PROVE conv'[c].count >= Cardinality(Counted(c))
    OBVIOUS
  <2>2. CASE c = r
    <3>1. conv'[c].count = 0
      BY <1>0, <2>2
    <3>2. Cardinality(Counted(c)) = 0
      BY <1>4, <2>2, FS_EmptySet, Zenon
    <3> QED
      BY <3>1, <3>2
  <2>3. CASE c # r
    BY <1>0, <2>3 DEF RowsInv
  <2> QED
    BY <2>2, <2>3
<1> QED
  BY <1>2, <1>3, <1>4, <1>5 DEF RowsInv

(* AddMessage, first statement: the new row is not counted.                *)
LEMMA RowsInserted ==
  ASSUME ChatInv, RowsInv, NEW r \in Requests, NEW role \in {"user", "assistant"}, NEW n,
         InsertMessage(r, role, n), conv' = conv,
         \A q \in Requests \ {r} : h'[q] = h[q], h'[r].conv = h[r].conv,
         \/ role = "user" /\ h[r].pc = "user" /\ h'[r].pc = "userCount"
         \/ role = "assistant" /\ h[r].pc = "save" /\ h'[r].pc = "answerCount"
  PROVE  RowsInv'
<1>1. PICK x : x = [id |-> lastId + 1, conv |-> h[r].conv, role |-> role, req |-> r,
                    text |-> n, counted |-> FALSE]
  BY Zenon
<1>2. /\ msgs' = msgs \cup {x} /\ x.conv = h[r].conv /\ x.role = role /\ x.req = r
      /\ x.counted = FALSE
  BY <1>1 DEF InsertMessage
<1>3. IsFiniteSet(msgs')
  BY <1>2, FS_AddElement DEF RowsInv
<1>4. \A q \in Requests : h'[q].conv \in {NoConv, Shared, q}
  BY DEF RowsInv
<1>5. \A m \in msgs : m.req \in Requests /\ Row(m) /\ (m.req = r => m.role # role)
  <2>1. SUFFICES ASSUME NEW m \in msgs
                 PROVE  m.req \in Requests /\ Row(m) /\ (m.req = r => m.role # role)
    OBVIOUS
  <2>2. Row(m) /\ m.req \in Requests
    BY DEF RowsInv, ChatInv, Messages
  <2> QED
    BY <2>2 DEF Row, Early, Late
<1>6. \A m \in msgs : Row(m)'
  <2>1. SUFFICES ASSUME NEW m \in msgs PROVE Row(m)'
    OBVIOUS
  <2>2. CASE m.req # r
    BY <1>5, <2>2 DEF Row
  <2>3. CASE m.req = r
    BY <1>5, <2>3 DEF Row, Early, Late
  <2> QED
    BY <2>2, <2>3
<1>7. /\ x.conv = h'[x.req].conv /\ h'[x.req].pc \notin Early
      /\ x.role = "assistant" => h'[x.req].pc \in Late
  BY <1>2 DEF Early, Late
<1>8. \A m \in msgs' : Row(m)'
  <2>1. SUFFICES ASSUME NEW m \in msgs' PROVE Row(m)'
    OBVIOUS
  <2>2. CASE m \in msgs
    BY <1>6, <2>2
  <2>3. CASE m = x
    BY <1>2, <1>7, <2>3 DEF Row
  <2> QED
    BY <1>2, <2>2, <2>3
<1>9. \A m, k \in msgs' : m.req = k.req /\ m.role = k.role => m = k
  BY <1>2, <1>5 DEF RowsInv
<1>10. \A c : Counted(c)' = Counted(c)
  BY <1>2 DEF Counted
<1>11. \A c \in Convs : conv'[c].count >= Cardinality(Counted(c)')
  BY <1>10 DEF RowsInv
<1> QED
  BY <1>3, <1>4, <1>8, <1>9, <1>11 DEF RowsInv

(* At most one row is marked as counted.                                   *)
Marks(r, role) ==
    msgs' = {IF m.req = r /\ m.role = role THEN [m EXCEPT !.counted = TRUE] ELSE m : m \in msgs}

MarksOne(r, role) ==
    \E x \in msgs : /\ x.req = r /\ x.role = role
                    /\ msgs' = (msgs \ {x}) \cup {[x EXCEPT !.counted = TRUE]}

LEMMA Marked ==
  ASSUME ChatInv, RowsInv, NEW r \in Requests, NEW role, Marks(r, role)
  PROVE  msgs' = msgs \/ MarksOne(r, role)
<1>1. CASE \A m \in msgs : ~(m.req = r /\ m.role = role)
  <2>1. msgs' = msgs
    BY <1>1 DEF Marks
  <2> QED
    BY <2>1
<1>2. CASE \E x \in msgs : x.req = r /\ x.role = role
  <2>1. PICK x \in msgs : x.req = r /\ x.role = role
    BY <1>2
  <2>2. \A m \in msgs : m.req = r /\ m.role = role <=> m = x
    BY <2>1 DEF RowsInv
  <2>3. PICK y : y = [x EXCEPT !.counted = TRUE]
    BY Zenon
  <2>4. msgs' = {IF m = x THEN y ELSE m : m \in msgs}
    BY <2>2, <2>3 DEF Marks
  <2>5. msgs' = (msgs \ {x}) \cup {y}
    BY <2>4
  <2> QED
    BY <2>1, <2>3, <2>5 DEF MarksOne
<1> QED
  BY <1>1, <1>2

(* A set that gained at most one element.                                  *)
LEMMA OneMore ==
  ASSUME NEW S, IsFiniteSet(S), NEW x, NEW T, T \subseteq S \cup {x}
  PROVE  /\ Cardinality(T) \in Nat /\ Cardinality(S) \in Nat
         /\ Cardinality(T) <= Cardinality(S) + 1
<1>1. /\ IsFiniteSet(S \cup {x})
      /\ Cardinality(S \cup {x}) = IF x \in S THEN Cardinality(S) ELSE Cardinality(S) + 1
  BY FS_AddElement
<1>2. IsFiniteSet(T) /\ Cardinality(T) <= Cardinality(S \cup {x})
  BY <1>1, FS_Subset
<1>3. Cardinality(S) \in Nat /\ Cardinality(S \cup {x}) \in Nat /\ Cardinality(T) \in Nat
  BY <1>1, <1>2, FS_CardinalityType
<1> QED
  BY <1>1, <1>2, <1>3

(* AddMessage, second statement: one row more is counted, by one more.     *)
LEMMA RowsCounted ==
  ASSUME ChatInv, RowsInv, NEW r \in Requests, NEW role, h[r].conv \in Convs,
         CountMessage(r, role),
         \A q \in Requests \ {r} : h'[q] = h[q], h'[r].conv = h[r].conv,
         h[r].pc \notin Early, h'[r].pc \notin Early, h[r].pc \in Late => h'[r].pc \in Late
  PROVE  RowsInv'
<1>0. /\ conv \in [Convs -> ConvRows] /\ h'[r].conv \in {NoConv, Shared, r}
      /\ \A q \in Requests : h'[q].conv \in {NoConv, Shared, q}
  BY Zenon DEF ChatInv, RowsInv
<1> USE <1>0
<1>1. CASE UNCHANGED tables
  BY <1>1, RowsRest DEF tables
<1>2. PICK c \in Convs : c = h[r].conv
  OBVIOUS
<1> USE <1>2
<1>3. CASE /\ conv' = [conv EXCEPT ![c] = [age |-> "fresh", count |-> @.count + 1]]
           /\ Marks(r, role)
  <2>1. /\ conv'[c].age = "fresh" /\ conv'[c].count = conv[c].count + 1 /\ conv[c].count \in Nat
        /\ \A d \in Convs \ {c} : conv'[d] = conv[d]
    BY <1>3 DEF ConvRows
  <2> USE <2>1
  <2>2. \A m \in msgs : Row(m)'
    <3>1. SUFFICES ASSUME NEW m \in msgs PROVE Row(m)'
      OBVIOUS
    <3>2. Row(m) /\ m.req \in Requests /\ m.conv \in Convs
      BY Zenon DEF RowsInv, ChatInv, Messages
    <3>3. conv'[m.conv].age = conv[m.conv].age \/ conv'[m.conv].age = "fresh"
      BY <3>2
    <3> QED
      BY <3>2, <3>3 DEF Row
  <2>3. CASE msgs' = msgs
    <3>1. \A d : Counted(d)' = Counted(d)
      BY <2>3 DEF Counted
    <3>2. \A d \in Convs : conv'[d].count >= Cardinality(Counted(d))
      <4>1. SUFFICES ASSUME NEW d \in Convs PROVE conv'[d].count >= Cardinality(Counted(d))
        OBVIOUS
      <4>2. conv[d].count >= Cardinality(Counted(d)) /\ Cardinality(Counted(d)) \in Nat
        <5>1. Counted(d) \in SUBSET msgs /\ IsFiniteSet(msgs)
          BY DEF Counted, RowsInv
        <5>2. IsFiniteSet(Counted(d))
          BY <5>1, FS_Subset
        <5> QED
          BY <5>2, FS_CardinalityType DEF RowsInv
      <4> QED
        BY <4>2
    <3> QED
      BY <2>2, <2>3, <3>1, <3>2, Zenon DEF RowsInv
  <2>4. CASE MarksOne(r, role)
    <3>1. PICK x \in msgs : /\ x.req = r /\ x.role = role
                            /\ msgs' = (msgs \ {x}) \cup {[x EXCEPT !.counted = TRUE]}
      BY <2>4 DEF MarksOne
    <3> USE <3>1
    <3>2. PICK y : y = [x EXCEPT !.counted = TRUE]
      BY Zenon
    <3>3. /\ y.req = r /\ y.role = role /\ y.conv = x.conv /\ y.counted
          /\ msgs' = (msgs \ {x}) \cup {y}
      <4>1. x \in Messages
        BY DEF ChatInv
      <4> QED
        BY <3>2, <4>1 DEF Messages
    <3> USE <3>3
    <3>4. Row(x) /\ x.conv = c
      BY DEF RowsInv, Row
    <3>5. \A m \in msgs' : Row(m)'
      <4>1. SUFFICES ASSUME NEW m \in msgs' PROVE Row(m)'
        OBVIOUS
      <4>2. CASE m \in msgs
        BY <2>2, <4>2
      <4>3. CASE m = y
        BY <3>4, <4>3 DEF Row
      <4> QED
        BY <4>2, <4>3
    <3>6. IsFiniteSet(msgs) /\ IsFiniteSet(msgs')
      <4>1. IsFiniteSet(msgs)
        BY DEF RowsInv
      <4>2. IsFiniteSet(msgs \ {x})
        BY <4>1, FS_RemoveElement
      <4>3. IsFiniteSet((msgs \ {x}) \cup {y})
        BY <4>2, FS_AddElement, Zenon
      <4> QED
        BY <4>1, <4>3, Zenon
    <3>7. \A m, k \in msgs' : m.req = k.req /\ m.role = k.role => m = k
      <4>1. \A m, k \in msgs : m.req = k.req /\ m.role = k.role => m = k
        BY DEF RowsInv
      <4>2. SUFFICES ASSUME NEW m \in msgs', NEW k \in msgs', m.req = k.req, m.role = k.role,
                            m # y
                     PROVE  m = k
        BY <4>1
      <4>3. m \in msgs /\ m # x
        BY <4>2
      <4> QED
        BY <4>1, <4>2, <4>3
    <3>8. \A d \in Convs : conv'[d].count >= Cardinality(Counted(d)')
      <4>1. SUFFICES ASSUME NEW d \in Convs PROVE conv'[d].count >= Cardinality(Counted(d)')
        OBVIOUS
      <4>2. conv[d].count >= Cardinality(Counted(d))
        BY DEF RowsInv
      <4>3. CASE d # c
        <5>1. Counted(d)' = Counted(d)
          BY <3>4, <4>3 DEF Counted
        <5> QED
          BY <4>2, <4>3, <5>1
      <4>4. CASE d = c
        <5>1. Counted(d)' \subseteq Counted(d) \cup {y}
          BY DEF Counted
        <5>2. IsFiniteSet(Counted(d))
          BY <3>6, FS_Subset DEF Counted
        <5>3. PICK now, n, k : /\ now = Counted(d)' /\ n = Cardinality(now)
                               /\ k = Cardinality(Counted(d))
          OBVIOUS
        <5> USE <5>3
        <5>4. n \in Nat /\ k \in Nat /\ n <= k + 1
          BY <5>1, <5>2, OneMore, Zenon
        <5>5. conv'[d].count = conv[d].count + 1 /\ conv[d].count \in Nat /\ conv[d].count >= k
          BY <4>2, <4>4
        <5>6. conv'[d].count >= n
          BY <5>4, <5>5
        <5> QED
          BY <5>6
      <4> QED
        BY <4>3, <4>4
    <3> QED
      BY <3>5, <3>6, <3>7, <3>8 DEF RowsInv
  <2> QED
    BY <1>3, <2>3, <2>4, Marked
<1> QED
  BY <1>1, <1>3 DEF CountMessage, Marks

(* A request at work keeps the rows together.                              *)
LEMMA ActsRows ==
  ASSUME ChatInv, RowsInv, NEW r \in Requests, Acts(r)
  PROVE  RowsInv'
<1>0. /\ h[r] \in HandlerStates /\ h \in [Requests -> HandlerStates]
      /\ h[r].conv \in {NoConv, Shared, r}
  BY Zenon DEF ChatInv, RowsInv
<1>1. \A q \in Requests \ {r} : h'[q] = h[q]
  BY ActsTyped DEF Still
<1>2. CASE Accept(r) \/ Reject(r)
  <2>1. h[r].pc \in Early /\ UNCHANGED <<conv, msgs>>
    BY <1>2, Zenon DEF Accept, Reject, At, Early, tables
  <2>2. h'[r].conv \in {NoConv, Shared, r}
    BY <1>2, Accepted, Rejected, Zenon
  <2> QED
    BY <1>1, <2>1, <2>2, RowsRest
<1>3. CASE Load(r)
  <2>1. h[r].pc \in Early /\ UNCHANGED <<conv, msgs>>
    BY <1>3 DEF Load, At, Early, tables
  <2>2. h'[r].conv = h[r].conv
    BY <1>0, <1>3 DEF Load, GotoFailed, HandlerStates
  <2> QED
    BY <1>0, <1>1, <2>1, <2>2, RowsRest
<1>4. CASE Create(r)
  <2>0. h[r].pc = "create" /\ msgs' = msgs
    BY <1>4 DEF Create, At
  <2>1. CASE /\ conv' = [conv EXCEPT ![r] = [age |-> "fresh", count |-> 0]]
             /\ h' = [h EXCEPT ![r].pc = "user", ![r].conv = r]
    <3>1. h'[r].conv = r
      BY <1>0, <2>1 DEF HandlerStates
    <3> QED
      BY <1>1, <2>0, <2>1, <3>1, RowsCreated, Zenon
  <2>2. CASE GotoFailed(r, "run") /\ conv' = conv
    <3>1. h'[r].conv = h[r].conv
      BY <2>2, GoesOn DEF Goes
    <3> QED
      BY <1>0, <1>1, <2>0, <2>2, <3>1, RowsRest DEF Early
  <2> QED
    BY <1>4, <2>1, <2>2 DEF Create
<1>5. CASE SaveUser(r)
  <2>0. h[r].pc = "user" /\ conv' = conv
    BY <1>5 DEF SaveUser, At
  <2>1. CASE InsertMessage(r, "user", 1) /\ Goto(r, "userCount")
    BY <1>1, <2>0, <2>1, GoesOn, RowsInserted DEF Goes
  <2>2. CASE GotoFailed(r, "run") /\ UNCHANGED <<msgs, lastId>>
    BY <1>0, <1>1, <2>0, <2>2, GoesOn, RowsRest DEF Goes, Early
  <2> QED
    BY <1>5, <2>1, <2>2 DEF SaveUser
<1>6. CASE CountUser(r)
  <2>0. h[r].pc = "userCount" /\ h[r].pc \notin Early /\ h[r].pc \notin Late
        /\ h[r].conv \in Convs
    BY <1>0, <1>6, Zenon DEF CountUser, At, Early, Late, HandlerStates
  <2>1. h'[r].conv = h[r].conv /\ h'[r].pc \notin Early
    BY <1>6, GoesOn DEF CountUser, Goes, Early
  <2>2. CASE CountMessage(r, "user")
    BY <1>1, <2>0, <2>1, <2>2, RowsCounted
  <2>3. CASE UNCHANGED tables
    BY <1>0, <1>1, <2>0, <2>1, <2>3, RowsRest DEF tables
  <2> QED
    BY <1>6, <2>2, <2>3 DEF CountUser
<1>7. CASE Between(r)
  BY <1>0, <1>1, <1>7, BetweenStep, RowsRest
<1>8. CASE SaveAnswer(r)
  <2>0. h[r].pc = "save" /\ conv' = conv
    BY <1>8 DEF SaveAnswer, At
  <2>1. CASE InsertMessage(r, "assistant", h[r].text) /\ Goto(r, "answerCount")
    BY <1>1, <2>0, <2>1, GoesOn, RowsInserted DEF Goes
  <2>2. CASE (Goto(r, "notify") \/ GotoFailed(r, "notify")) /\ UNCHANGED <<msgs, lastId>>
    BY <1>0, <1>1, <2>0, <2>2, GoesOn, RowsRest DEF Goes, Early, Late
  <2> QED
    BY <1>8, <2>1, <2>2 DEF SaveAnswer
<1>9. CASE CountAnswer(r)
  <2>0. h[r].pc = "answerCount" /\ h[r].pc \notin Early /\ h[r].conv \in Convs
    BY <1>0, <1>9, Zenon DEF CountAnswer, At, Early, HandlerStates
  <2>1. h'[r].conv = h[r].conv /\ h'[r].pc \notin Early /\ h'[r].pc \in Late
    BY <1>9, GoesOn DEF CountAnswer, Goes, Early, Late
  <2>2. CASE CountMessage(r, "assistant")
    BY <1>1, <2>0, <2>1, <2>2, RowsCounted
  <2>3. CASE UNCHANGED tables
    BY <1>0, <1>1, <2>0, <2>1, <2>3, RowsRest DEF tables
  <2> QED
    BY <1>9, <2>2, <2>3 DEF CountAnswer
<1>10. CASE Stream(r)
  <2>1. UNCHANGED <<h, conv, msgs>>
    BY <1>10 DEF Stream, StreamError, StreamOpen, StreamChunk, StreamFinish, StreamEnd, tables
  <2>2. CASE h[r].pc \in Early
    BY <1>0, <1>1, <2>1, <2>2, RowsRest
  <2>3. CASE h[r].pc \notin Early
    BY <1>0, <1>1, <2>1, <2>3, RowsRest
  <2> QED
    BY <2>2, <2>3
<1> QED
  BY <1>2, <1>3, <1>4, <1>5, <1>6, <1>7, <1>8, <1>9, <1>10 DEF Acts, Handler, Between

(* The cleanup takes no counted row and no conversation with one.          *)
LEMMA OutsideRows ==
  ASSUME ChatInv, RowsInv, Outside
  PROVE  RowsInv'
<1>0. h' = h /\ conv \in [Convs -> ConvRows]
  BY OutsideTyped DEF ChatInv
<1>h. \A q \in Requests : h'[q].conv \in {NoConv, Shared, q}
  BY <1>0 DEF RowsInv
<1>m. \A m \in msgs : Row(m) /\ m.conv \in Convs
  BY DEF RowsInv, ChatInv, Messages
<1>f. \A c : IsFiniteSet(Counted(c)) /\ Cardinality(Counted(c)) \in Nat
  BY FS_Subset, FS_CardinalityType DEF RowsInv, Counted
<1>1. CASE UNCHANGED <<conv, msgs>>
  <2>1. \A c : Counted(c)' = Counted(c)
    BY <1>1 DEF Counted
  <2> QED
    BY <1>0, <1>1, <2>1 DEF RowsInv, Row
<1>2. ASSUME NEW c \in Convs, GrowOld(c)
      PROVE  RowsInv'
  <2>1. /\ msgs' = msgs /\ conv[c].age = "ripe" /\ conv'[c].count = conv[c].count
        /\ \A d \in Convs \ {c} : conv'[d] = conv[d]
    BY <1>0, <1>2 DEF GrowOld, ConvRows
  <2>2. \A m \in msgs : Row(m)'
    BY <1>0, <1>m, <2>1 DEF Row
  <2>3. \A d : Counted(d)' = Counted(d)
    BY <2>1 DEF Counted
  <2>4. \A d \in Convs : conv'[d].count >= Cardinality(Counted(d))
    BY <2>1 DEF RowsInv
  <2> QED
    BY <1>h, <2>1, <2>2, <2>3, <2>4 DEF RowsInv
<1>3. CASE CleanMessages
  <2>1. conv' = conv /\ msgs' \in SUBSET msgs
    BY <1>3, Zenon DEF CleanMessages
  <2>2. \A m \in msgs' : Row(m)'
    BY <1>0, <1>m, <2>1 DEF Row
  <2>3. IsFiniteSet(msgs')
    BY <2>1, FS_Subset DEF RowsInv
  <2>4. \A d \in Convs : conv'[d].count >= Cardinality(Counted(d)')
    <3>1. SUFFICES ASSUME NEW d \in Convs PROVE conv[d].count >= Cardinality(Counted(d)')
      BY <2>1
    <3>2. PICK now : now = Counted(d)'
      OBVIOUS
    <3>3. now \in SUBSET Counted(d)
      BY <2>1, <3>2 DEF Counted
    <3>4. Cardinality(now) <= Cardinality(Counted(d)) /\ Cardinality(now) \in Nat
      BY <1>f, <3>3, FS_Subset, FS_CardinalityType
    <3>5. conv[d].count >= Cardinality(Counted(d)) /\ conv[d].count \in Nat
      BY <1>0 DEF RowsInv, ConvRows
    <3> QED
      BY <1>f, <3>2, <3>4, <3>5
  <2>5. \A m, k \in msgs' : m.req = k.req /\ m.role = k.role => m = k
    BY <2>1 DEF RowsInv
  <2> QED
    BY <1>h, <2>2, <2>3, <2>4, <2>5, Zenon DEF RowsInv
<1>4. CASE CleanConversations
  <2>1. /\ msgs' = msgs
        /\ \A d \in Convs : conv[d].age # "old" => conv'[d] = conv[d]
        /\ \A d \in Convs : conv[d].age = "old" => conv'[d].count = 0
    BY <1>4 DEF CleanConversations
  <2>2. \A m \in msgs : Row(m)'
    BY <1>0, <1>m, <2>1 DEF Row
  <2>3. \A d : Counted(d)' = Counted(d)
    BY <2>1 DEF Counted
  <2>4. \A d \in Convs : conv'[d].count >= Cardinality(Counted(d))
    <3>1. SUFFICES ASSUME NEW d \in Convs PROVE conv'[d].count >= Cardinality(Counted(d))
      OBVIOUS
    <3>2. CASE conv[d].age # "old"
      BY <2>1, <3>2 DEF RowsInv
    <3>3. CASE conv[d].age = "old"
      <4>1. Counted(d) = {}
        BY <1>m, <3>3 DEF Counted, Row
      <4> QED
        BY <2>1, <3>3, <4>1, FS_EmptySet
    <3> QED
      BY <3>2, <3>3
  <2> QED
    BY <1>h, <2>1, <2>2, <2>3, <2>4 DEF RowsInv
<1> QED
  BY <1>1, <1>2, <1>3, <1>4 DEF Outside, Disconnect, tables, vars

--------------------------------------------------------------------------------
(* The saved answer, and who builds on it.                                 *)

(* A request at work keeps the rows that are there but for the mark, adds     *)
(* none but its own, and updates a conversation if it changes it.            *)
TablesMove(r) ==
    /\ \A m \in msgs : \E n \in msgs' : n.req = m.req /\ n.role = m.role /\ n.text = m.text
    /\ \A n \in msgs' : \/ \E m \in msgs : m.req = n.req /\ m.role = n.role
                        \/ n.req = r /\ h[r].pc \in {"user", "save"}
    /\ \A c \in Convs : conv'[c].age = conv[c].age \/ conv'[c].age = "fresh"

LEMMA InsertMoves ==
  ASSUME NEW r \in Requests, NEW role, NEW n, InsertMessage(r, role, n), conv' = conv,
         h[r].pc \in {"user", "save"}
  PROVE  /\ TablesMove(r)
         /\ \E m \in msgs' : m.req = r /\ m.role = role /\ m.text = n
<1>1. PICK x : x = [id |-> lastId + 1, conv |-> h[r].conv, role |-> role, req |-> r,
                    text |-> n, counted |-> FALSE]
  BY Zenon
<1>2. msgs' = msgs \cup {x} /\ x.role = role /\ x.req = r /\ x.text = n
  BY <1>1, Zenon DEF InsertMessage
<1> QED
  BY <1>2 DEF TablesMove

LEMMA CountMoves ==
  ASSUME ChatInv, RowsInv, NEW r \in Requests, NEW role, CountMessage(r, role),
         h[r].conv \in Convs
  PROVE  TablesMove(r) /\ conv'[h[r].conv].age \in {"fresh", "absent"}
<1>0. conv \in [Convs -> ConvRows]
  BY DEF ChatInv
<1>1. CASE conv[h[r].conv].age = "absent" /\ UNCHANGED tables
  BY <1>1 DEF TablesMove, tables
<1>2. CASE /\ conv' = [conv EXCEPT ![h[r].conv] = [age |-> "fresh", count |-> @.count + 1]]
           /\ Marks(r, role)
  <2>1. /\ conv'[h[r].conv].age = "fresh"
        /\ \A c \in Convs : conv'[c].age = conv[c].age \/ conv'[c].age = "fresh"
    BY <1>0, <1>2 DEF ConvRows
  <2>2. CASE msgs' = msgs
    BY <2>1, <2>2 DEF TablesMove
  <2>3. CASE MarksOne(r, role)
    <3>1. PICK x \in msgs : msgs' = (msgs \ {x}) \cup {[x EXCEPT !.counted = TRUE]}
      BY <2>3 DEF MarksOne
    <3>2. PICK y : y = [x EXCEPT !.counted = TRUE]
      BY Zenon
    <3>3. x \in Messages
      BY DEF ChatInv
    <3>4. y.req = x.req /\ y.role = x.role /\ y.text = x.text /\ msgs' = (msgs \ {x}) \cup {y}
      BY <3>1, <3>2, <3>3 DEF Messages
    <3> QED
      BY <2>1, <3>4 DEF TablesMove
  <2> QED
    BY <1>2, <2>2, <2>3, Marked
<1> QED
  BY <1>1, <1>2 DEF CountMessage, Marks

LEMMA ActsTables ==
  ASSUME ChatInv, RowsInv, NEW r \in Requests, Acts(r)
  PROVE  TablesMove(r)
<1>0. h[r] \in HandlerStates /\ conv \in [Convs -> ConvRows]
  BY DEF ChatInv
<1>1. CASE UNCHANGED <<conv, msgs>>
  BY <1>1 DEF TablesMove
<1>2. CASE Accept(r) \/ Reject(r) \/ Stream(r) \/ Load(r)
  BY <1>1, <1>2, Zenon
     DEF Accept, Reject, Stream, StreamError, StreamOpen, StreamChunk, StreamFinish,
     StreamEnd, Load, tables
<1>3. CASE Create(r)
  <2>1. CASE conv' = [conv EXCEPT ![r] = [age |-> "fresh", count |-> 0]] /\ msgs' = msgs
    BY <1>0, <2>1 DEF TablesMove
  <2> QED
    BY <1>1, <1>3, <2>1 DEF Create
<1>4. CASE SaveUser(r) \/ SaveAnswer(r)
  BY <1>1, <1>4, InsertMoves, Zenon DEF SaveUser, SaveAnswer, At
<1>5. CASE CountUser(r) \/ CountAnswer(r)
  <2>1. h[r].conv \in Convs
    BY <1>0, <1>5, Zenon DEF CountUser, CountAnswer, At, HandlerStates
  <2> QED
    BY <1>1, <1>5, <2>1, CountMoves DEF CountUser, CountAnswer, tables
<1>6. CASE Between(r)
  BY <1>1, <1>6, BetweenStep
<1> QED
  BY <1>2, <1>3, <1>4, <1>5, <1>6 DEF Acts, Handler, Between

(* A done answer is saved; the conversation of a request whose message was    *)
(* counted is safe from the cleanup, or was gone before.                    *)
Settled(r) == h[r].pc \notin Early \cup {"userCount"} /\ ~h[r].dbfail /\ h[r].conv # NoConv

Kept(r) == \E m \in msgs : m.req = r /\ m.role = "assistant" /\ m.text = h[r].text

SavedInv(r) ==
    /\ h[r].done => h[r].pc \in Late \cup {"save"}
    /\ Settled(r) => conv[h[r].conv].age \in {"fresh", "absent"}
    /\ Settled(r) /\ h[r].pc \in Late /\ h[r].done /\ h[r].text > 0 => Kept(r)

(* A saved answer stays while the tables move.                             *)
LEMMA KeptStays ==
  ASSUME NEW r, NEW q, TablesMove(q), h'[r].text = h[r].text
  PROVE  Kept(r) => Kept(r)'
<1>1. SUFFICES ASSUME NEW m \in msgs, m.req = r, m.role = "assistant", m.text = h[r].text
               PROVE  Kept(r)'
  BY DEF Kept
<1>2. PICK n \in msgs' : n.req = m.req /\ n.role = m.role /\ n.text = m.text
  BY DEF TablesMove
<1> QED
  BY <1>1, <1>2 DEF Kept

(* While others are at work.                                               *)
LEMMA SavedStill ==
  ASSUME ChatInv, NEW q \in Requests, SavedInv(q), h'[q] = h[q], NEW r, TablesMove(r)
  PROVE  SavedInv(q)'
<1>1. h[q].conv \in Convs \cup {NoConv}
  BY Zenon DEF ChatInv, HandlerStates
<1>2. Settled(q)' <=> Settled(q)
  BY DEF Settled
<1>3. Kept(q) => Kept(q)'
  BY KeptStays
<1>4. Settled(q) => conv'[h[q].conv].age \in {"fresh", "absent"}
  BY <1>1 DEF SavedInv, Settled, TablesMove
<1> QED
  BY <1>2, <1>3, <1>4, Zenon DEF SavedInv

LEMMA ActsSaved ==
  ASSUME ChatInv, RowsInv, NEW r \in Requests, SavedInv(r), Acts(r)
  PROVE  SavedInv(r)'
<1>0. h[r] \in HandlerStates /\ h \in [Requests -> HandlerStates] /\ TablesMove(r)
  BY ActsTables DEF ChatInv
<1>1. CASE ~h'[r].done /\ ~Settled(r)'
  BY <1>1, Zenon DEF SavedInv
<1>2. CASE Accept(r) \/ Reject(r)
  <2>1. ~h'[r].done /\ (h'[r].pc \in {"create", "load"} \/ h'[r].conv = NoConv)
    BY <1>2, Accepted, Rejected, Zenon
  <2> QED
    BY <1>1, <2>1 DEF Settled, Early
<1>3. CASE Load(r) \/ Create(r) \/ SaveUser(r)
  <2>1. ~h[r].done
    BY <1>3 DEF SavedInv, Load, Create, SaveUser, At, Late
  <2>2. h'[r].done = h[r].done /\ (h'[r].pc \in {"user", "userCount"} \/ h'[r].dbfail)
    BY <1>0, <1>3 DEF Load, Create, SaveUser, Goto, GotoFailed, HandlerStates
  <2> QED
    BY <1>1, <2>1, <2>2 DEF Settled, Early
<1>4. CASE CountUser(r)
  <2>1. ~h[r].done /\ h[r].conv \in Convs
    BY <1>0, <1>4, Zenon DEF SavedInv, CountUser, At, Late, HandlerStates
  <2>2. h'[r].done = h[r].done /\ h'[r].conv = h[r].conv /\ h'[r].pc = "run"
    BY <1>0, <1>4 DEF CountUser, Goto, GotoFailed, HandlerStates
  <2>3. CASE CountMessage(r, "user")
    <3>1. conv'[h'[r].conv].age \in {"fresh", "absent"}
      BY <2>1, <2>2, <2>3, CountMoves
    <3> QED
      BY <2>1, <2>2, <3>1, Zenon DEF SavedInv
  <2>4. CASE GotoFailed(r, "run")
    <3>1. h'[r].dbfail
      BY <1>0, <2>4 DEF GotoFailed, HandlerStates
    <3> QED
      BY <1>1, <2>1, <2>2, <3>1 DEF Settled
  <2> QED
    BY <1>4, <2>3, <2>4 DEF CountUser
<1>5. CASE Between(r)
  <2>1. /\ UNCHANGED <<conv, msgs>> /\ h'[r].conv = h[r].conv /\ h'[r].dbfail = h[r].dbfail
        /\ h[r].pc \notin Early \cup {"userCount"} /\ h[r].pc # "save"
        /\ h[r].pc \in Late =>
              h'[r].pc \in Late /\ h'[r].text = h[r].text /\ h'[r].done = h[r].done
        /\ h[r].pc \notin Late /\ h'[r].pc \in Late => h'[r].done = h[r].done
        /\ h'[r].done = h[r].done \/ h'[r].pc = "save"
    BY <1>5, BetweenStep, Zenon
  <2>2. Settled(r)' => Settled(r)
    BY <2>1 DEF Settled
  <2>3. h'[r].done => h'[r].pc \in Late \cup {"save"}
    BY <2>1, Zenon DEF SavedInv
  <2>4. h'[r].pc \in Late /\ h'[r].done =>
           h[r].pc \in Late /\ h[r].done /\ h'[r].text = h[r].text
    BY <2>1, Zenon DEF SavedInv
  <2>5. h'[r].text = h[r].text => (Kept(r)' <=> Kept(r))
    BY <2>1 DEF Kept
  <2> QED
    BY <2>1, <2>2, <2>3, <2>4, <2>5, Zenon DEF SavedInv
<1>6. CASE SaveAnswer(r)
  <2>0. h[r].pc = "save" /\ conv' = conv
    BY <1>6 DEF SaveAnswer, At
  <2>1. CASE ~Saves(r) /\ Goto(r, "notify")
    <3>1. /\ h'[r].pc = "notify" /\ h'[r].conv = h[r].conv /\ h'[r].dbfail = h[r].dbfail
          /\ h'[r].text = h[r].text
      BY <1>0, <2>1 DEF Goto, HandlerStates
    <3>2. h[r].conv = NoConv \/ ~(h[r].text > 0)
      BY <2>1 DEF Saves
    <3>3. Settled(r)' => Settled(r)
      BY <2>0, <3>1 DEF Settled, Early
    <3> QED
      BY <2>0, <3>1, <3>2, <3>3, Zenon DEF SavedInv, Settled, Late
  <2>2. CASE InsertMessage(r, "assistant", h[r].text) /\ Goto(r, "answerCount")
    <3>1. /\ h'[r].pc = "answerCount" /\ h'[r].conv = h[r].conv /\ h'[r].dbfail = h[r].dbfail
          /\ h'[r].text = h[r].text
      BY <1>0, <2>2 DEF Goto, HandlerStates
    <3>2. Kept(r)'
      BY <2>0, <2>2, <3>1, InsertMoves DEF Kept
    <3>3. Settled(r)' => Settled(r)
      BY <2>0, <3>1 DEF Settled, Early
    <3> QED
      BY <2>0, <3>1, <3>2, <3>3 DEF SavedInv, Late
  <2>3. CASE GotoFailed(r, "notify")
    <3>1. h'[r].pc = "notify" /\ h'[r].dbfail
      BY <1>0, <2>3 DEF GotoFailed, HandlerStates
    <3> QED
      BY <3>1 DEF SavedInv, Settled, Late
  <2> QED
    BY <1>6, <2>1, <2>2, <2>3, Zenon DEF SaveAnswer
<1>7. CASE CountAnswer(r)
  <2>0. h[r].pc = "answerCount" /\ h[r].conv \in Convs
    BY <1>0, <1>7, Zenon DEF CountAnswer, At, HandlerStates
  <2>1. CASE GotoFailed(r, "notify")
    <3>1. h'[r].pc = "notify" /\ h'[r].dbfail
      BY <1>0, <2>1 DEF GotoFailed, HandlerStates
    <3> QED
      BY <3>1 DEF SavedInv, Settled, Late
  <2>2. CASE CountMessage(r, "assistant") /\ Goto(r, "notify")
    <3>1. /\ h'[r].pc = "notify" /\ h'[r].conv = h[r].conv /\ h'[r].dbfail = h[r].dbfail
          /\ h'[r].text = h[r].text /\ h'[r].done = h[r].done
      BY <1>0, <2>2 DEF Goto, HandlerStates
    <3>2. conv'[h'[r].conv].age \in {"fresh", "absent"}
      BY <2>0, <2>2, <3>1, CountMoves
    <3>3. Settled(r)' => Settled(r)
      BY <2>0, <3>1 DEF Settled, Early
    <3>4. Kept(r) => Kept(r)'
      BY <1>0, <3>1, KeptStays, Zenon
    <3> QED
      BY <2>0, <3>1, <3>2, <3>3, <3>4 DEF SavedInv, Late
  <2> QED
    BY <1>7, <2>1, <2>2 DEF CountAnswer
<1>8. CASE Stream(r)
  <2>1. h' = h
    BY <1>8 DEF Stream, StreamError, StreamOpen, StreamChunk, StreamFinish, StreamEnd
  <2> QED
    BY <1>0, <2>1, SavedStill
<1> QED
  BY <1>2, <1>3, <1>4, <1>5, <1>6, <1>7, <1>8 DEF Acts, Handler, Between

LEMMA OutsideSaved ==
  ASSUME ChatInv, RowsInv, NEW r \in Requests, SavedInv(r), Outside
  PROVE  SavedInv(r)'
<1>0. h' = h /\ conv \in [Convs -> ConvRows] /\ h[r].conv \in Convs \cup {NoConv}
  BY OutsideTyped, Zenon DEF ChatInv, HandlerStates
<1>1. Settled(r)' <=> Settled(r)
  BY <1>0 DEF Settled
<1>2. \A c \in Convs : conv[c].age \in {"fresh", "absent"} => conv'[c].age = conv[c].age
  BY <1>0
     DEF Outside, Disconnect, GrowOld, CleanMessages, CleanConversations, tables, vars, ConvRows
<1>3. \A m \in msgs : conv[m.conv].age # "old" => m \in msgs'
  BY DEF Outside, Disconnect, GrowOld, CleanMessages, CleanConversations, tables, vars
<1>4. \A m \in msgs : m.req = r => m.conv = h[r].conv
  BY Zenon DEF RowsInv, Row
<1>5. Settled(r) /\ Kept(r) => Kept(r)'
  <2>1. SUFFICES ASSUME Settled(r), NEW m \in msgs, m.req = r, m.role = "assistant",
                        m.text = h[r].text
                 PROVE  Kept(r)'
    BY DEF Kept
  <2>2. conv[m.conv].age \in {"fresh", "absent"}
    BY <1>4, <2>1 DEF SavedInv
  <2>3. m \in msgs'
    BY <1>3, <2>2
  <2> QED
    BY <1>0, <2>1, <2>3, Zenon DEF Kept
<1>6. Settled(r) => conv'[h[r].conv].age \in {"fresh", "absent"}
  BY <1>0, <1>2, Zenon DEF SavedInv, Settled
<1> QED
  BY <1>0, <1>1, <1>5, <1>6, Zenon DEF SavedInv

(* FollowUpInformed of one request.                                        *)
Informed(r) ==
    /\ h[r].pc \notin {"idle", "create", "load"}
    /\ ~h[r].dbfail
    /\ Cardinality(h[r].hist) < HistoryLimit
    => \A q \in h[r].told : Stored(q, "assistant") =>
          \E m \in h[r].hist : m.req = q /\ m.role = "assistant"

(* Who was told the conversation id is through with it.                    *)
FollowInv(r) ==
    /\ \A q \in h[r].told : h[q].pc = "end" /\ h[q].conv = h[r].conv /\ h[r].pc # "create"
    /\ Informed(r)

(* A request that has ended does nothing, and so stores nothing.           *)
LEMMA EndedRests ==
  ASSUME ChatInv, RowsInv, NEW r \in Requests, Acts(r), NEW q \in Requests, h[q].pc = "end"
  PROVE  h'[q] = h[q] /\ (Stored(q, "assistant")' => Stored(q, "assistant"))
<1>1. CASE q # r
  <2>1. h'[q] = h[q]
    BY <1>1, ActsTyped DEF Still
  <2>2. TablesMove(r)
    BY ActsTables
  <2> QED
    BY <1>1, <2>1, <2>2 DEF TablesMove, Stored
<1>2. CASE q = r
  <2>1. h[r].pc = "end"
    BY <1>2
  <2>2. ~Between(r)
    BY <2>1, BetweenStep
  <2>3. Stream(r)
    BY <2>1, <2>2
       DEF Acts, Handler, Between, Accept, Reject, Load, Create, SaveUser, CountUser,
       SaveAnswer, CountAnswer, At
  <2>4. UNCHANGED <<h, msgs>>
    BY <2>3 DEF Stream, StreamError, StreamOpen, StreamChunk, StreamFinish, StreamEnd, tables
  <2> QED
    BY <2>4 DEF Stored
<1> QED
  BY <1>1, <1>2, Zenon

(* The history of a request that has it does not change.                   *)
LEMMA FollowKept ==
  ASSUME ChatInv, RowsInv, NEW a \in Requests, Acts(a), NEW r \in Requests, FollowInv(r),
         h'[r].told = h[r].told, h'[r].hist = h[r].hist, h'[r].conv = h[r].conv,
         h'[r].pc # "create" \/ h'[r].pc = h[r].pc,
         ~h'[r].dbfail => ~h[r].dbfail,
         \/ h[r].pc \notin {"idle", "create", "load"}
         \/ h'[r].pc \in {"idle", "create", "load"}
  PROVE  FollowInv(r)'
<1>1. h[r].told \subseteq Requests
  BY Zenon DEF ChatInv, HandlerStates
<1>2. \A q \in h[r].told : h'[q] = h[q] /\ (Stored(q, "assistant")' => Stored(q, "assistant"))
  BY <1>1, EndedRests DEF FollowInv
<1>3. \A q \in h'[r].told : h'[q].pc = "end" /\ h'[q].conv = h'[r].conv /\ h'[r].pc # "create"
  BY <1>2 DEF FollowInv
<1>4. Informed(r)'
  BY <1>2 DEF FollowInv, Informed
<1> QED
  BY <1>3, <1>4, Zenon DEF FollowInv

(* GetHistory: a page smaller than its limit is the whole conversation.    *)
LEMMA WholePage ==
  ASSUME RowsInv, NEW rows, NEW c, IsHistory(rows, c), Cardinality(rows) < HistoryLimit
  PROVE  rows = {m \in msgs : m.conv = c}
<1>1. PICK mine : mine = {m \in msgs : m.conv = c}
  BY Zenon
<1>2. /\ rows \in SUBSET mine
      /\ Cardinality(rows) = IF Cardinality(mine) < HistoryLimit THEN Cardinality(mine)
                             ELSE HistoryLimit
  BY <1>1 DEF IsHistory
<1>3. IsFiniteSet(mine)
  BY <1>1, FS_Subset DEF RowsInv
<1>4. Cardinality(mine) = Cardinality(rows)
  BY <1>2, ChatParameters
<1>5. mine = rows
  BY <1>2, <1>3, <1>4, FS_Subset, Zenon
<1> QED
  BY <1>1, <1>5

LEMMA ActsFollow ==
  ASSUME ChatInv, RowsInv, \A q \in Requests : Told(q), NEW r \in Requests, FollowInv(r),
         Acts(r)
  PROVE  FollowInv(r)'
<1>0. h[r] \in HandlerStates /\ h \in [Requests -> HandlerStates]
  BY DEF ChatInv
<1>s. \A q \in Requests \ {r} : h'[q] = h[q]
  BY ActsTyped DEF Still
<1>1. CASE Accept(r)
  <2>1. PICK c \in {NoConv, Shared} :
           /\ h'[r].pc = (IF c = NoConv THEN "create" ELSE "load") /\ h'[r].conv = c
           /\ h'[r].told = {q \in Requests : h[q].conv = c /\ Got(q, "conversation_id")}
    BY <1>1, Accepted, Zenon
  <2>2. h[r].pc = "idle"
    BY <1>1 DEF Accept, At
  <2>3. \A q \in Requests : Got(q, "conversation_id") => h[q].pc = "end" /\ h[q].conv # NoConv
    <3>1. SUFFICES ASSUME NEW q \in Requests, Got(q, "conversation_id")
                   PROVE  h[q].pc = "end" /\ h[q].conv # NoConv
      OBVIOUS
    <3>2. seen[q] \notin {<<>>, <<"done">>, <<"error">>, <<"refused">>, <<"error", "error">>}
      BY <3>1 DEF Got
    <3> QED
      BY <3>2, Zenon DEF Told
  <2>4. \A q \in h'[r].told : h'[q].pc = "end" /\ h'[q].conv = h'[r].conv /\ h'[r].pc # "create"
    BY <1>s, <2>1, <2>2, <2>3
  <2>5. h'[r].pc \in {"create", "load"}
    BY <2>1
  <2> QED
    BY <2>4, <2>5 DEF FollowInv, Informed
<1>2. CASE Reject(r)
  <2>1. h'[r].told = {}
    BY <1>2, Rejected, Zenon
  <2> QED
    BY <2>1 DEF FollowInv, Informed
<1>3. CASE Load(r)
  <2>0. h[r].pc = "load" /\ msgs' = msgs
    BY <1>3 DEF Load, At, tables
  <2>1. CASE \E rows \in SUBSET msgs :
                /\ IsHistory(rows, h[r].conv)
                /\ h' = [h EXCEPT ![r].pc = "user", ![r].hist = rows]
    <3>1. PICK rows \in SUBSET msgs :
             /\ IsHistory(rows, h[r].conv)
             /\ h' = [h EXCEPT ![r].pc = "user", ![r].hist = rows]
      BY <2>1, Zenon
    <3>2. /\ h'[r].pc = "user" /\ h'[r].hist = rows /\ h'[r].told = h[r].told
          /\ h'[r].conv = h[r].conv
      BY <1>0, <3>1 DEF HandlerStates
    <3>3. \A q \in h[r].told : q \in Requests \ {r} /\ h[q].pc = "end" /\ h[q].conv = h[r].conv
      BY <1>0, <2>0, Zenon DEF FollowInv, HandlerStates
    <3>4. \A q \in h'[r].told : h'[q].pc = "end" /\ h'[q].conv = h'[r].conv
      BY <1>s, <3>2, <3>3
    <3>5. ASSUME NEW q \in h[r].told, NEW m \in msgs, m.req = q, m.role = "assistant",
                 Cardinality(rows) < HistoryLimit
          PROVE  m \in rows
      <4>1. m.conv = h[r].conv
        BY <3>3, <3>5, Zenon DEF RowsInv, Row
      <4>2. rows = {n \in msgs : n.conv = h[r].conv}
        BY <3>1, <3>5, WholePage
      <4> QED
        BY <4>1, <4>2
    <3>6. Informed(r)'
      BY <2>0, <3>2, <3>5, Zenon DEF Informed, Stored
    <3> QED
      BY <3>2, <3>4, <3>6 DEF FollowInv
  <2>2. CASE GotoFailed(r, "user")
    <3>1. /\ h'[r].pc = "user" /\ h'[r].dbfail /\ h'[r].told = h[r].told
          /\ h'[r].conv = h[r].conv
      BY <1>0, <2>2 DEF GotoFailed, HandlerStates
    <3>2. \A q \in h[r].told : q \in Requests \ {r} /\ h[q].pc = "end" /\ h[q].conv = h[r].conv
      BY <1>0, <2>0, Zenon DEF FollowInv, HandlerStates
    <3>3. \A q \in h'[r].told : h'[q].pc = "end" /\ h'[q].conv = h'[r].conv
      BY <1>s, <3>1, <3>2
    <3> QED
      BY <3>1, <3>3 DEF FollowInv, Informed
  <2> QED
    BY <1>3, <2>1, <2>2 DEF Load
<1>4. CASE Create(r)
  <2>1. h[r].told = {}
    BY <1>4 DEF Create, At, FollowInv
  <2>2. h'[r].told = h[r].told
    BY <1>0, <1>4 DEF Create, GotoFailed, HandlerStates
  <2> QED
    BY <2>1, <2>2 DEF FollowInv, Informed
<1>5. CASE SaveUser(r) \/ CountUser(r) \/ SaveAnswer(r) \/ CountAnswer(r)
  <2>1. h[r].pc \in {"user", "userCount", "save", "answerCount"}
    BY <1>5, Zenon DEF SaveUser, CountUser, SaveAnswer, CountAnswer, At
  <2>2. /\ h'[r].told = h[r].told /\ h'[r].hist = h[r].hist /\ h'[r].conv = h[r].conv
        /\ ~h'[r].dbfail => ~h[r].dbfail
        /\ h'[r].pc \in {"userCount", "run", "answerCount", "notify"}
    <3>1. PICK pc \in {"userCount", "run", "answerCount", "notify"} :
             Goto(r, pc) \/ GotoFailed(r, pc)
      BY <1>5, Zenon DEF SaveUser, CountUser, SaveAnswer, CountAnswer
    <3>2. CASE Goto(r, pc)
      BY <1>0, <3>2 DEF Goto, HandlerStates
    <3>3. CASE GotoFailed(r, pc)
      BY <1>0, <3>3 DEF GotoFailed, HandlerStates
    <3> QED
      BY <3>1, <3>2, <3>3, Zenon
  <2> QED
    BY <2>1, <2>2, FollowKept
<1>6. CASE Between(r)
  <2>1. /\ h'[r].told = h[r].told /\ h'[r].hist = h[r].hist /\ h'[r].conv = h[r].conv
        /\ h'[r].dbfail = h[r].dbfail /\ h[r].pc \notin Early /\ h'[r].pc \notin Early
    BY <1>6, BetweenStep, Zenon
  <2> QED
    BY <2>1, FollowKept, Zenon DEF Early
<1>7. CASE Stream(r)
  <2>1. h' = h
    BY <1>7 DEF Stream, StreamError, StreamOpen, StreamChunk, StreamFinish, StreamEnd
  <2> QED
    BY <2>1, FollowKept
<1> QED
  BY <1>1, <1>2, <1>3, <1>4, <1>5, <1>6, <1>7 DEF Acts, Handler, Between

LEMMA OutsideFollow ==
  ASSUME ChatInv, NEW r \in Requests, FollowInv(r), Outside
  PROVE  FollowInv(r)'
<1>1. h' = h
  BY OutsideTyped
<1>2. msgs' \subseteq msgs
  BY DEF Outside, Disconnect, GrowOld, CleanMessages, CleanConversations, tables, vars
<1>3. \A q : Stored(q, "assistant")' => Stored(q, "assistant")
  BY <1>2 DEF Stored
<1> QED
  BY <1>1, <1>3 DEF FollowInv, Informed

--------------------------------------------------------------------------------
(* The inductive invariant, and what follows from it.                      *)

(* Every request by itself, and the tables they share.                     *)
ConversationInv == RequestsInv /\ RowsInv
                   /\ \A r \in Requests : SavedInv(r) /\ FollowInv(r)

LEMMA InitConversation == Init => ConversationInv
<1> SUFFICES ASSUME Init PROVE ConversationInv
  OBVIOUS
<1>1. RequestsInv
  BY InitRequests
<1>2. msgs = {} /\ \A r \in Requests : h[r] = Idle
  BY DEF Init
<1> USE <1>2
<1>3. RowsInv
  <2>1. \A c : Counted(c) = {}
    BY DEF Counted
  <2>2. \A c \in Convs : conv[c].count = 0
    BY DEF Init
  <2>3. \A r \in Requests : h[r].conv = NoConv
    BY DEF Idle
  <2>4. IsFiniteSet(msgs) /\ Cardinality({}) = 0
    BY FS_EmptySet
  <2>5. \A c \in Convs : conv[c].count >= Cardinality(Counted(c))
    BY <2>1, <2>2, <2>4
  <2> QED
    BY <2>3, <2>4, <2>5 DEF RowsInv
<1>4. SUFFICES ASSUME NEW r \in Requests PROVE SavedInv(r) /\ FollowInv(r)
  BY <1>1, <1>3 DEF ConversationInv
<1>5. h[r].pc = "idle" /\ h[r].told = {} /\ h[r].done = FALSE
  BY DEF Idle
<1>6. SavedInv(r)
  BY <1>5 DEF SavedInv, Settled, Early
<1>7. FollowInv(r)
  BY <1>5 DEF FollowInv, Informed
<1> QED
  BY <1>6, <1>7

LEMMA NextConversation == ConversationInv /\ [Next]_vars => ConversationInv'
<1> SUFFICES ASSUME ConversationInv, [Next]_vars PROVE ConversationInv'
  OBVIOUS
<1>0. /\ RequestsInv /\ RequestsInv' /\ RowsInv
      /\ \A q \in Requests : SavedInv(q) /\ FollowInv(q)
  BY NextRequests DEF ConversationInv
<1> USE <1>0
<1>s. ChatInv /\ \A q \in Requests : Told(q) /\ Streaming(q) /\ Dialogue(q)
  BY DEF RequestsInv, RequestInv
<1> USE <1>s
<1>1. ASSUME NEW r \in Requests, Acts(r)
      PROVE  ConversationInv'
  <2> USE <1>1
  <2>1. RowsInv' /\ \A q \in Requests \ {r} : Still(q)
    BY ActsTyped, ActsRows
  <2>2. TablesMove(r)
    BY ActsTables
  <2>3. SUFFICES ASSUME NEW q \in Requests PROVE SavedInv(q)' /\ FollowInv(q)'
    BY <2>1 DEF ConversationInv
  <2>4. SavedInv(q) /\ FollowInv(q)
    OBVIOUS
  <2> USE <2>4
  <2>5. CASE q = r
    <3> USE <2>5
    <3>1. SavedInv(r)'
      BY ActsSaved
    <3>2. FollowInv(r)'
      BY ActsFollow
    <3> QED
      BY <3>1, <3>2
  <2>6. CASE q # r
    <3>1. h'[q] = h[q]
      BY <2>1, <2>6 DEF Still
    <3>2. SavedInv(q)'
      BY <2>2, <3>1, SavedStill, Zenon
    <3>3. FollowInv(q)'
      BY <3>1, FollowKept, Zenon
    <3> QED
      BY <3>2, <3>3
  <2> QED
    BY <2>5, <2>6
<1>2. CASE Outside
  <2> USE <1>2
  <2>1. RowsInv'
    BY OutsideRows
  <2>2. SUFFICES ASSUME NEW q \in Requests PROVE SavedInv(q)' /\ FollowInv(q)'
    BY <2>1 DEF ConversationInv
  <2>3. SavedInv(q)'
    BY OutsideSaved
  <2>4. FollowInv(q)'
    BY OutsideFollow
  <2> QED
    BY <2>3, <2>4
<1> QED
  BY <1>1, <1>2, StepKinds

(* The requests, their streams and the rows they share keep what they need   *)
(* to know of each other.                                                   *)
THEOREM ConversationInductive == Spec => []ConversationInv
BY InitConversation, NextConversation, PTL DEF Spec

(* An answer the client was told is done is in its conversation, with its    *)
(* text, whatever the other requests and the cleanup do meanwhile.           *)
THEOREM AnswerStays == Spec => []AnswerSaved
<1>1. ConversationInv => AnswerSaved
  <2>1. SUFFICES ASSUME ConversationInv, NEW r \in Requests, At(r, "end"), h[r].done,
                        h[r].conv # NoConv, h[r].text > 0, ~h[r].dbfail
                 PROVE  \E m \in msgs : m.req = r /\ m.role = "assistant" /\ m.text = h[r].text
    BY DEF AnswerSaved
  <2>2. SavedInv(r)
    BY <2>1 DEF ConversationInv, RequestInv
  <2>3. Settled(r) /\ h[r].pc \in Late
    BY <2>1 DEF Settled, Early, Late, At
  <2>4. Kept(r)
    BY <2>1, <2>2, <2>3 DEF SavedInv
  <2> QED
    BY <2>4 DEF Kept
<1> QED
  BY <1>1, ConversationInductive, PTL

(* Who was told the conversation id and asks again has the saved answer in    *)
(* the history, as long as that is within its limit.                        *)
THEOREM FollowUpKnows == Spec => []FollowUpInformed
<1>1. ConversationInv => FollowUpInformed
  BY DEF ConversationInv, FollowInv, Informed, FollowUpInformed
<1> QED
  BY <1>1, ConversationInductive, PTL

(* A counted message keeps its conversation through the cleanup, and the     *)
(* conversation counts at least the counted messages that are there.         *)
THEOREM RowsKeptTogether == Spec => []KeptTogether
<1>1. ConversationInv => KeptTogether
  <2>1. SUFFICES ASSUME ConversationInv, NEW m \in msgs, m.counted
                 PROVE  /\ conv[m.conv].age # "absent"
                        /\ conv[m.conv].count >=
                              Cardinality({n \in msgs : n.counted /\ n.conv = m.conv})
    BY DEF KeptTogether
  <2>2. RowsInv /\ m.conv \in Convs
    <3>1. RowsInv /\ m \in Messages
      BY <2>1 DEF ConversationInv, RequestsInv, ChatInv
    <3> QED
      BY <3>1 DEF Messages
  <2>3. conv[m.conv].age = "fresh"
    BY <2>1, <2>2 DEF RowsInv, Row
  <2>4. conv[m.conv].count >= Cardinality(Counted(m.conv))
    BY <2>2 DEF RowsInv
  <2> QED
    BY <2>3, <2>4 DEF Counted
<1> QED
  BY <1>1, ConversationInductive, PTL

================================================================================
