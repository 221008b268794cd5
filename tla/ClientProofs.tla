---------------------------- MODULE ClientProofs ----------------------------
(***************************************************************************)
(* What holds of the client for every input, every interleaving of its two *)
(* threads with the server and every bound on the queue and the chat.      *)
(***************************************************************************)
EXTENDS Client, SequenceTheorems, FiniteSetTheorems, TLAPS

-----------------------------------------------------------------------------
(* Places in a growing set of numbers. *)

LEMMA Ranks ==
  ASSUME NEW n \in Nat, NEW S \in SUBSET (1 .. n)
  PROVE  /\ IsFiniteSet(S) /\ Cardinality(S) \in 0 .. n
         /\ \A i \in S : Rank(S, i) \in 1 .. Cardinality(S)
<1>1. IsFiniteSet(1 .. n) /\ Cardinality(1 .. n) = n
  <2>1. 1 \in Int /\ n \in Int OBVIOUS
  <2>2. IsFiniteSet(1 .. n) /\ Cardinality(1 .. n) = IF 1 > n THEN 0 ELSE n - 1 + 1
    BY <2>1, FS_Interval
  <2>3. (IF 1 > n THEN 0 ELSE n - 1 + 1) = n OBVIOUS
  <2> QED BY <2>2, <2>3
<1>2. IsFiniteSet(S) /\ Cardinality(S) \in 0 .. n
  <2>1. IsFiniteSet(S) /\ Cardinality(S) <= n BY <1>1, FS_Subset
  <2>2. Cardinality(S) \in Nat BY <2>1, FS_CardinalityType
  <2> QED BY <2>1, <2>2
<1>3. ASSUME NEW i \in S PROVE Rank(S, i) \in 1 .. Cardinality(S)
  <2> DEFINE T == {j \in S : j <= i}
  <2>1. T \subseteq S /\ i \in T OBVIOUS
  <2> HIDE DEF T
  <2>2. IsFiniteSet(T) /\ Cardinality(T) <= Cardinality(S) /\ Cardinality(T) \in Nat
    BY <1>2, <2>1, FS_Subset, FS_CardinalityType
  <2>3. Cardinality(T) # 0 BY <2>1, <2>2, FS_EmptySet
  <2> QED BY <1>2, <2>2, <2>3 DEF Rank, T
<1> QED BY <1>2, <1>3

LEMMA RanksGrow ==
  ASSUME NEW n \in Nat, NEW S \in SUBSET (1 .. n)
  PROVE  /\ Cardinality(S \cup {n + 1}) = Cardinality(S) + 1
         /\ Rank(S \cup {n + 1}, n + 1) = Cardinality(S) + 1
         /\ \A i \in S : Rank(S \cup {n + 1}, i) = Rank(S, i)
<1>1. IsFiniteSet(S) BY Ranks
<1>2. n + 1 \notin S OBVIOUS
<1>3. Cardinality(S \cup {n + 1}) = Cardinality(S) + 1 BY <1>1, <1>2, FS_AddElement
<1>4. {j \in S \cup {n + 1} : j <= n + 1} = S \cup {n + 1}
  <2>1. \A j \in S \cup {n + 1} : j <= n + 1 OBVIOUS
  <2> DEFINE T == S \cup {n + 1}
  <2> HIDE DEF T
  <2> QED BY <2>1 DEF T
<1>5. ASSUME NEW i \in S PROVE {j \in S \cup {n + 1} : j <= i} = {j \in S : j <= i} OBVIOUS
<1> QED BY <1>3, <1>4, <1>5 DEF Rank

-----------------------------------------------------------------------------
(* The server's answers. *)

LEMMA LinesTyped ==
  ASSUME NEW kinds \in Seq(Kind), NEW by \in Asker \cup {Nobody, "echo"}
  PROVE  /\ Lines(kinds, by) \in Seq(Line) /\ Len(Lines(kinds, by)) = Len(kinds)
         /\ \A i \in 1 .. Len(kinds) : /\ Lines(kinds, by)[i].kind = kinds[i]
                                       /\ Lines(kinds, by)[i].by = by
<1>1. Len(kinds) \in Nat /\ DOMAIN kinds = 1 .. Len(kinds)
      /\ \A i \in 1 .. Len(kinds) : kinds[i] \in Kind
  BY LenProperties, ElementOfSeq
<1>2. Lines(kinds, by) \in [1 .. Len(kinds) -> Line] BY <1>1 DEF Lines, Line
<1>3. Lines(kinds, by) \in Seq(Line) /\ Len(Lines(kinds, by)) = Len(kinds)
  BY <1>1, <1>2, SeqDef, LenProperties DEF Lines
<1> QED BY <1>1, <1>3 DEF Lines

SilentKind == {"entered", "text", "header", "bare", "body", "footer", "blank"}

\* In an answer, the body follows a header and the footer the body.
InAnswer(kinds) ==
  \A i \in DOMAIN kinds :
    /\ kinds[i] \in SilentKind
    /\ kinds[i] = "body" => i - 1 \in DOMAIN kinds /\ kinds[i - 1] \in {"header", "bare"}
    /\ kinds[i] = "footer" => i - 1 \in DOMAIN kinds /\ kinds[i - 1] = "body"

LEMMA AnswersTyped ==
  ASSUME TypeOK, NEW command \in Command
  PROVE  Answer(command) \in Seq(Kind)
<1>1. /\ FirstPage \in Seq(Kind) /\ Page \in Seq(Kind) /\ StatsAnswer \in Seq(Kind)
      /\ Arrival \in Seq(Kind) /\ Welcome \in Seq(Kind)
      /\ <<"text", "blank">> \in Seq(Kind)
  BY DEF FirstPage, Page, StatsAnswer, Arrival, Welcome, Kind
<1>2. command \in {"quote", "number"} => <<command, "blank">> \in Seq(Kind) BY DEF Kind
<1> QED BY <1>1, <1>2 DEF Answer

LEMMA SilentAnswers ==
  ASSUME TypeOK, NEW command \in {"stats", "noise"}
  PROVE  InAnswer(Answer(command))
<1>1. Answer(command) \in {Arrival, Welcome, Page, StatsAnswer, <<"text", "blank">>}
  BY DEF Answer
<1>2. InAnswer(<<"text", "blank">>) BY DEF InAnswer, SilentKind
<1>3. InAnswer(Page) BY DEF InAnswer, SilentKind, Page
<1>4. InAnswer(StatsAnswer) BY DEF InAnswer, SilentKind, StatsAnswer
<1>5. InAnswer(Arrival) BY DEF InAnswer, SilentKind, Arrival
<1>6. InAnswer(Welcome) BY DEF InAnswer, SilentKind, Welcome
<1> QED BY <1>1, <1>2, <1>3, <1>4, <1>5, <1>6

-----------------------------------------------------------------------------
(* Types. *)

LEMMA WritesTyped ==
  ASSUME TypeOK, NEW t \in Thread, NEW order \in Order, BeginWrite(t, order)
  PROVE  /\ writing' \in [Thread -> Order \cup {Nothing}]
         /\ clash' \in [Thread -> BOOLEAN]
BY DEF TypeOK, BeginWrite

LEMMA EndsTyped ==
  ASSUME TypeOK, NEW t \in Thread, ~Idle(t), EndWrite(t)
  PROVE  /\ inbox' \in Seq(Order) /\ clash' \in [Thread -> BOOLEAN]
         /\ writing' \in [Thread -> Order \cup {Nothing}]
         /\ writing[t] \in Order
<1>1. writing[t] \in Order BY DEF TypeOK, Idle
<1>2. PICK w : inbox' = inbox \o w /\ w \in {<<>>, <<writing[t]>>, <<writing[t], writing[t]>>,
                                          <<[writing[t] EXCEPT !.command = "noise"]>>}
  BY DEF EndWrite
<1>3. [writing[t] EXCEPT !.command = "noise"] \in Order BY <1>1 DEF Order, Command
<1>4. w \in Seq(Order)
  <2> DEFINE o == writing[t]
             n == [o EXCEPT !.command = "noise"]
  <2>1. o \in Order /\ n \in Order BY <1>1, <1>3
  <2>2. w = <<>> \/ w = <<o>> \/ w = <<o, o>> \/ w = <<n>> BY <1>2
  <2> HIDE DEF o, n
  <2>3. <<>> \in Seq(Order) /\ <<o>> \in Seq(Order) /\ <<o, o>> \in Seq(Order)
        /\ <<n>> \in Seq(Order)
    BY <2>1
  <2> QED BY <2>2, <2>3
<1>5. inbox' \in Seq(Order) BY <1>2, <1>4, ConcatProperties DEF TypeOK
<1>6. clash' \in [Thread -> BOOLEAN] /\ writing' \in [Thread -> Order \cup {Nothing}]
  BY DEF TypeOK, EndWrite
<1> QED BY <1>1, <1>5, <1>6

LEMMA EchoTyped == \A input : Echo(input) \in Line /\ Echo(input).by = "echo"
BY DEF Echo, Line, Kind

LEMMA ChatTyped ==
  ASSUME TypeOK, NEW line \in Line, SendMessageToChat(line)
  PROVE  /\ pendingSilentStats' \in BOOLEAN /\ inSilentStatsBlock' \in BOOLEAN
         /\ messageList' \in Seq(Line) /\ Len(messageList') <= MaxMessages
         /\ log' \in Seq(Entry)
<1> USE DEF SendMessageToChat, ShowOrHide, Lose
<1>1. pendingSilentStats' \in BOOLEAN /\ inSilentStatsBlock' \in BOOLEAN
  BY DEF TypeOK
<1> DEFINE t == Trimmed(messageList)
<1>2. t \in Seq(Line) /\ Len(t) + 1 <= MaxMessages /\ Len(t) \in Nat
  <2>1. messageList \in Seq(Line) /\ Len(messageList) \in Nat BY LenProperties DEF TypeOK
  <2>2. CASE Len(messageList) >= MaxMessages
    <3>1. Len(messageList) # 0 /\ messageList # <<>> /\ t = Tail(messageList)
      BY <2>1, <2>2, ChatHoldsLines DEF Trimmed
    <3> HIDE DEF t
    <3>2. t \in Seq(Line) /\ Len(t) = Len(messageList) - 1
      BY <2>1, <3>1, HeadTailProperties
    <3> QED BY <2>1, <3>1, <3>2, ChatHoldsLines DEF TypeOK
  <2>3. CASE ~(Len(messageList) >= MaxMessages)
    <3>1. t = messageList BY <2>3 DEF Trimmed
    <3> QED BY <2>1, <2>3, <3>1, ChatHoldsLines
  <2> QED BY <2>2, <2>3
<1> HIDE DEF t
<1>3. messageList' = messageList \/ messageList' = Append(t, line)
  BY DEF t
<1>4. messageList' \in Seq(Line) /\ Len(messageList') <= MaxMessages
  <2> DEFINE a == Append(t, line)
  <2>1. a \in Seq(Line) /\ Len(a) = Len(t) + 1 BY <1>2, AppendProperties
  <2>2. messageList' = messageList \/ messageList' = a BY <1>3
  <2> HIDE DEF a
  <2> QED BY <1>2, <2>1, <2>2 DEF TypeOK
<1>5. PICK f \in {"shown", "hidden", "lost"} : log' = Append(log, [line |-> line, fate |-> f])
  OBVIOUS
<1>6. log' \in Seq(Entry) BY <1>5, AppendProperties DEF TypeOK, Entry
<1> QED BY <1>1, <1>4, <1>6

LEMMA InitTyped == Init => TypeOK
<1> SUFFICES ASSUME Init PROVE TypeOK OBVIOUS
<1>1. [command |-> "password", by |-> "user"] \in Order BY DEF Order, Command, Asker
<1>2. inbox \in Seq(Order) BY <1>1 DEF Init
<1>3. <<"recovered">> \in Seq(Kind) /\ Nobody \in Asker \cup {Nobody, "echo"} BY DEF Kind
<1>4. Lines(<<"recovered">>, Nobody) \in Seq(Line) BY <1>3, LinesTyped
<1>5. wire \in Seq(Line) /\ Len(wire) \in Nat BY <1>4, LenProperties DEF Init
<1>6. \A S : <<>> \in Seq(S) OBVIOUS
<1>7. Len(<<>>) = 0 OBVIOUS
<1>8. writing \in [Thread -> Order \cup {Nothing}] /\ clash \in [Thread -> BOOLEAN]
  BY DEF Init
<1>9. /\ queue \in Seq(Line) /\ messageList \in Seq(Line) /\ Len(messageList) <= MaxMessages
      /\ log \in Seq(Entry) /\ next \in 0 .. Len(wire)
  BY <1>5, <1>6, <1>7, ChatHoldsLines DEF Init
<1>10. typed \in 0 .. MaxInputs /\ others \in 0 .. MaxOthers BY BoundsAreNumbers DEF Init
<1>11. /\ stage \in Stage /\ known \in BOOLEAN /\ reader = "read"
       /\ canAutoRequestStats \in BOOLEAN /\ initialInfoRequested \in BOOLEAN
       /\ pendingSilentStats \in BOOLEAN /\ inSilentStatsBlock \in BOOLEAN
  BY DEF Init, Stage
<1> QED BY <1>2, <1>5, <1>8, <1>9, <1>10, <1>11 DEF TypeOK

\* What the server sends is lines, and none of them is an echo.
FromServer(lines) ==
  lines \in Seq(Line) /\ \A i \in 1 .. Len(lines) : lines[i].by # "echo"

LEMMA Sends ==
  ASSUME TypeOK, Handle \/ OthersActive
  PROVE  \E lines : wire' = wire \o lines /\ FromServer(lines)
<1>1. CASE Handle
  <2>1. Head(inbox) \in Order BY <1>1, HeadTailProperties DEF Handle, TypeOK
  <2> DEFINE order == Head(inbox)
  <2>2. order.command \in Command /\ order.by \in Asker BY <2>1 DEF Order
  <2>3. wire' = wire \o Lines(Answer(order.command), order.by) BY <1>1 DEF Handle
  <2> HIDE DEF order
  <2>4. Answer(order.command) \in Seq(Kind) BY <2>2, AnswersTyped
  <2>5. FromServer(Lines(Answer(order.command), order.by))
    BY <2>2, <2>4, LinesTyped DEF FromServer, Asker
  <2> QED BY <2>3, <2>5
<1>2. CASE OthersActive
  <2>1. PICK kind \in {"quote", "entered", "number"} : wire' = wire \o Lines(<<kind, "blank">>, Nobody)
    BY <1>2 DEF OthersActive
  <2> DEFINE k == <<kind, "blank">>
  <2>2. k \in Seq(Kind) BY DEF Kind
  <2> HIDE DEF k
  <2>3. Nobody # "echo" BY DEF Nobody
  <2>4. FromServer(Lines(k, Nobody)) BY <2>2, <2>3, LinesTyped DEF FromServer
  <2> QED BY <2>1, <2>4 DEF k
<1> QED BY <1>1, <1>2

\* The wire only grows.
LEMMA WireGrows ==
  ASSUME TypeOK, NEW lines, wire' = wire \o lines, FromServer(lines)
  PROVE  /\ wire' \in Seq(Line) /\ Len(wire') = Len(wire) + Len(lines)
         /\ Len(wire) \in Nat /\ Len(lines) \in Nat /\ next \in 0 .. Len(wire')
         /\ \A i \in 1 .. Len(wire) : wire'[i] = wire[i]
         /\ \A i \in Len(wire) + 1 .. Len(wire') : wire'[i] = lines[i - Len(wire)]
<1>1. wire \in Seq(Line) /\ lines \in Seq(Line) /\ Len(wire) \in Nat /\ Len(lines) \in Nat
  BY LenProperties DEF TypeOK, FromServer
<1> DEFINE w == wire \o lines
<1>2. /\ w \in Seq(Line) /\ Len(w) = Len(wire) + Len(lines)
      /\ \A i \in 1 .. Len(wire) + Len(lines) :
           w[i] = IF i <= Len(wire) THEN wire[i] ELSE lines[i - Len(wire)]
  BY <1>1, ConcatProperties
<1>3. wire' = w OBVIOUS
<1> HIDE DEF w
<1> QED BY <1>1, <1>2, <1>3 DEF TypeOK

\* The reader works on a line it has read, and waits for a write it has begun.
Busy ==
  /\ reader # "read" => next # 0
  /\ reader \in {"looking", "asking"} => ~Idle("reader")

LEMMA StaysBusy == TypeOK /\ Busy /\ [Next]_vars => Busy'
<1> SUFFICES ASSUME TypeOK, Busy, [Next]_vars PROVE Busy' OBVIOUS
<1> USE DEF server, readerState, screen
<1>1. \A order \in Order : order # Nothing BY DEF Order, Nothing, Nobody, Asker
<1>0. reader' # "read" => next' # 0
  <2>1. Read => next' # 0 BY DEF Read, ReadLine, TypeOK
  <2>2. UNCHANGED next /\ (UNCHANGED reader \/ reader # "read" \/ reader' = "read")
        => (reader' # "read" => next' # 0)
    BY DEF Busy
  <2>3. \A i \in Inputs : Type(i) => UNCHANGED <<next, reader>> BY DEF Type
  <2> QED BY <2>1, <2>2, <2>3
          DEF Next, ReaderStep, Frame, vars, Handle, OthersActive, Look, Looked,
              RequestStatsSilently, Requested, RequestFails, Enqueue, ReaderAt, Dispatch,
              Typed, TypeFails
<1>2. CASE UNCHANGED <<reader, writing>> BY <1>0, <1>2 DEF Busy, Idle
<1>3. CASE reader' \notin {"looking", "asking"} BY <1>0, <1>3 DEF Busy
<1>4. CASE Look
  <2>1. [command |-> "look", by |-> "client"] \in Order BY DEF Order, Command, Asker
  <2>2. writing'["reader"] # Nothing
    BY <1>1, <1>4, <2>1 DEF Look, BeginWrite, TypeOK, Thread
  <2> QED BY <1>0, <2>2 DEF Busy, Idle
<1>5. CASE RequestStatsSilently
  <2>1. [command |-> "stats", by |-> "silent"] \in Order BY DEF Order, Command, Asker
  <2>2. writing'["reader"] # Nothing
    BY <1>1, <1>5, <2>1 DEF RequestStatsSilently, BeginWrite, TypeOK, Thread
  <2> QED BY <1>0, <2>2 DEF Busy, Idle
<1>6. CASE UNCHANGED reader /\ \E order : writing' = [writing EXCEPT !["main"] = order]
  <2>1. writing'["reader"] = writing["reader"] BY <1>6 DEF TypeOK, Thread
  <2> QED BY <1>0, <1>6, <2>1 DEF Busy, Idle
<1>7. Handle \/ OthersActive \/ Dispatch => UNCHANGED <<reader, writing>>
  BY DEF Handle, OthersActive, Dispatch
<1>8. Read \/ Looked \/ Requested \/ RequestFails \/ Enqueue => reader' \notin {"looking", "asking"}
  BY DEF Read, ReadLine, Looked, Requested, RequestFails, Enqueue, ReaderAt
<1>9. Typed \/ TypeFails => UNCHANGED reader /\ \E order : writing' = [writing EXCEPT !["main"] = order]
  BY DEF Typed, TypeFails, EndWrite
<1>10. \A i \in Inputs : Type(i) =>
         \/ UNCHANGED <<reader, writing>>
         \/ UNCHANGED reader /\ \E order : writing' = [writing EXCEPT !["main"] = order]
  BY DEF Type, BeginWrite
<1> QED BY <1>2, <1>3, <1>4, <1>5, <1>6, <1>7, <1>8, <1>9, <1>10
        DEF Next, ReaderStep, Frame, vars

LEMMA StepTyped == TypeOK /\ Busy /\ [Next]_vars => TypeOK'
<1> SUFFICES ASSUME TypeOK, Busy, [Next]_vars PROVE TypeOK' OBVIOUS
<1> USE DEF server, readerState, screen
<1>1. CASE Handle
  <2>1. PICK lines : wire' = wire \o lines /\ FromServer(lines) BY <1>1, Sends
  <2>2. wire' \in Seq(Line) /\ next \in 0 .. Len(wire') BY <2>1, WireGrows
  <2>3. inbox' \in Seq(Order) BY <1>1, HeadTailProperties DEF Handle, TypeOK
  <2>4. stage' \in Stage BY <1>1 DEF Handle, Moves, TypeOK, Stage
  <2> QED BY <1>1, <2>2, <2>3, <2>4 DEF Handle, TypeOK
<1>2. CASE OthersActive
  <2>1. PICK lines : wire' = wire \o lines /\ FromServer(lines) BY <1>2, Sends
  <2>2. wire' \in Seq(Line) /\ next \in 0 .. Len(wire') BY <2>1, WireGrows
  <2>3. others' \in 0 .. MaxOthers BY <1>2, BoundsAreNumbers DEF OthersActive, TypeOK
  <2> QED BY <1>2, <2>2, <2>3 DEF OthersActive, TypeOK
<1>3. CASE Read
  <2>1. next' \in 1 .. Len(wire) /\ next' \in 0 .. Len(wire)
    BY <1>3, LenProperties DEF Read, ReadLine, TypeOK
  <2>2. wire[next'] \in Line BY <2>1, ElementOfSeq DEF TypeOK
  <2>3. queue' \in Seq(Line) BY <1>3, <2>2, AppendProperties DEF Read, TypeOK
  <2>4. reader' \in {"read", "look"} BY <1>3 DEF Read, ReadLine
  <2>5. canAutoRequestStats' \in BOOLEAN /\ initialInfoRequested' \in BOOLEAN
    BY <1>3 DEF Read, TypeOK
  <2> QED BY <1>3, <2>1, <2>3, <2>4, <2>5 DEF Read, TypeOK
<1>4. CASE Look
  <2>1. [command |-> "look", by |-> "client"] \in Order BY DEF Order, Command, Asker
  <2>2. writing' \in [Thread -> Order \cup {Nothing}] /\ clash' \in [Thread -> BOOLEAN]
    BY <1>4, <2>1, WritesTyped DEF Look, Thread
  <2> QED BY <1>4, <2>2 DEF Look, ReaderAt, TypeOK
<1>5. CASE RequestStatsSilently
  <2>1. [command |-> "stats", by |-> "silent"] \in Order BY DEF Order, Command, Asker
  <2>2. writing' \in [Thread -> Order \cup {Nothing}] /\ clash' \in [Thread -> BOOLEAN]
    BY <1>5, <2>1, WritesTyped DEF RequestStatsSilently, Thread
  <2> QED BY <1>5, <2>2 DEF RequestStatsSilently, ReaderAt, TypeOK
<1>6. CASE Looked \/ Requested
  <2>1. ~Idle("reader") /\ EndWrite("reader") BY <1>6 DEF Looked, Requested, ReaderAt, Busy
  <2>2. inbox' \in Seq(Order) /\ writing' \in [Thread -> Order \cup {Nothing}]
        /\ clash' \in [Thread -> BOOLEAN]
    BY <2>1, EndsTyped DEF Thread
  <2> QED BY <1>6, <2>2 DEF Looked, Requested, ReaderAt, TypeOK
<1>7. CASE RequestFails
  <2>1. writing' \in [Thread -> Order \cup {Nothing}] BY <1>7 DEF RequestFails, TypeOK
  <2> QED BY <1>7, <2>1 DEF RequestFails, ReaderAt, TypeOK
<1>8. CASE Enqueue
  <2>1. next \in 1 .. Len(wire) /\ Len(wire) \in Nat
    BY <1>8, LenProperties DEF Enqueue, ReaderAt, Busy, TypeOK
  <2>2. wire[next] \in Line BY <2>1, ElementOfSeq DEF TypeOK
  <2>3. queue' \in Seq(Line) /\ reader' = "read"
    BY <1>8, <2>2, AppendProperties DEF Enqueue, ReaderAt, TypeOK
  <2> QED BY <1>8, <2>3 DEF Enqueue, ReaderAt, TypeOK
<1>9. CASE Dispatch
  <2>1. Head(queue) \in Line /\ queue' \in Seq(Line)
    BY <1>9, HeadTailProperties DEF Dispatch, TypeOK
  <2>2. SendMessageToChat(Head(queue)) BY <1>9 DEF Dispatch
  <2> QED BY <1>9, <2>1, <2>2, ChatTyped DEF Dispatch, TypeOK
<1>10. CASE \E i \in Inputs : Type(i)
  <2>1. PICK i \in Inputs : Type(i) BY <1>10
  <2>2. typed' \in 0 .. MaxInputs BY <2>1, BoundsAreNumbers DEF Type, TypeOK
  <2>3. CASE i = "blank"
    <3>1. SendMessageToChat(Echo(i)) /\ UNCHANGED <<writing, clash>> BY <2>1, <2>3 DEF Type
    <3> QED BY <2>1, <2>2, <3>1, EchoTyped, ChatTyped DEF Type, TypeOK
  <2>4. CASE i # "blank"
    <3>1. [command |-> i, by |-> "user"] \in Order BY <2>4 DEF Order, Command, Asker
    <3>2. BeginWrite("main", [command |-> i, by |-> "user"]) BY <2>1, <2>4 DEF Type
    <3>3. writing' \in [Thread -> Order \cup {Nothing}] /\ clash' \in [Thread -> BOOLEAN]
      BY <3>1, <3>2, WritesTyped DEF Thread
    <3> QED BY <2>1, <2>2, <2>4, <3>3 DEF Type, TypeOK
  <2> QED BY <2>3, <2>4
<1>11. CASE Typed
  <2>1. ~Idle("main") /\ EndWrite("main") BY <1>11 DEF Typed
  <2>2. inbox' \in Seq(Order) /\ writing' \in [Thread -> Order \cup {Nothing}]
        /\ clash' \in [Thread -> BOOLEAN]
    BY <2>1, EndsTyped DEF Thread
  <2>3. SendMessageToChat(Echo(writing["main"].command)) BY <1>11 DEF Typed
  <2> QED BY <1>11, <2>2, <2>3, EchoTyped, ChatTyped DEF Typed, TypeOK
<1>12. CASE TypeFails
  <2>1. writing' \in [Thread -> Order \cup {Nothing}] BY <1>12 DEF TypeFails, TypeOK
  <2> QED BY <1>12, <2>1 DEF TypeFails, TypeOK
<1>13. CASE UNCHANGED vars BY <1>13 DEF vars, TypeOK
<1> QED BY <1>1, <1>2, <1>3, <1>4, <1>5, <1>6, <1>7, <1>8, <1>9, <1>10, <1>11, <1>12, <1>13
        DEF Next, ReaderStep, Frame

\* Every reachable state of the client is typed, for any inputs and bounds.
THEOREM ClientTypeCorrect == Spec => [](TypeOK /\ Busy)
<1>1. Init => TypeOK /\ Busy BY InitTyped DEF Init, Busy
<1>2. TypeOK /\ Busy /\ [Next]_vars => (TypeOK /\ Busy)' BY StepTyped, StaysBusy
<1> QED BY <1>1, <1>2, PTL DEF Spec

-----------------------------------------------------------------------------
(* The log and the chat. *)

Hides(line) ==
  ~Throws(line) /\ (inSilentStatsBlock \/ (pendingSilentStats /\ Quotes(line)))

Shows(line) == ~Throws(line) /\ ~Hides(line)

LEMMA Fates ==
  ASSUME NEW line, SendMessageToChat(line)
  PROVE  /\ log' = Append(log, [line |-> line,
                                fate |-> IF Throws(line) THEN "lost"
                                         ELSE IF Hides(line) THEN "hidden" ELSE "shown"])
         /\ messageList' = IF Shows(line) THEN Append(Trimmed(messageList), line) ELSE messageList
         /\ Throws(line) => UNCHANGED <<pendingSilentStats, inSilentStatsBlock>>
         /\ ~Throws(line) =>
              /\ pendingSilentStats' = (pendingSilentStats /\ ~(pendingSilentStats /\ Quotes(line)))
              /\ inSilentStatsBlock' = (Hides(line) /\ ~EndsBlock(line))
BY DEF SendMessageToChat, ShowOrHide, Lose, Hides, Shows

LEMMA LogTyped ==
  ASSUME TypeOK, NEW n, n = Len(log)
  PROVE  /\ n \in Nat /\ DOMAIN log = 1 .. n
         /\ Received \in SUBSET (1 .. n) /\ Hidden \in SUBSET (1 .. n) /\ Shown \in SUBSET (1 .. n)
         /\ \A i \in 1 .. n : log[i].line \in Line
<1>1. n \in Nat /\ DOMAIN log = 1 .. n BY LenProperties DEF TypeOK
<1>2. \A i \in 1 .. n : log[i] \in Entry
  BY <1>1, ElementOfSeq DEF TypeOK
<1> QED BY <1>1, <1>2 DEF Received, Hidden, Shown, Entry

LEMMA Logged ==
  ASSUME TypeOK, NEW line \in Line, SendMessageToChat(line), NEW n, n = Len(log)
  PROVE  /\ DOMAIN log' = 1 .. n + 1 /\ \A i \in 1 .. n : log'[i] = log[i]
         /\ log'[n + 1].line = line
         /\ Received' = IF line.by # "echo" THEN Received \cup {n + 1} ELSE Received
         /\ Hidden' = IF Hides(line) THEN Hidden \cup {n + 1} ELSE Hidden
         /\ Shown' = IF Shows(line) THEN Shown \cup {n + 1} ELSE Shown
         /\ Lost' = IF Throws(line) THEN Lost \cup {n + 1} ELSE Lost
<1>1. n \in Nat /\ DOMAIN log = 1 .. n BY LogTyped
<1> DEFINE f == IF Throws(line) THEN "lost" ELSE IF Hides(line) THEN "hidden" ELSE "shown"
           e == [line |-> line, fate |-> f]
<1>2. log' = Append(log, e) BY Fates
<1>3. e \in Entry /\ e.line = line BY DEF Entry
<1>4. (e.fate = "hidden" <=> Hides(line)) /\ (e.fate = "shown" <=> Shows(line))
  BY DEF Shows, Hides
<1> HIDE DEF e, f
<1>5. /\ DOMAIN log' = 1 .. n + 1 /\ \A i \in 1 .. n : log'[i] = log[i]
      /\ log'[n + 1] = e
  <2>1. log' \in Seq(Entry) /\ Len(log') = n + 1
    BY <1>2, <1>3, AppendProperties DEF TypeOK
  <2> QED BY <1>1, <1>2, <1>3, <2>1, AppendProperties, LenProperties DEF TypeOK
<1>6. 1 .. n + 1 = (1 .. n) \cup {n + 1} /\ n + 1 \notin 1 .. n BY <1>1
<1>7. Received' = IF line.by # "echo" THEN Received \cup {n + 1} ELSE Received
  BY <1>1, <1>3, <1>5, <1>6 DEF Received
<1>8. Hidden' = IF Hides(line) THEN Hidden \cup {n + 1} ELSE Hidden
  BY <1>1, <1>4, <1>5, <1>6, Zenon DEF Hidden
<1>9. Shown' = IF Shows(line) THEN Shown \cup {n + 1} ELSE Shown
  BY <1>1, <1>4, <1>5, <1>6, Zenon DEF Shown
<1>10. n + 1 \notin Shown /\ n + 1 \notin Hidden BY <1>1, <1>6, LogTyped
<1>11. Lost' = IF Throws(line) THEN Lost \cup {n + 1} ELSE Lost
  BY <1>1, <1>5, <1>6, <1>8, <1>9, <1>10 DEF Shows, Hides, Lost
<1> QED BY <1>3, <1>5, <1>7, <1>8, <1>9, <1>11

LEMMA ChatKeepsTheEnd ==
  ASSUME TypeOK, HoldsTheEnd, NEW line \in Line, SendMessageToChat(line)
  PROVE  HoldsTheEnd'
<1> DEFINE n == Len(log)
           m == Len(messageList)
           h == Cardinality(Shown)
<1>1. /\ n \in Nat /\ Shown \in SUBSET (1 .. n) /\ h \in Nat /\ DOMAIN log = 1 .. n
      /\ \A i \in Shown : Rank(Shown, i) \in 1 .. h
  BY LogTyped, Ranks
<1>2. messageList \in Seq(Line) /\ m \in Nat /\ m <= MaxMessages BY LenProperties DEF TypeOK
<1>3. /\ h >= m /\ (h > m => m = MaxMessages)
      /\ \A i \in Shown : Rank(Shown, i) > h - m => messageList[Rank(Shown, i) - (h - m)] = log[i].line
  BY <1>1, <1>2 DEF HoldsTheEnd
<1>4. \A i \in 1 .. n : log'[i] = log[i] BY Logged
<1>5. log'[n + 1].line = line BY Logged
<1>6. CASE ~Shows(line)
  <2>1. Shown' = Shown BY <1>6, Logged
  <2>2. messageList' = messageList BY <1>6, Fates
  <2>3. \A i \in Shown : log'[i] = log[i] BY <1>1, <1>4
  <2>4. Cardinality(Shown)' = Cardinality(Shown) /\ \A i : Rank(Shown, i)' = Rank(Shown, i)
    BY <2>1 DEF Rank
  <2> QED BY <2>1, <2>2, <2>3, <2>4 DEF HoldsTheEnd
<1>7. CASE Shows(line)
  <2> DEFINE t == Trimmed(messageList)
             l == messageList'
             T == Shown \cup {n + 1}
  <2>1. Shown' = T BY <1>7, Logged
  <2>2. l = Append(t, line) BY <1>7, Fates
  <2>3. /\ Cardinality(T) = h + 1 /\ Rank(T, n + 1) = h + 1
        /\ \A i \in Shown : Rank(T, i) = Rank(Shown, i)
    BY <1>1, RanksGrow
  <2> DEFINE d == IF m >= MaxMessages THEN 1 ELSE 0
  <2>4. /\ t \in Seq(Line) /\ Len(t) = m - d /\ d \in {0, 1}
        /\ \A k \in 1 .. m - d : t[k] = messageList[k + d]
    <3>1. CASE m >= MaxMessages
      <4>1. messageList # <<>> /\ t = Tail(messageList) /\ d = 1
        BY <1>2, <3>1, ChatHoldsLines DEF Trimmed
      <4> HIDE DEF t, d
      <4> QED BY <1>2, <4>1, HeadTailProperties
    <3>2. CASE ~(m >= MaxMessages)
      <4>1. t = messageList /\ d = 0 BY <3>2 DEF Trimmed
      <4> HIDE DEF t, d
      <4> QED BY <1>2, <4>1
    <3> QED BY <3>1, <3>2
  <2>5. d = 1 => m = MaxMessages BY <1>2, ChatHoldsLines
  <2>6. h > m => d = 1 BY <1>2, <1>3
  <2> HIDE DEF t, d, l, T
  <2>7. /\ l \in Seq(Line) /\ Len(l) = m - d + 1 /\ l[m - d + 1] = line
        /\ \A k \in 1 .. m - d : l[k] = t[k]
    BY <2>2, <2>4, AppendProperties
  <2> DEFINE gone == (h + 1) - (m - d + 1)
  <2>8. gone = h - m + d /\ gone >= 0 BY <1>1, <1>2, <1>3, <2>4
  <2>9. gone > 0 => Len(l) = MaxMessages BY <1>1, <1>2, <2>4, <2>5, <2>6, <2>7, <1>3
  <2>10. ASSUME NEW i \in T, Rank(T, i) > gone PROVE l[Rank(T, i) - gone] = log'[i].line
    <3>1. CASE i = n + 1
      <4>1. Rank(T, i) - gone = m - d + 1 BY <1>1, <1>2, <2>3, <2>4, <3>1
      <4> QED BY <1>5, <2>7, <3>1, <4>1
    <3>2. CASE i # n + 1
      <4>1. i \in Shown BY <3>2 DEF T
      <4> DEFINE r == Rank(Shown, i)
      <4>2. r \in 1 .. h /\ Rank(T, i) = r /\ i \in 1 .. n BY <1>1, <2>3, <4>1
      <4> HIDE DEF r
      <4>3. r - gone \in 1 .. m - d /\ r - gone + d = r - (h - m) /\ r > h - m
        BY <1>1, <1>2, <2>4, <2>8, <2>10, <4>2
      <4>4. l[r - gone] = messageList[r - (h - m)] BY <2>4, <2>7, <4>3
      <4>5. messageList[r - (h - m)] = log[i].line BY <1>3, <4>1, <4>3 DEF r
      <4> QED BY <1>4, <4>2, <4>4, <4>5
    <3> QED BY <3>1, <3>2
  <2> QED BY <2>1, <2>3, <2>7, <2>8, <2>9, <2>10 DEF HoldsTheEnd, l
<1> QED BY <1>6, <1>7

LostAreNumbers == \A i \in Lost : log[i].line.kind = "number"

LEMMA ChatLosesNumbers ==
  ASSUME TypeOK, LostAreNumbers, NEW line \in Line, SendMessageToChat(line)
  PROVE  LostAreNumbers'
<1> DEFINE n == Len(log)
<1>1. /\ \A i \in 1 .. n : log'[i] = log[i]
      /\ log'[n + 1].line = line
      /\ Lost' = IF Throws(line) THEN Lost \cup {n + 1} ELSE Lost
  BY Logged
<1>2. Lost \in SUBSET (1 .. n) BY LogTyped DEF Lost
<1> HIDE DEF n
<1> QED BY <1>1, <1>2 DEF LostAreNumbers, Throws

ChatInv == HoldsTheEnd /\ LostAreNumbers

-----------------------------------------------------------------------------
(* The order of the lines. *)

\* The lines read are in the log, then in the queue, then with the reader.
InOrder ==
  LET logged == Cardinality(Received)
  IN /\ logged + Len(queue) + (IF reader = "read" THEN 0 ELSE 1) = next
     /\ \A i \in 1 .. Len(queue) : queue[i] = wire[logged + i]
     /\ \A i \in Received : log[i].line = wire[Rank(Received, i)]
     /\ \A k \in 1 .. logged : \E i \in Received : log[i].line = wire[k]
     /\ \A i \in 1 .. Len(wire) : wire[i].by # "echo"

\* The numbers InOrder speaks of.
LEMMA Places ==
  ASSUME TypeOK, InOrder
  PROVE  /\ Cardinality(Received) \in Nat /\ Len(queue) \in Nat /\ Len(wire) \in Nat
         /\ Cardinality(Received) + Len(queue) <= next
         /\ reader # "read" => Cardinality(Received) + Len(queue) = next - 1
         /\ reader = "read" => Cardinality(Received) + Len(queue) = next
         /\ next \in 0 .. Len(wire)
         /\ \A i \in Received : Rank(Received, i) \in 1 .. Cardinality(Received)
<1>1. Received \in SUBSET (1 .. Len(log)) /\ Len(log) \in Nat BY LogTyped
<1>2. Cardinality(Received) \in Nat
      /\ \A i \in Received : Rank(Received, i) \in 1 .. Cardinality(Received)
  BY <1>1, Ranks
<1>3. Len(queue) \in Nat /\ Len(wire) \in Nat BY LenProperties DEF TypeOK
<1> QED BY <1>2, <1>3 DEF InOrder, TypeOK

LEMMA WireKeepsOrder ==
  ASSUME TypeOK, InOrder, NEW lines, wire' = wire \o lines, FromServer(lines),
         UNCHANGED <<queue, log, next, reader>>
  PROVE  InOrder'
<1> DEFINE c == Cardinality(Received)
<1>1. Received' = Received /\ Cardinality(Received)' = c BY DEF Received
<1>2. \A i : Rank(Received, i)' = Rank(Received, i) BY <1>1 DEF Rank
<1>3. /\ c \in Nat /\ Len(queue) \in Nat /\ c + Len(queue) <= next /\ next \in 0 .. Len(wire)
      /\ \A i \in Received : Rank(Received, i) \in 1 .. c
  BY Places
<1>4. /\ Len(wire) \in Nat /\ Len(lines) \in Nat /\ Len(wire') = Len(wire) + Len(lines)
      /\ \A i \in 1 .. Len(wire) : wire'[i] = wire[i]
      /\ \A i \in Len(wire) + 1 .. Len(wire') : wire'[i] = lines[i - Len(wire)]
  BY WireGrows
<1>5. ASSUME NEW i \in 1 .. Len(wire') PROVE wire'[i].by # "echo"
  <2>1. CASE i \in 1 .. Len(wire) BY <1>4, <2>1 DEF InOrder
  <2>2. CASE i \notin 1 .. Len(wire)
    <3>1. i \in Len(wire) + 1 .. Len(wire') /\ i - Len(wire) \in 1 .. Len(lines) BY <1>4, <2>2
    <3> QED BY <1>4, <3>1 DEF FromServer
  <2> QED BY <2>1, <2>2
<1>6. \A i \in 1 .. Len(queue) : queue[i] = wire'[c + i]
  <2>1. \A i \in 1 .. Len(queue) : c + i \in 1 .. Len(wire) BY <1>3, <1>4
  <2> QED BY <1>4, <2>1 DEF InOrder
<1>7. \A i \in Received : log[i].line = wire'[Rank(Received, i)]
  <2>1. \A i \in Received : Rank(Received, i) \in 1 .. Len(wire) BY <1>3, <1>4
  <2> QED BY <1>4, <2>1 DEF InOrder
<1>8. \A k \in 1 .. c : \E i \in Received : log[i].line = wire'[k]
  <2>1. \A k \in 1 .. c : k \in 1 .. Len(wire) BY <1>3, <1>4
  <2> QED BY <1>4, <2>1 DEF InOrder
<1> QED BY <1>1, <1>2, <1>5, <1>6, <1>7, <1>8 DEF InOrder

LEMMA EchoKeepsOrder ==
  ASSUME TypeOK, InOrder, NEW line \in Line, line.by = "echo", SendMessageToChat(line),
         UNCHANGED <<queue, wire, next, reader>>
  PROVE  InOrder'
<1>1. Received' = Received BY Logged
<1>2. Cardinality(Received)' = Cardinality(Received) /\ \A i : Rank(Received, i)' = Rank(Received, i)
  BY <1>1 DEF Rank
<1>3. \A i \in Received : log'[i] = log[i] BY Logged, LogTyped
<1> QED BY <1>1, <1>2, <1>3 DEF InOrder

LEMMA DispatchKeepsOrder ==
  ASSUME TypeOK, InOrder, Dispatch
  PROVE  /\ InOrder' /\ Head(queue) \in Line /\ Head(queue).by # "echo"
         /\ Head(queue) = wire[Cardinality(Received) + 1]
         /\ Cardinality(Received)' = Cardinality(Received) + 1
<1> DEFINE c == Cardinality(Received)
           n == Len(log)
           line == Head(queue)
           T == Received \cup {n + 1}
           q == queue'
<1>1. /\ c \in Nat /\ Len(queue) \in Nat /\ Len(wire) \in Nat /\ c + Len(queue) <= next
      /\ next \in 0 .. Len(wire) /\ n \in Nat /\ Received \in SUBSET (1 .. n)
      /\ \A i \in Received : Rank(Received, i) \in 1 .. c
  BY Places, LogTyped
<1>2. queue # <<>> /\ q = Tail(queue) /\ SendMessageToChat(line) BY DEF Dispatch
<1>3. UNCHANGED <<wire, next, reader>> BY DEF Dispatch, server, readerState
<1>4. /\ line = queue[1] /\ line \in Line /\ Len(queue) # 0 /\ Len(q) = Len(queue) - 1
      /\ \A i \in 1 .. Len(queue) - 1 : q[i] = queue[i + 1]
  <2>1. queue \in Seq(Line) /\ Len(queue) # 0 BY <1>1, <1>2, EmptySeq DEF TypeOK
  <2> QED BY <1>1, <1>2, <2>1, HeadTailProperties, ElementOfSeq
<1>5. line = wire[c + 1] /\ line.by # "echo"
  <2>1. 1 \in 1 .. Len(queue) /\ c + 1 \in 1 .. Len(wire) BY <1>1, <1>4
  <2> QED BY <1>4, <2>1 DEF InOrder
<1>6. /\ Received' = T /\ log'[n + 1].line = line /\ \A i \in 1 .. n : log'[i] = log[i]
  BY <1>2, <1>4, <1>5, Logged
<1>7. Cardinality(T) = c + 1 /\ Rank(T, n + 1) = c + 1
      /\ \A i \in Received : Rank(T, i) = Rank(Received, i)
  BY <1>1, RanksGrow
<1> HIDE DEF c, n, line, T, q
<1>8. (c + 1) + Len(q) + (IF reader = "read" THEN 0 ELSE 1) = next BY <1>1, <1>4 DEF InOrder, c
<1>9. \A i \in 1 .. Len(q) : q[i] = wire[(c + 1) + i]
  <2> SUFFICES ASSUME NEW i \in 1 .. Len(q) PROVE q[i] = wire[(c + 1) + i] OBVIOUS
  <2>1. i \in 1 .. Len(queue) - 1 /\ i + 1 \in 1 .. Len(queue) /\ c + (i + 1) = (c + 1) + i
    BY <1>1, <1>4
  <2>2. queue[i + 1] = wire[c + (i + 1)] BY <2>1 DEF InOrder, c
  <2> QED BY <1>4, <2>1, <2>2
<1>10. \A i \in T : log'[i].line = wire[Rank(T, i)]
  <2>1. \A i \in Received : log'[i].line = wire[Rank(T, i)] BY <1>1, <1>6, <1>7 DEF InOrder
  <2> QED BY <1>5, <1>6, <1>7, <2>1 DEF T
<1>11. \A k \in 1 .. c + 1 : \E i \in T : log'[i].line = wire[k]
  <2> SUFFICES ASSUME NEW k \in 1 .. c + 1 PROVE \E i \in T : log'[i].line = wire[k] OBVIOUS
  <2>1. CASE k = c + 1 BY <1>5, <1>6, <2>1 DEF T
  <2>2. CASE k # c + 1
    <3>1. k \in 1 .. c BY <1>1, <2>2
    <3>2. PICK i \in Received : log[i].line = wire[k] BY <3>1 DEF InOrder, c
    <3> QED BY <1>1, <1>6, <3>2 DEF T
  <2> QED BY <2>1, <2>2
<1>12. \A i \in 1 .. Len(wire) : wire[i].by # "echo" BY DEF InOrder
<1>13. Cardinality(Received)' = c + 1 BY <1>6, <1>7
<1>14. \A i : Rank(Received, i)' = Rank(T, i) BY <1>6 DEF Rank
<1>15. InOrder'
  BY <1>3, <1>6, <1>8, <1>9, <1>10, <1>11, <1>12, <1>13, <1>14 DEF InOrder, q
<1> QED BY <1>4, <1>5, <1>13, <1>15 DEF line, c

LEMMA StepInOrder == TypeOK /\ Busy /\ InOrder /\ [Next]_vars => InOrder'
<1> SUFFICES ASSUME TypeOK, Busy, InOrder, [Next]_vars PROVE InOrder' OBVIOUS
<1> USE DEF server, readerState, screen
<1>1. CASE Handle \/ OthersActive
  <2>1. UNCHANGED <<queue, log, next, reader>> BY <1>1 DEF Handle, OthersActive
  <2> QED BY <1>1, <2>1, Sends, WireKeepsOrder
<1>2. CASE UNCHANGED <<queue, log, next, wire>> /\ (reader = "read" <=> reader' = "read")
  <2>1. UNCHANGED Received BY <1>2 DEF Received
  <2>2. \A i : Rank(Received, i)' = Rank(Received, i) BY <2>1 DEF Rank
  <2> QED BY <1>2, <2>1, <2>2 DEF InOrder
<1>3. CASE UNCHANGED <<log, wire>> /\ (Read \/ Enqueue)
  <2> DEFINE c == Cardinality(Received)
             q == queue'
             line == wire[next']
  <2>1. UNCHANGED Received /\ Cardinality(Received)' = c BY <1>3 DEF Received
  <2>2. \A i : Rank(Received, i)' = Rank(Received, i) BY <2>1 DEF Rank
  <2>3. /\ c \in Nat /\ Len(queue) \in Nat /\ Len(wire) \in Nat /\ next \in 0 .. Len(wire)
        /\ reader # "read" => c + Len(queue) = next - 1
        /\ reader = "read" => c + Len(queue) = next
    BY Places
  <2>4. next' \in 1 .. Len(wire)
    BY <1>3, <2>3 DEF Read, ReadLine, Enqueue, ReaderAt, Busy
  <2>5. line \in Line BY <2>4, ElementOfSeq DEF TypeOK
  <2>6. \/ reader' # "read" /\ q = queue /\ c + Len(queue) = next' - 1
        \/ reader' = "read" /\ q = Append(queue, line) /\ c + Len(queue) = next' - 1
    BY <1>3, <2>3 DEF Read, ReadLine, Enqueue, ReaderAt
  <2> HIDE DEF c, q, line
  <2>7. /\ c + Len(q) + (IF reader' = "read" THEN 0 ELSE 1) = next'
        /\ \A i \in 1 .. Len(q) : q[i] = wire[c + i]
    <3>1. CASE q = queue /\ reader' # "read" /\ c + Len(queue) = next' - 1
      BY <2>3, <2>4, <3>1 DEF InOrder, c
    <3>2. CASE q = Append(queue, line) /\ reader' = "read" /\ c + Len(queue) = next' - 1
      <4>1. /\ Len(q) = Len(queue) + 1 /\ q[Len(queue) + 1] = line
            /\ \A i \in 1 .. Len(queue) : q[i] = queue[i]
        BY <2>5, <3>2, AppendProperties DEF TypeOK
      <4>2. c + (Len(queue) + 1) = next' BY <2>3, <2>4, <3>2
      <4>3. \A i \in 1 .. Len(queue) : q[i] = wire[c + i] BY <4>1 DEF InOrder, c
      <4>4. q[Len(queue) + 1] = wire[c + (Len(queue) + 1)] BY <4>1, <4>2 DEF line
      <4>5. \A i \in 1 .. Len(q) : i \in 1 .. Len(queue) \/ i = Len(queue) + 1 BY <2>3, <4>1
      <4> QED BY <2>3, <3>2, <4>1, <4>2, <4>3, <4>4, <4>5
    <3> QED BY <2>6, <3>1, <3>2
  <2> QED BY <1>3, <2>1, <2>2, <2>7 DEF InOrder, c, q
<1>4. CASE Dispatch BY <1>4, DispatchKeepsOrder
<1>5. CASE Typed
  <2>1. SendMessageToChat(Echo(writing["main"].command)) /\ UNCHANGED <<queue, wire, next, reader>>
    BY <1>5 DEF Typed
  <2> QED BY <2>1, EchoTyped, EchoKeepsOrder
<1>6. ASSUME NEW i \in Inputs, Type(i) PROVE InOrder'
  <2>1. CASE i = "blank"
    <3>1. SendMessageToChat(Echo(i)) /\ UNCHANGED <<queue, wire, next, reader>>
      BY <1>6, <2>1 DEF Type
    <3> QED BY <3>1, EchoTyped, EchoKeepsOrder
  <2>2. CASE i # "blank"
    <3>1. UNCHANGED <<queue, log, next, wire, reader>> BY <1>6, <2>2 DEF Type
    <3> QED BY <1>2, <3>1
  <2> QED BY <2>1, <2>2
<1>7. Read \/ Enqueue => UNCHANGED <<log, wire>> BY DEF Read, Enqueue, ReaderAt
<1>8. Look \/ Looked \/ RequestStatsSilently \/ Requested \/ RequestFails \/ TypeFails
        \/ UNCHANGED vars
      => UNCHANGED <<queue, log, next, wire>> /\ (reader = "read" <=> reader' = "read")
  BY DEF Look, Looked, RequestStatsSilently, Requested, RequestFails, TypeFails, ReaderAt, vars
<1> QED BY <1>1, <1>2, <1>3, <1>4, <1>5, <1>6, <1>7, <1>8 DEF Next, ReaderStep, Frame

LEMMA StepChat == TypeOK /\ ChatInv /\ InOrder /\ [Next]_vars => ChatInv'
<1> SUFFICES ASSUME TypeOK, ChatInv, InOrder, [Next]_vars PROVE ChatInv' OBVIOUS
<1>1. CASE UNCHANGED <<log, messageList>>
  <2>1. UNCHANGED <<Shown, Lost>> BY <1>1 DEF Shown, Hidden, Lost
  <2>2. \A i : Rank(Shown, i)' = Rank(Shown, i) BY <2>1 DEF Rank
  <2> QED BY <1>1, <2>1, <2>2 DEF ChatInv, HoldsTheEnd, LostAreNumbers
<1>2. CASE \E line \in Line : SendMessageToChat(line) BY <1>2, ChatKeepsTheEnd, ChatLosesNumbers DEF ChatInv
<1>3. CASE Dispatch
  <2>1. SendMessageToChat(Head(queue)) BY <1>3 DEF Dispatch
  <2> QED BY <1>2, <1>3, <2>1, DispatchKeepsOrder
<1>4. CASE Typed
  <2>1. SendMessageToChat(Echo(writing["main"].command)) BY <1>4 DEF Typed
  <2> QED BY <1>2, <2>1, EchoTyped
<1>5. ASSUME NEW i \in Inputs, Type(i) PROVE ChatInv'
  <2>1. CASE i = "blank"
    <3>1. SendMessageToChat(Echo(i)) BY <1>5, <2>1 DEF Type
    <3> QED BY <1>2, <3>1, EchoTyped
  <2>2. CASE i # "blank" BY <1>1, <1>5, <2>2 DEF Type, screen
  <2> QED BY <2>1, <2>2
<1>6. Handle \/ OthersActive \/ ReaderStep \/ TypeFails \/ UNCHANGED vars
      => UNCHANGED <<log, messageList>>
  BY DEF Handle, OthersActive, ReaderStep, Read, Look, Looked, RequestStatsSilently, Requested,
         RequestFails, Enqueue, ReaderAt, TypeFails, vars, screen
<1> QED BY <1>1, <1>3, <1>4, <1>5, <1>6 DEF Next, Frame

LEMMA InitInOrder == Init => InOrder /\ ChatInv
<1> SUFFICES ASSUME Init PROVE InOrder /\ ChatInv OBVIOUS
<1>1. Received = {} /\ Shown = {} /\ Lost = {} BY DEF Init, Received, Shown, Hidden, Lost
<1>2. Cardinality({}) = 0 BY FS_EmptySet
<1>3. Len(<<>>) = 0 OBVIOUS
<1>4. \A i \in 1 .. Len(wire) : wire[i].by # "echo"
  <2>1. CASE known
    <3> DEFINE k == <<"recovered">>
    <3>1. k \in Seq(Kind) /\ Len(k) = 1 BY DEF Kind
    <3>2. wire = Lines(k, Nobody) BY <2>1 DEF Init
    <3> HIDE DEF k
    <3>3. Nobody # "echo" BY DEF Nobody
    <3> QED BY <3>1, <3>2, <3>3, LinesTyped
  <2>2. CASE ~known BY <2>2, <1>3 DEF Init
  <2> QED BY <2>1, <2>2
<1>5. InOrder
  <2> DEFINE c == Cardinality(Received)
  <2>1. c = 0 /\ Len(queue) = 0 /\ next = 0 /\ reader = "read" BY <1>1, <1>2, <1>3 DEF Init
  <2> HIDE DEF c
  <2> QED BY <1>1, <1>4, <2>1 DEF InOrder, c
<1>6. HoldsTheEnd
  <2> DEFINE h == Cardinality(Shown)
  <2>1. h = 0 /\ Len(messageList) = 0 BY <1>1, <1>2, <1>3 DEF Init
  <2> HIDE DEF h
  <2> QED BY <1>1, <2>1 DEF HoldsTheEnd, h
<1> QED BY <1>1, <1>5, <1>6 DEF ChatInv, LostAreNumbers

LEMMA OrderLosesNumbers == TypeOK /\ InOrder /\ ChatInv => OnlyNumbersAreLost
<1> SUFFICES ASSUME TypeOK, InOrder, ChatInv PROVE OnlyNumbersAreLost OBVIOUS
<1> USE DEF ChatInv, LostAreNumbers
<1> DEFINE c == Cardinality(Received)
           a == queue \o Held
<1>1. /\ c \in Nat /\ Len(queue) \in Nat /\ Len(wire) \in Nat /\ next \in 0 .. Len(wire)
      /\ reader # "read" => c + Len(queue) = next - 1
      /\ reader = "read" => c + Len(queue) = next
  BY Places
<1>2. CASE reader = "read"
  <2>1. a = queue
    <3>1. Held = <<>> /\ queue \in Seq(Line) BY <1>2 DEF Held, TypeOK
    <3> QED BY <3>1, ConcatEmptySeq
  <2>2. DOMAIN a = 1 .. Len(queue) BY <2>1, LenProperties DEF TypeOK
  <2> HIDE DEF a
  <2> QED BY <1>1, <1>2, <2>1, <2>2 DEF OnlyNumbersAreLost, InOrder, a
<1>3. CASE reader # "read"
  <2> DEFINE h == <<wire[next]>>
  <2>1. next \in 1 .. Len(wire) BY <1>1, <1>3
  <2>2. wire[next] \in Line BY <2>1, ElementOfSeq DEF TypeOK
  <2>3. h \in Seq(Line) /\ Len(h) = 1 /\ h[1] = wire[next] BY <2>2
  <2>4. a = queue \o h BY <1>3 DEF Held
  <2> HIDE DEF h, a
  <2>5. /\ a \in Seq(Line) /\ Len(a) = Len(queue) + 1
        /\ \A i \in 1 .. Len(queue) : a[i] = queue[i]
        /\ a[Len(queue) + 1] = wire[next]
    <3>1. queue \in Seq(Line) BY DEF TypeOK
    <3>2. /\ a \in Seq(Line) /\ Len(a) = Len(queue) + Len(h)
          /\ \A i \in 1 .. Len(queue) + Len(h) :
               a[i] = IF i <= Len(queue) THEN queue[i] ELSE h[i - Len(queue)]
      BY <2>3, <2>4, <3>1, ConcatProperties
    <3> QED BY <1>1, <2>3, <3>2
  <2>6. DOMAIN a = 1 .. Len(queue) + 1 BY <2>5, LenProperties
  <2>7. \A i \in DOMAIN a : a[i] = wire[c + i]
    <3> SUFFICES ASSUME NEW i \in 1 .. Len(queue) + 1 PROVE a[i] = wire[c + i] BY <2>6
    <3>1. CASE i = Len(queue) + 1
      <4>1. c + i = next BY <1>1, <1>3, <3>1
      <4> QED BY <2>5, <3>1, <4>1
    <3>2. CASE i # Len(queue) + 1
      <4>1. i \in 1 .. Len(queue) BY <1>1, <3>2
      <4> QED BY <2>5, <4>1 DEF InOrder
    <3> QED BY <3>1, <3>2
  <2>8. c + Len(a) = next BY <1>1, <1>3, <2>5
  <2> QED BY <2>7, <2>8 DEF OnlyNumbersAreLost, InOrder, a
<1> QED BY <1>2, <1>3

OrderInv == TypeOK /\ Busy /\ InOrder /\ ChatInv

LEMMA OrderIsKept == Spec => []OrderInv
<1>1. Init => OrderInv BY InitTyped, InitInOrder DEF Init, Busy, OrderInv
<1>2. OrderInv /\ [Next]_vars => OrderInv'
  BY StepTyped, StaysBusy, StepInOrder, StepChat DEF OrderInv
<1> QED BY <1>1, <1>2, PTL DEF Spec

\* Every line the reader has read is handed to the chat once and in order, none
\* overtaken on the way; one that is neither shown nor hidden has a number the
\* client cannot read, and the chat holds the end of what was shown.
THEOREM NoOtherLineIsLost == Spec => []OnlyNumbersAreLost
<1>1. OrderInv => OnlyNumbersAreLost BY OrderLosesNumbers DEF OrderInv
<1> QED BY <1>1, OrderIsKept, PTL

-----------------------------------------------------------------------------
(* The silent request is made once, and begins the one stretch that is hidden. *)

ToRequest == ~initialInfoRequested \/ reader \in {"look", "looking", "request"}

OneRequest ==
  /\ reader # "read" => initialInfoRequested
  /\ reader = "request" => canAutoRequestStats
  /\ ToRequest => ~pendingSilentStats /\ Hidden = {}
  /\ pendingSilentStats => Hidden = {}
  /\ pendingSilentStats \/ Hidden # {} => canAutoRequestStats
  /\ inSilentStatsBlock => Hidden # {} /\ \A i \in Hidden, k \in Shown : ~(i < k)
  /\ \A i, j \in Hidden, k \in Shown : ~(i < k /\ k < j)

\* A line is hidden because one before it was, or because it answers the request.
LEMMA ChatKeepsOneRequest ==
  ASSUME TypeOK, OneRequest, NEW line \in Line, SendMessageToChat(line),
         UNCHANGED <<canAutoRequestStats, initialInfoRequested, reader>>
  PROVE  OneRequest'
<1> DEFINE n == Len(log)
           H == Hidden
           G == Hidden'
           S == Shown
           T == Shown'
<1>1. n \in Nat /\ H \in SUBSET (1 .. n) /\ S \in SUBSET (1 .. n) BY LogTyped
<1>2. Throws(line) => UNCHANGED <<pendingSilentStats, inSilentStatsBlock>> BY Fates
<1>3. pendingSilentStats' => pendingSilentStats /\ (Throws(line) \/ ~Quotes(line)) BY Fates
<1>4. inSilentStatsBlock' => Hides(line) \/ (Throws(line) /\ inSilentStatsBlock) BY Fates
<1>5. G = IF Hides(line) THEN H \cup {n + 1} ELSE H BY Logged
<1>6. T = IF Shows(line) THEN S \cup {n + 1} ELSE S BY Logged
<1>7. /\ pendingSilentStats => H = {}
      /\ inSilentStatsBlock => H # {} /\ \A i \in H, k \in S : ~(i < k)
      /\ ToRequest => ~pendingSilentStats /\ H = {}
      /\ pendingSilentStats \/ H # {} => canAutoRequestStats
      /\ \A i, j \in H, k \in S : ~(i < k /\ k < j)
  BY DEF OneRequest
<1>8. Hides(line) => ~Throws(line) /\ (inSilentStatsBlock \/ (pendingSilentStats /\ Quotes(line)))
  BY DEF Hides
<1>9. Shows(line) => ~Throws(line) /\ ~Hides(line) BY DEF Shows
<1>10. ToRequest' = ToRequest BY DEF ToRequest
<1> HIDE DEF n, H, G, S, T
<1>11. ToRequest => ~pendingSilentStats' /\ G = {} BY <1>3, <1>5, <1>7, <1>8
<1>12. pendingSilentStats' => G = {} BY <1>3, <1>5, <1>7, <1>8
<1>13. pendingSilentStats' \/ G # {} => canAutoRequestStats BY <1>3, <1>5, <1>7, <1>8
<1>14. CASE Hides(line)
  <2>1. G = H \cup {n + 1} /\ T = S BY <1>5, <1>6, <1>9, <1>14
  <2>2. \A i \in H, k \in S : ~(i < k) BY <1>7, <1>8, <1>14
  <2>3. \A i \in G, k \in T : ~(i < k) BY <1>1, <2>1, <2>2
  <2>4. \A i, j \in G, k \in T : ~(i < k /\ k < j) BY <2>3
  <2>5. G # {} BY <2>1
  <2> QED BY <1>10, <1>11, <1>12, <1>13, <2>3, <2>4, <2>5 DEF OneRequest, G, T
<1>15. CASE ~Hides(line)
  <2>1. G = H BY <1>5, <1>15
  <2>2. inSilentStatsBlock' => inSilentStatsBlock /\ T = S BY <1>4, <1>6, <1>9, <1>15
  <2>3. inSilentStatsBlock' => G # {} /\ \A i \in G, k \in T : ~(i < k) BY <1>7, <2>1, <2>2
  <2>4. \A i, j \in G, k \in T : ~(i < k /\ k < j)
    <3>1. \A j \in G : ~(n + 1 < j) BY <1>1, <2>1
    <3> QED BY <1>6, <1>7, <2>1, <3>1
  <2> QED BY <1>10, <1>11, <1>12, <1>13, <2>3, <2>4 DEF OneRequest, G, T
<1> QED BY <1>14, <1>15

LEMMA StepOneRequest == TypeOK /\ InOrder /\ OneRequest /\ [Next]_vars => OneRequest'
<1> SUFFICES ASSUME TypeOK, InOrder, OneRequest, [Next]_vars PROVE OneRequest' OBVIOUS
<1> USE DEF server, readerState, screen
<1>1. UNCHANGED <<log, inSilentStatsBlock>> => UNCHANGED <<Hidden, Shown>>
  BY DEF Hidden, Shown
<1>2. CASE UNCHANGED <<log, inSilentStatsBlock, pendingSilentStats, canAutoRequestStats,
                       initialInfoRequested, reader>>
  BY <1>1, <1>2 DEF OneRequest, ToRequest
<1>3. CASE Read
  <2>1. /\ ~initialInfoRequested \/ UNCHANGED <<initialInfoRequested, reader>>
        /\ reader' # "read" => initialInfoRequested'
        /\ reader' # "request" /\ (canAutoRequestStats => canAutoRequestStats')
        /\ UNCHANGED <<pendingSilentStats, log, inSilentStatsBlock>>
    BY <1>3 DEF Read, ReadLine
  <2>2. ToRequest' => ToRequest BY <2>1 DEF ToRequest
  <2> QED BY <1>1, <2>1, <2>2 DEF OneRequest
<1>4. CASE Look \/ Looked \/ Requested \/ RequestFails \/ Enqueue
  <2>1. /\ UNCHANGED <<initialInfoRequested, canAutoRequestStats, pendingSilentStats, log,
                       inSilentStatsBlock>>
        /\ reader # "read" /\ (reader' = "request" => canAutoRequestStats)
    BY <1>4 DEF Look, Looked, Requested, RequestFails, Enqueue, ReaderAt
  <2>2. ToRequest' => ToRequest
    BY <1>4 DEF Look, Looked, Requested, RequestFails, Enqueue, ReaderAt, ToRequest
  <2> QED BY <1>1, <2>1, <2>2 DEF OneRequest
<1>5. CASE RequestStatsSilently
  <2>1. /\ reader = "request" /\ reader' = "asking"
        /\ UNCHANGED <<initialInfoRequested, canAutoRequestStats, log, inSilentStatsBlock>>
    BY <1>5 DEF RequestStatsSilently, ReaderAt
  <2>2. ToRequest /\ initialInfoRequested BY <2>1 DEF ToRequest, OneRequest
  <2>3. ~ToRequest' BY <2>1, <2>2 DEF ToRequest
  <2> QED BY <1>1, <2>1, <2>2, <2>3 DEF OneRequest
<1>6. CASE Dispatch
  <2>1. SendMessageToChat(Head(queue)) /\ Head(queue) \in Line BY <1>6, DispatchKeepsOrder DEF Dispatch
  <2>2. UNCHANGED <<canAutoRequestStats, initialInfoRequested, reader>> BY <1>6 DEF Dispatch
  <2> QED BY <2>1, <2>2, ChatKeepsOneRequest
<1>7. CASE Typed
  <2>1. SendMessageToChat(Echo(writing["main"].command)) BY <1>7 DEF Typed
  <2>2. UNCHANGED <<canAutoRequestStats, initialInfoRequested, reader>> BY <1>7 DEF Typed
  <2> QED BY <2>1, <2>2, EchoTyped, ChatKeepsOneRequest
<1>8. ASSUME NEW i \in Inputs, Type(i) PROVE OneRequest'
  <2>1. UNCHANGED <<canAutoRequestStats, initialInfoRequested, reader>> BY <1>8 DEF Type
  <2>2. CASE i = "blank"
    <3>1. SendMessageToChat(Echo(i)) BY <1>8, <2>2 DEF Type
    <3> QED BY <2>1, <3>1, EchoTyped, ChatKeepsOneRequest
  <2>3. CASE i # "blank" BY <1>2, <1>8, <2>1, <2>3 DEF Type
  <2> QED BY <2>2, <2>3
<1>9. Handle \/ OthersActive \/ TypeFails \/ UNCHANGED vars
      => UNCHANGED <<log, inSilentStatsBlock, pendingSilentStats, canAutoRequestStats,
                     initialInfoRequested, reader>>
  BY DEF Handle, OthersActive, TypeFails, vars
<1> QED BY <1>2, <1>3, <1>4, <1>5, <1>6, <1>7, <1>8, <1>9 DEF Next, ReaderStep, Frame

LEMMA InitOneRequest == Init => OneRequest
<1> SUFFICES ASSUME Init PROVE OneRequest OBVIOUS
<1>1. Hidden = {} BY DEF Init, Hidden
<1> QED BY <1>1 DEF Init, OneRequest, ToRequest

LEMMA OneStretch == OneRequest => HidesOneStretch
BY DEF OneRequest, HidesOneStretch

RequestInv == OrderInv /\ OneRequest

LEMMA RequestIsKept == Spec => []RequestInv
<1>1. Init => RequestInv
  BY InitTyped, InitInOrder, InitOneRequest DEF Init, Busy, OrderInv, RequestInv
<1>2. RequestInv /\ [Next]_vars => RequestInv'
  BY StepTyped, StaysBusy, StepInOrder, StepChat, StepOneRequest DEF OrderInv, RequestInv
<1> QED BY <1>1, <1>2, PTL DEF Spec

\* The chat hides at most one stretch of lines, and only for an account that
\* was recovered, whatever others and the user do meanwhile.
THEOREM OneStretchIsHidden == Spec => []HidesOneStretch
<1>1. RequestInv => HidesOneStretch BY OneStretch DEF RequestInv
<1> QED BY <1>1, RequestIsKept, PTL

-----------------------------------------------------------------------------
(* The answer to the silent request. *)

Orders == {inbox[i] : i \in 1 .. Len(inbox)} \cup {writing[t] : t \in Thread}

\* Who asks silently asks for statistics, or was garbled.
SilentOrders == \A o \in Orders : o.by = "silent" => o.command \in {"stats", "noise"}

AnswersInWire ==
  \A k \in 1 .. Len(wire) : wire[k].by = "silent" =>
    /\ wire[k].kind \in SilentKind
    /\ wire[k].kind = "body" =>
         k - 1 \in 1 .. Len(wire) /\ wire[k - 1].by = "silent" /\ wire[k - 1].kind \in {"header", "bare"}
    /\ wire[k].kind = "footer" =>
         k - 1 \in 1 .. Len(wire) /\ wire[k - 1].by = "silent" /\ wire[k - 1].kind = "body"

Asked ==
  \/ \E o \in Orders : o.by = "silent"
  \/ \E k \in 1 .. Len(wire) : wire[k].by = "silent"

LEMMA Arrives ==
  ASSUME TypeOK, NEW t \in Thread, ~Idle(t), EndWrite(t), NEW o \in Orders', o.by = "silent"
  PROVE  \E p \in Orders : p.by = "silent" /\ o.command \in {p.command, "noise"}
<1> DEFINE v == writing[t]
           z == [v EXCEPT !.command = "noise"]
<1>1. v \in Order BY EndsTyped
<1>2. z \in Order /\ z.by = v.by /\ z.command = "noise" BY <1>1 DEF Order, Command
<1>3. PICK w : inbox' = inbox \o w /\ w \in {<<>>, <<v>>, <<v, v>>, <<z>>} BY DEF EndWrite
<1>4. v \in Orders BY DEF Orders
<1> HIDE DEF v, z
<1>5. w \in Seq(Order) /\ \A i \in 1 .. Len(w) : w[i] \in {v, z}
  <2>1. w = <<>> \/ w = <<v>> \/ w = <<v, v>> \/ w = <<z>> BY <1>3
  <2>2. w \in Seq(Order)
    <3>1. <<>> \in Seq(Order) /\ <<v>> \in Seq(Order) /\ <<v, v>> \in Seq(Order) /\ <<z>> \in Seq(Order)
      BY <1>1, <1>2
    <3> QED BY <2>1, <3>1
  <2>3. CASE w = <<>>
    <3>1. Len(w) = 0 BY <2>3
    <3> QED BY <2>2, <3>1
  <2>4. CASE w = <<v>> \/ w = <<z>>
    <3>1. Len(w) = 1 /\ w[1] \in {v, z} BY <2>4
    <3> QED BY <2>2, <3>1
  <2>5. CASE w = <<v, v>>
    <3>1. Len(w) = 2 /\ w[1] = v /\ w[2] = v BY <2>5
    <3> QED BY <2>2, <3>1
  <2> QED BY <2>1, <2>3, <2>4, <2>5
<1>6. inbox \in Seq(Order) /\ Len(inbox) \in Nat /\ Len(w) \in Nat BY <1>5, LenProperties DEF TypeOK
<1>7. CASE \E i \in 1 .. Len(inbox') : o = inbox'[i]
  <2>1. PICK i \in 1 .. Len(inbox') : o = inbox'[i] BY <1>7
  <2>2. /\ Len(inbox') = Len(inbox) + Len(w)
        /\ inbox'[i] = IF i <= Len(inbox) THEN inbox[i] ELSE w[i - Len(inbox)]
    BY <1>3, <1>5, <1>6, <2>1, ConcatProperties
  <2>3. CASE i <= Len(inbox)
    <3>1. o \in Orders BY <1>6, <2>1, <2>2, <2>3 DEF Orders
    <3> QED BY <3>1
  <2>4. CASE ~(i <= Len(inbox))
    <3>1. i - Len(inbox) \in 1 .. Len(w) BY <1>6, <2>1, <2>2, <2>4
    <3>2. o \in {v, z} BY <1>5, <2>1, <2>2, <2>4, <3>1
    <3> QED BY <1>2, <1>4, <3>2
  <2> QED BY <2>3, <2>4
<1>8. CASE \E u \in Thread : o = writing'[u]
  <2>1. PICK u \in Thread : o = writing'[u] BY <1>8
  <2>2. writing' = [writing EXCEPT ![t] = Nothing] BY DEF EndWrite
  <2>3. u # t
    <3>1. Nothing.by # "silent" BY DEF Nothing, Nobody
    <3> QED BY <2>1, <2>2, <3>1 DEF TypeOK
  <2>4. o = writing[u] BY <2>1, <2>2, <2>3 DEF TypeOK
  <2>5. o \in Orders BY <2>4 DEF Orders
  <2> QED BY <2>5
<1> QED BY <1>7, <1>8 DEF Orders

LEMMA StepOrders ==
  ASSUME TypeOK, Busy, [Next]_vars, NEW o \in Orders', o.by = "silent"
  PROVE  \/ \E p \in Orders : p.by = "silent" /\ o.command \in {p.command, "noise"}
         \/ RequestStatsSilently /\ o.command = "stats"
<1> USE DEF server, readerState, screen
<1>1. UNCHANGED <<inbox, writing>> => o \in Orders BY DEF Orders
<1>2. CASE Handle
  <2>1. inbox \in Seq(Order) /\ inbox # <<>> /\ inbox' = Tail(inbox) /\ writing' = writing
    BY <1>2 DEF Handle, TypeOK
  <2>2. /\ Len(inbox) \in Nat /\ Len(inbox') = Len(inbox) - 1
        /\ \A i \in 1 .. Len(inbox) - 1 : inbox'[i] = inbox[i + 1]
    BY <2>1, EmptySeq, LenProperties, HeadTailProperties
  <2>3. \A i \in 1 .. Len(inbox') : inbox'[i] \in Orders
    <3> SUFFICES ASSUME NEW i \in 1 .. Len(inbox') PROVE inbox'[i] \in Orders OBVIOUS
    <3>1. i + 1 \in 1 .. Len(inbox) /\ inbox'[i] = inbox[i + 1] BY <2>2
    <3> QED BY <3>1 DEF Orders
  <2>4. o \in Orders BY <2>1, <2>3 DEF Orders
  <2> QED BY <2>4
<1>3. ASSUME NEW t \in Thread, NEW order \in Order, BeginWrite(t, order), UNCHANGED inbox
      PROVE  o \in Orders \/ o = order
  BY <1>3 DEF BeginWrite, Orders, TypeOK
<1>4. CASE Look
  <2>1. [command |-> "look", by |-> "client"] \in Order BY DEF Order, Command, Asker
  <2>2. o \in Orders \/ o = [command |-> "look", by |-> "client"]
    BY <1>3, <1>4, <2>1 DEF Look, Thread
  <2> QED BY <2>2
<1>5. CASE RequestStatsSilently
  <2>1. [command |-> "stats", by |-> "silent"] \in Order BY DEF Order, Command, Asker
  <2>2. o \in Orders \/ o = [command |-> "stats", by |-> "silent"]
    BY <1>3, <1>5, <2>1 DEF RequestStatsSilently, Thread
  <2> QED BY <1>5, <2>2
<1>6. CASE Looked \/ Requested
  <2>1. ~Idle("reader") /\ EndWrite("reader") BY <1>6 DEF Looked, Requested, ReaderAt, Busy
  <2> QED BY <2>1, Arrives DEF Thread
<1>7. CASE RequestFails \/ TypeFails
  <2>1. Nothing.by # "silent" BY DEF Nothing, Nobody
  <2>2. UNCHANGED inbox /\ \E t \in Thread : writing' = [writing EXCEPT ![t] = Nothing]
    BY <1>7 DEF RequestFails, TypeFails, Thread
  <2>3. o \in Orders BY <2>1, <2>2 DEF Orders, TypeOK
  <2> QED BY <2>3
<1>8. CASE Typed
  <2>1. ~Idle("main") /\ EndWrite("main") BY <1>8 DEF Typed
  <2> QED BY <2>1, Arrives DEF Thread
<1>9. ASSUME NEW i \in Inputs, Type(i)
      PROVE  \E p \in Orders : p.by = "silent" /\ o.command \in {p.command, "noise"}
  <2>1. CASE i = "blank" BY <1>1, <1>9, <2>1 DEF Type
  <2>2. CASE i # "blank"
    <3>1. [command |-> i, by |-> "user"] \in Order BY <2>2 DEF Order, Command, Asker
    <3>2. BeginWrite("main", [command |-> i, by |-> "user"]) /\ UNCHANGED inbox
      BY <1>9, <2>2 DEF Type
    <3>3. o \in Orders \/ o = [command |-> i, by |-> "user"] BY <1>3, <3>1, <3>2 DEF Thread
    <3> QED BY <3>3
  <2> QED BY <2>1, <2>2
<1>10. OthersActive \/ Read \/ Enqueue \/ Dispatch \/ UNCHANGED vars => UNCHANGED <<inbox, writing>>
  BY DEF OthersActive, Read, Enqueue, ReaderAt, Dispatch, vars
<1> QED BY <1>1, <1>2, <1>4, <1>5, <1>6, <1>7, <1>8, <1>9, <1>10 DEF Next, ReaderStep, Frame

LEMMA WireMoves ==
  ASSUME TypeOK, [Next]_vars
  PROVE  UNCHANGED wire \/ Handle \/ OthersActive
BY DEF Next, vars, ReaderStep, Frame, Read, ReadLine, Look, Looked, RequestStatsSilently,
       Requested, RequestFails, Enqueue, ReaderAt, Dispatch, Typed, TypeFails, Type, server

LEMMA SilentLines ==
  ASSUME TypeOK, SilentOrders, AnswersInWire, Handle \/ OthersActive
  PROVE  /\ AnswersInWire'
         /\ \A k \in 1 .. Len(wire') : wire'[k].by = "silent" => Asked
<1>1. PICK kinds, by : /\ wire' = wire \o Lines(kinds, by) /\ kinds \in Seq(Kind)
                       /\ by \in Asker \cup {Nobody}
                       /\ by = "silent" => InAnswer(kinds) /\ \E o \in Orders : o.by = "silent"
  <2>1. CASE Handle
    <3> DEFINE o == Head(inbox)
    <3>1. o \in Order /\ o = inbox[1] /\ 1 \in 1 .. Len(inbox)
      <4>1. inbox \in Seq(Order) /\ inbox # <<>> /\ Len(inbox) \in Nat \ {0}
        BY <2>1, EmptySeq, LenProperties DEF Handle, TypeOK
      <4> QED BY <4>1, HeadTailProperties, ElementOfSeq
    <3>2. wire' = wire \o Lines(Answer(o.command), o.by) BY <2>1 DEF Handle
    <3> HIDE DEF o
    <3>3. o \in Orders /\ o.command \in Command /\ o.by \in Asker BY <3>1 DEF Orders, Order
    <3>4. Answer(o.command) \in Seq(Kind) BY <3>3, AnswersTyped
    <3>5. o.by = "silent" => InAnswer(Answer(o.command))
      BY <3>3, SilentAnswers DEF SilentOrders
    <3> QED BY <3>2, <3>3, <3>4, <3>5
  <2>2. CASE OthersActive
    <3>1. PICK kind \in {"quote", "entered", "number"} : wire' = wire \o Lines(<<kind, "blank">>, Nobody)
      BY <2>2 DEF OthersActive
    <3>2. <<kind, "blank">> \in Seq(Kind) BY DEF Kind
    <3>3. Nobody # "silent" BY DEF Nobody
    <3> QED BY <3>1, <3>2, <3>3
  <2> QED BY <2>1, <2>2
<1> DEFINE lines == Lines(kinds, by)
           n == Len(wire)
<1>2. /\ lines \in Seq(Line) /\ Len(lines) = Len(kinds)
      /\ \A i \in 1 .. Len(lines) : lines[i].kind = kinds[i] /\ lines[i].by = by
  BY <1>1, LinesTyped
<1>3. wire' = wire \o lines BY <1>1
<1>4. FromServer(lines)
  <2>1. by # "echo" BY <1>1 DEF Asker, Nobody
  <2> QED BY <1>2, <2>1 DEF FromServer
<1> HIDE DEF lines
<1>5. /\ n \in Nat /\ Len(lines) \in Nat /\ Len(wire') = n + Len(lines)
      /\ \A i \in 1 .. n : wire'[i] = wire[i]
      /\ \A i \in n + 1 .. Len(wire') : wire'[i] = lines[i - n]
  BY <1>3, <1>4, WireGrows
<1>6. DOMAIN kinds = 1 .. Len(lines) BY <1>1, <1>2, LenProperties
<1> HIDE DEF n
<1>7. ASSUME NEW k \in 1 .. Len(wire'), wire'[k].by = "silent", k \in 1 .. n
      PROVE  /\ Asked /\ wire'[k].kind \in SilentKind
             /\ wire'[k].kind = "body" =>
                  k - 1 \in 1 .. Len(wire') /\ wire'[k - 1].by = "silent" /\ wire'[k - 1].kind \in {"header", "bare"}
             /\ wire'[k].kind = "footer" =>
                  k - 1 \in 1 .. Len(wire') /\ wire'[k - 1].by = "silent" /\ wire'[k - 1].kind = "body"
  <2>1. wire'[k] = wire[k] BY <1>5, <1>7
  <2>2. k - 1 \in 1 .. n => k - 1 \in 1 .. Len(wire') /\ wire'[k - 1] = wire[k - 1]
    BY <1>5, <1>7
  <2> QED BY <1>7, <2>1, <2>2 DEF AnswersInWire, Asked, n
<1>8. ASSUME NEW k \in 1 .. Len(wire'), wire'[k].by = "silent", k \notin 1 .. n
      PROVE  /\ Asked /\ wire'[k].kind \in SilentKind
             /\ wire'[k].kind = "body" =>
                  k - 1 \in 1 .. Len(wire') /\ wire'[k - 1].by = "silent" /\ wire'[k - 1].kind \in {"header", "bare"}
             /\ wire'[k].kind = "footer" =>
                  k - 1 \in 1 .. Len(wire') /\ wire'[k - 1].by = "silent" /\ wire'[k - 1].kind = "body"
  <2> DEFINE i == k - n
  <2>1. i \in 1 .. Len(lines) /\ wire'[k] = lines[i] BY <1>5, <1>8
  <2>2. by = "silent" /\ wire'[k].kind = kinds[i] BY <1>2, <1>8, <2>1
  <2>3. Asked BY <1>1, <2>2 DEF Asked
  <2>4. i - 1 \in 1 .. Len(lines) =>
          /\ k - 1 \in 1 .. Len(wire') /\ wire'[k - 1].by = "silent"
          /\ wire'[k - 1].kind = kinds[i - 1]
    <3> SUFFICES ASSUME i - 1 \in 1 .. Len(lines)
                 PROVE  /\ k - 1 \in 1 .. Len(wire') /\ wire'[k - 1].by = "silent"
                        /\ wire'[k - 1].kind = kinds[i - 1]
      OBVIOUS
    <3>1. k - 1 \in n + 1 .. Len(wire') /\ (k - 1) - n = i - 1 /\ k - 1 \in 1 .. Len(wire')
      BY <1>5
    <3> QED BY <1>2, <1>5, <2>2, <3>1
  <2> HIDE DEF i
  <2>5. InAnswer(kinds) BY <1>1, <2>2
  <2> QED BY <1>6, <2>1, <2>2, <2>3, <2>4, <2>5 DEF InAnswer
<1> QED BY <1>7, <1>8 DEF AnswersInWire

\* Nothing but the one silent answer was hidden.
Calm ==
  /\ \A i \in Hidden : log[i].line.by = "silent"
  /\ Cardinality(Silent({"header"})) <= 1 /\ Silent({"bare"}) = {}

\* The request is not forgotten before its answer, the first line hidden looks
\* like a header, and what follows the header or the body last handed to the
\* chat is hidden as well.
Answered ==
  /\ Asked => pendingSilentStats \/ Hidden # {}
  /\ Hidden # {} => \E i \in Hidden : Quotes(log[i].line)
  /\ LET c == Cardinality(Received)
     IN Calm /\ c # 0 /\ wire[c].by = "silent" /\ wire[c].kind \in {"header", "body"}
        => inSilentStatsBlock
  /\ SilentAnswerIsHidden

SilentInv == SilentOrders /\ AnswersInWire /\ Answered

LEMMA SilentGrows ==
  ASSUME TypeOK, NEW line \in Line, SendMessageToChat(line), NEW n, n = Len(log), NEW kinds
  PROVE  Silent(kinds)' = IF line.by = "silent" /\ line.kind \in kinds
                          THEN Silent(kinds) \cup {n + 1} ELSE Silent(kinds)
<1>1. /\ n \in Nat /\ DOMAIN log = 1 .. n /\ DOMAIN log' = 1 .. n + 1
      /\ \A i \in 1 .. n : log'[i] = log[i]
      /\ log'[n + 1].line = line
  BY Logged, LogTyped
<1>2. 1 .. n + 1 = (1 .. n) \cup {n + 1} BY <1>1
<1> QED BY <1>1, <1>2 DEF Silent

LEMMA CalmBefore ==
  ASSUME TypeOK, NEW line \in Line, SendMessageToChat(line), Calm'
  PROVE  Calm /\ (line.by = "silent" /\ line.kind = "header" => Silent({"header"}) = {})
<1> DEFINE n == Len(log)
           S == Silent({"header"})
           T == S'
<1>1. n \in Nat /\ Hidden \in SUBSET (1 .. n) /\ DOMAIN log = 1 .. n
      /\ \A i \in 1 .. n : log'[i] = log[i]
  BY Logged, LogTyped
<1>2. Hidden \subseteq Hidden' BY Logged
<1>3. S \in SUBSET (1 .. n) BY <1>1 DEF Silent
<1>4. T = IF line.by = "silent" /\ line.kind = "header" THEN S \cup {n + 1} ELSE S
  BY SilentGrows
<1>5. Silent({"bare"}) \subseteq Silent({"bare"})' BY SilentGrows
<1>6. \A i \in Hidden : log[i].line.by = "silent" BY <1>1, <1>2 DEF Calm
<1>7. Cardinality(T) <= 1 BY DEF Calm
<1> HIDE DEF S, T
<1>8. IsFiniteSet(S) /\ Cardinality(S) \in Nat BY <1>1, <1>3, Ranks
<1>9. CASE T = S BY <1>4, <1>5, <1>6, <1>7, <1>9, <1>1, <1>3 DEF Calm, S
<1>10. CASE T = S \cup {n + 1}
  <2>1. Cardinality(T) = Cardinality(S) + 1 BY <1>1, <1>3, <1>10, RanksGrow
  <2>2. Cardinality(S) = 0 BY <1>7, <1>8, <2>1
  <2>3. S = {} BY <1>8, <2>2, FS_EmptySet
  <2> QED BY <1>5, <1>6, <2>2, <2>3 DEF Calm, S
<1> QED BY <1>4, <1>9, <1>10

\* What a line handed to the chat does to the silent answer.
LEMMA ChatKeepsAnswer ==
  ASSUME TypeOK, InOrder, OneRequest, SilentOrders, AnswersInWire, Answered,
         NEW line \in Line, SendMessageToChat(line), UNCHANGED wire,
         \/ line.by = "echo"
         \/ /\ line = wire[Cardinality(Received) + 1] /\ Cardinality(Received) + 1 <= Len(wire)
            /\ line.by # "echo",
         Asked' => Asked
  PROVE  Answered'
<1> DEFINE n == Len(log)
           c == Cardinality(Received)
           H == Hidden
           G == Hidden'
<1>1. /\ n \in Nat /\ DOMAIN log = 1 .. n /\ H \in SUBSET (1 .. n) /\ Received \in SUBSET (1 .. n)
      /\ \A i \in 1 .. n : log'[i] = log[i]
      /\ log'[n + 1].line = line
      /\ Hides(line) => G = H \cup {n + 1}
      /\ ~Hides(line) => G = H
  BY LogTyped, Logged
<1>2. /\ c \in Nat /\ Len(wire) \in Nat
      /\ \A i \in Received : Rank(Received, i) \in 1 .. c /\ log[i].line = wire[Rank(Received, i)]
      /\ \A k \in 1 .. c : \E i \in Received : log[i].line = wire[k]
      /\ c <= Len(wire)
  BY Places DEF InOrder
<1>3. Cardinality(Received)' = IF line.by = "echo" THEN c ELSE c + 1
  BY <1>1, Logged, RanksGrow
<1>4. IF Throws(line) THEN UNCHANGED <<pendingSilentStats, inSilentStatsBlock>>
      ELSE /\ pendingSilentStats' <=> pendingSilentStats /\ ~(pendingSilentStats /\ Quotes(line))
           /\ inSilentStatsBlock' <=> Hides(line) /\ ~EndsBlock(line)
  BY Fates
<1>5. Asked' => pendingSilentStats' \/ G # {}
  <2>1. Asked => pendingSilentStats \/ H # {} BY DEF Answered
  <2> QED BY <1>1, <1>4, <2>1 DEF Hides
<1>6. G # {} => \E i \in G : Quotes(log'[i].line)
  <2>1. CASE H # {}
    <3>1. PICK i \in H : Quotes(log[i].line) BY <2>1 DEF Answered
    <3>2. i \in G /\ log'[i] = log[i] BY <1>1, <3>1
    <3> QED BY <3>1, <3>2
  <2>2. CASE H = {}
    <3>1. ~inSilentStatsBlock BY <2>2 DEF OneRequest
    <3>2. Hides(line) => Quotes(line) BY <3>1 DEF Hides
    <3> QED BY <1>1, <2>2, <3>2
  <2> QED BY <2>1, <2>2
<1> DEFINE three == {"header", "body", "footer"}
<1>7. ASSUME Calm'
      PROVE  /\ line.by = "silent" /\ line.kind \in three => n + 1 \in G
             /\ line.by = "silent" /\ line.kind \in {"header", "body"} => inSilentStatsBlock'
             /\ line.by = "echo" /\ ~Throws(line) =>
                  ~(c # 0 /\ wire[c].by = "silent" /\ wire[c].kind \in {"header", "body"})
  <2>1. Calm BY <1>7, CalmBefore
  <2>2. c # 0 /\ wire[c].by = "silent" /\ wire[c].kind \in {"header", "body"} => inSilentStatsBlock
    BY <2>1 DEF Answered
  <2>3. CASE line.by = "echo" /\ ~Throws(line)
    <3>1. ~Hides(line)
      <4> SUFFICES ASSUME Hides(line) PROVE FALSE OBVIOUS
      <4>1. n + 1 \in G BY <1>1
      <4>2. log'[n + 1].line.by = "silent" BY <1>7, <4>1 DEF Calm
      <4> QED BY <1>1, <2>3, <4>2
    <3>2. ~inSilentStatsBlock BY <2>3, <3>1 DEF Hides
    <3> QED BY <2>2, <2>3, <3>2
  <2>4. ASSUME line.by = "silent", line.kind = "header" PROVE Hides(line) /\ ~EndsBlock(line)
    <3>1. line = wire[c + 1] /\ c + 1 \in 1 .. Len(wire) BY <1>2, <2>4
    <3>2. Asked BY <2>4, <3>1 DEF Asked
    <3>3. ASSUME H # {} PROVE FALSE
      <4>1. PICK i \in H : Quotes(log[i].line) BY <3>3 DEF Answered
      <4>2. log[i].line.by = "silent" /\ i \in 1 .. n BY <1>1, <2>1 DEF Calm
      <4>3. i \in Received BY <1>1, <4>2 DEF Received
      <4>4. PICK k \in 1 .. Len(wire) : log[i].line = wire[k] BY <1>2, <4>3
      <4>5. log[i].line.kind \in SilentKind BY <4>2, <4>4 DEF AnswersInWire
      <4>6. log[i].line.kind \in {"header", "bare"} BY <4>1, <4>5 DEF Quotes, SilentKind
      <4>7. i \in Silent({"header"}) \/ i \in Silent({"bare"}) BY <1>1, <4>2, <4>6 DEF Silent
      <4>8. Silent({"header"}) = {} BY <1>7, <2>4, CalmBefore
      <4> QED BY <2>1, <4>7, <4>8 DEF Calm
    <3>4. pendingSilentStats BY <3>2, <3>3 DEF Answered
    <3> QED BY <2>4, <3>4 DEF Hides, Quotes, EndsBlock, Throws
  <2>5. ASSUME line.by = "silent", line.kind \in {"body", "footer"} PROVE Hides(line)
    <3>1. line = wire[c + 1] /\ c + 1 \in 1 .. Len(wire) /\ (c + 1) - 1 = c BY <1>2, <2>5
    <3>2. /\ c \in 1 .. Len(wire) /\ wire[c].by = "silent"
          /\ line.kind = "body" => wire[c].kind \in {"header", "bare"}
          /\ line.kind = "footer" => wire[c].kind = "body"
      BY <2>5, <3>1 DEF AnswersInWire
    <3>3. wire[c].kind # "bare"
      <4>0. c \in 1 .. c BY <1>2, <3>2
      <4>1. PICK i \in Received : log[i].line = wire[c] BY <1>2, <4>0
      <4>2. i \notin Silent({"bare"}) BY <2>1 DEF Calm
      <4> QED BY <1>1, <3>2, <4>1, <4>2 DEF Silent
    <3>4. inSilentStatsBlock BY <2>2, <2>5, <3>2, <3>3
    <3> QED BY <2>5, <3>4 DEF Hides, Throws
  <2>6. line.kind = "body" => ~EndsBlock(line) BY DEF EndsBlock
  <2>7. line.kind \in {"header", "body"} => ~Throws(line) BY DEF Throws
  <2> QED BY <1>1, <1>4, <2>3, <2>4, <2>5, <2>6, <2>7
<1>8. ASSUME Calm'
      PROVE  Silent(three)' \subseteq G
  <2>1. Calm BY <1>8, CalmBefore
  <2>2. Silent(three) \subseteq H BY <2>1 DEF Answered, SilentAnswerIsHidden, Calm
  <2>3. Silent(three)' = IF line.by = "silent" /\ line.kind \in three
                         THEN Silent(three) \cup {n + 1} ELSE Silent(three)
    BY SilentGrows
  <2> QED BY <1>1, <1>7, <1>8, <2>2, <2>3
<1>9. SilentAnswerIsHidden' BY <1>8 DEF SilentAnswerIsHidden, Calm
<1>10. Calm' => LET d == Cardinality(Received)'
                IN d # 0 /\ wire'[d].by = "silent" /\ wire'[d].kind \in {"header", "body"}
                   => inSilentStatsBlock'
  <2> SUFFICES ASSUME Calm', NEW d, d = Cardinality(Received)', d # 0, wire[d].by = "silent",
                      wire[d].kind \in {"header", "body"}
               PROVE  inSilentStatsBlock'
    OBVIOUS
  <2>0. Calm /\ c # 0 /\ wire[c].by = "silent" /\ wire[c].kind \in {"header", "body"}
        => inSilentStatsBlock
    BY DEF Answered
  <2>1. CASE line.by = "echo"
    <3>1. c # 0 /\ wire[c].by = "silent" /\ wire[c].kind \in {"header", "body"} BY <1>3, <2>1
    <3>2. Throws(line) BY <1>7, <2>1, <3>1
    <3>3. Calm BY CalmBefore
    <3> QED BY <1>4, <2>0, <3>1, <3>2, <3>3
  <2>2. CASE line.by # "echo"
    <3>1. line = wire[d] BY <1>3, <2>2
    <3> QED BY <1>7, <3>1
  <2> QED BY <2>1, <2>2
<1> QED BY <1>5, <1>6, <1>9, <1>10 DEF Answered, G

LEMMA StepSilent ==
  TypeOK /\ Busy /\ InOrder /\ OneRequest /\ SilentInv /\ [Next]_vars => SilentInv'
<1> SUFFICES ASSUME TypeOK, Busy, InOrder, OneRequest, SilentInv, [Next]_vars PROVE SilentInv'
  OBVIOUS
<1> USE DEF SilentInv
<1>1. SilentOrders'
  <2> SUFFICES ASSUME NEW o \in Orders', o.by = "silent" PROVE o.command \in {"stats", "noise"}
    BY DEF SilentOrders
  <2> QED BY StepOrders DEF SilentOrders
<1>2. AnswersInWire'
  <2>1. CASE UNCHANGED wire BY <2>1 DEF AnswersInWire
  <2>2. CASE Handle \/ OthersActive BY <2>2, SilentLines
  <2> QED BY <2>1, <2>2, WireMoves
<1>3. Asked' => Asked \/ RequestStatsSilently
  <2>1. ASSUME NEW o \in Orders', o.by = "silent" PROVE Asked \/ RequestStatsSilently
    BY <2>1, StepOrders DEF Asked
  <2>2. ASSUME NEW k \in 1 .. Len(wire'), wire'[k].by = "silent" PROVE Asked
    <3>1. CASE UNCHANGED wire BY <2>2, <3>1 DEF Asked
    <3>2. CASE Handle \/ OthersActive BY <2>2, <3>2, SilentLines
    <3> QED BY <3>1, <3>2, WireMoves
  <2> QED BY <2>1, <2>2 DEF Asked
<1> SUFFICES Answered' BY <1>1, <1>2
<1> HIDE DEF SilentInv
<1> USE DEF server, readerState, screen
<1>4. ASSUME UNCHANGED <<log, inSilentStatsBlock>>, pendingSilentStats => pendingSilentStats',
             RequestStatsSilently => pendingSilentStats'
      PROVE  Answered'
  <2>1. UNCHANGED <<Hidden, Received>> BY <1>4 DEF Hidden, Received
  <2>2. UNCHANGED Cardinality(Received) /\ \A kinds : UNCHANGED Silent(kinds)
    BY <1>4, <2>1 DEF Silent
  <2>3. UNCHANGED <<Calm, SilentAnswerIsHidden>> BY <1>4, <2>1, <2>2 DEF Calm, SilentAnswerIsHidden
  <2>4. \A k \in 1 .. Len(wire) : wire'[k] = wire[k]
    <3>1. CASE Handle \/ OthersActive BY <3>1, Sends, WireGrows
    <3>2. CASE UNCHANGED wire BY <3>2
    <3> QED BY <3>1, <3>2, WireMoves
  <2>5. Cardinality(Received) # 0 => Cardinality(Received) \in 1 .. Len(wire) BY Places
  <2> DEFINE c == Cardinality(Received)
  <2>6. UNCHANGED c /\ (c # 0 => wire'[c] = wire[c]) BY <2>2, <2>4, <2>5
  <2>7. /\ Asked => pendingSilentStats \/ Hidden # {}
        /\ Hidden # {} => \E i \in Hidden : Quotes(log[i].line)
        /\ Calm /\ c # 0 /\ wire[c].by = "silent" /\ wire[c].kind \in {"header", "body"}
           => inSilentStatsBlock
        /\ SilentAnswerIsHidden
    BY DEF SilentInv, Answered
  <2> HIDE DEF c
  <2>8. Asked' => pendingSilentStats' \/ Hidden' # {} BY <1>3, <1>4, <2>1, <2>7
  <2>9. Hidden' # {} => \E i \in Hidden' : Quotes(log'[i].line) BY <1>4, <2>1, <2>7
  <2>10. Calm' /\ c' # 0 /\ wire'[c'].by = "silent" /\ wire'[c'].kind \in {"header", "body"}
         => inSilentStatsBlock'
    BY <1>4, <2>3, <2>6, <2>7
  <2> QED BY <2>3, <2>7, <2>8, <2>9, <2>10 DEF Answered, c
<1>5. ASSUME NEW line \in Line, line.by = "echo", SendMessageToChat(line), UNCHANGED wire,
             ~RequestStatsSilently
      PROVE  Answered'
  BY <1>3, <1>5, ChatKeepsAnswer DEF SilentInv
<1>6. CASE Dispatch
  <2>1. /\ Head(queue) \in Line /\ Head(queue).by # "echo"
        /\ Head(queue) = wire[Cardinality(Received) + 1]
    BY <1>6, DispatchKeepsOrder
  <2>2. SendMessageToChat(Head(queue)) /\ UNCHANGED wire /\ queue # <<>> /\ ~RequestStatsSilently
    BY <1>6 DEF Dispatch, RequestStatsSilently, ReaderAt
  <2>3. Cardinality(Received) + 1 <= Len(wire)
    <3>1. Len(queue) # 0 BY <2>2, EmptySeq DEF TypeOK
    <3> QED BY <3>1, Places
  <2> DEFINE line == Head(queue)
  <2> HIDE DEF line
  <2> QED BY <1>3, <2>1, <2>2, <2>3, ChatKeepsAnswer DEF SilentInv, line
<1>7. CASE Typed
  <2>1. SendMessageToChat(Echo(writing["main"].command)) /\ UNCHANGED wire /\ ~RequestStatsSilently
    BY <1>7 DEF Typed, RequestStatsSilently, ReaderAt
  <2> QED BY <1>5, <2>1, EchoTyped
<1>8. ASSUME NEW i \in Inputs, Type(i) PROVE Answered'
  <2>1. CASE i = "blank"
    <3>1. SendMessageToChat(Echo(i)) /\ UNCHANGED wire /\ ~RequestStatsSilently
      BY <1>8, <2>1 DEF Type, RequestStatsSilently, ReaderAt
    <3> QED BY <1>5, <3>1, EchoTyped
  <2>2. CASE i # "blank"
    <3>1. UNCHANGED <<log, inSilentStatsBlock, pendingSilentStats>> /\ ~RequestStatsSilently
      BY <1>8, <2>2 DEF Type, RequestStatsSilently, ReaderAt
    <3> QED BY <1>4, <3>1
  <2> QED BY <2>1, <2>2
<1>9. Handle \/ OthersActive \/ ReaderStep \/ TypeFails \/ UNCHANGED vars
      => /\ UNCHANGED <<log, inSilentStatsBlock>>
         /\ (pendingSilentStats => pendingSilentStats')
  BY DEF Handle, OthersActive, ReaderStep, Read, Look, Looked, RequestStatsSilently, Requested,
         RequestFails, Enqueue, ReaderAt, TypeFails, vars
<1>10. RequestStatsSilently => pendingSilentStats' BY DEF RequestStatsSilently
<1> QED BY <1>4, <1>6, <1>7, <1>8, <1>9, <1>10 DEF Next, Frame

LEMMA InitSilent == Init => SilentInv
<1> SUFFICES ASSUME Init PROVE SilentInv OBVIOUS
<1>1. Len(inbox) = 1 /\ inbox[1] = [command |-> "password", by |-> "user"] BY DEF Init
<1>2. \A o \in Orders : o.by # "silent" BY <1>1 DEF Init, Orders, Nothing, Nobody
<1>3. \A k \in 1 .. Len(wire) : wire[k].by # "silent"
  <2>1. CASE known
    <3> DEFINE kinds == <<"recovered">>
    <3>1. kinds \in Seq(Kind) /\ Len(kinds) = 1 BY DEF Kind
    <3>2. wire = Lines(kinds, Nobody) BY <2>1 DEF Init
    <3> HIDE DEF kinds
    <3>3. Nobody # "silent" BY DEF Nobody
    <3> QED BY <3>1, <3>2, <3>3, LinesTyped
  <2>2. CASE ~known
    <3>1. wire = <<>> /\ Len(<<>>) = 0 BY <2>2 DEF Init
    <3> QED BY <3>1
  <2> QED BY <2>1, <2>2
<1>4. Hidden = {} /\ Received = {} /\ \A kinds : Silent(kinds) = {}
  BY DEF Init, Hidden, Received, Silent
<1>5. Cardinality(Received) = 0 BY <1>4, FS_EmptySet
<1>6. SilentAnswerIsHidden BY <1>4 DEF SilentAnswerIsHidden
<1>7. Answered BY <1>2, <1>3, <1>4, <1>5, <1>6 DEF Answered, Asked
<1> QED BY <1>2, <1>3, <1>7 DEF SilentInv, SilentOrders, AnswersInWire

AnswerInv == RequestInv /\ SilentInv

\* Unless something named in SilentAnswerIsHidden came between, no line of the
\* answer to the client's own request shows in the chat.
THEOREM AnswersStayHidden == Spec => []SilentAnswerIsHidden
<1>1. Init => AnswerInv
  BY InitTyped, InitInOrder, InitOneRequest, InitSilent
     DEF Init, Busy, OrderInv, RequestInv, AnswerInv
<1>2. AnswerInv /\ [Next]_vars => AnswerInv'
  BY StepTyped, StaysBusy, StepInOrder, StepChat, StepOneRequest, StepSilent
     DEF OrderInv, RequestInv, AnswerInv
<1>3. AnswerInv => SilentAnswerIsHidden BY DEF AnswerInv, SilentInv, Answered
<1> QED BY <1>1, <1>2, <1>3, PTL DEF Spec

=============================================================================
