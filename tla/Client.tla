------------------------------- MODULE Client -------------------------------
(***************************************************************************)
(* The Unity client: the thread that reads lines, the main thread that     *)
(* shows them and sends what the user types, and the request for the       *)
(* player's statistics that the client makes of its own accord and whose   *)
(* answer it keeps out of the chat.                                        *)
(*                                                                         *)
(* The answer is known by its text: a header with "Your Stats" begins it,  *)
(* a blank line or one that starts with "---" ends it.  In the game every  *)
(* message is followed by a status bar without a line end, so that the     *)
(* first line of a message starts with the bar of the one before and a     *)
(* carriage return in front of the next bar makes a blank line.  On the    *)
(* training screen there is no bar, and the header itself starts with      *)
(* "---".                                                                  *)
(***************************************************************************)
EXTENDS Integers, Sequences, FiniteSets

CONSTANTS
  Inputs,       \* what the user may type
  MaxInputs,    \* bound: lines typed
  MaxAhead,     \* bound: lines not yet read when the server sends more
  MaxQueue,     \* bound: lines waiting for the main thread
  MaxOthers,    \* bound: messages caused by other players
  MaxMessages   \* maxMessages: lines the chat holds

ASSUME BoundsAreNumbers == MaxInputs \in Nat /\ MaxOthers \in Nat
ASSUME ChatHoldsLines == MaxMessages \in Nat \ {0}

VARIABLES
  stage,      \* the server's handler: "logon", "playing", "training"; "left" after the last
  known,      \* whether the name typed first has an account
  inbox,      \* commands on their way to the server
  wire,       \* all lines the server has sent
  next,       \* how many of them the reader has read
  reader,     \* what the reader thread does: "read", or a step on wire[next]
  canAutoRequestStats, initialInfoRequested,
  pendingSilentStats,    \* set by the reader, reset by the main thread
  queue,      \* _executionQueue of the dispatcher: lines to show
  writing,    \* the command each thread is writing, if any
  clash,      \* whether the other thread wrote at the same time
  inSilentStatsBlock,
  messageList,
  log,        \* history: the lines SendMessageToChat got, and what became of them
  typed, others

vars == <<stage, known, inbox, wire, next, reader, canAutoRequestStats,
          initialInfoRequested, pendingSilentStats, queue, writing, clash,
          inSilentStatsBlock, messageList, log, typed, others>>

server == <<stage, known, wire, others>>
readerState == <<next, reader, canAutoRequestStats, initialInfoRequested>>
screen == <<inSilentStatsBlock, messageList, log>>

Thread == {"reader", "main"}
Nobody == "nobody"
Command == {"password", "look", "stats", "noise"} \cup (Inputs \ {"blank"})
Asker == {"user", "client", "silent"}   \* the silent request, the client's look
Order == [command : Command, by : Asker]
Nothing == [command |-> "look", by |-> Nobody]

Stage == {"logon", "playing", "training", "left"}

\* A "number" is a line with a label and a number too long for an int,
\* whatever else it says.
Kind == {"recovered", "entered", "text", "quote", "number", "header", "bare",
         "body", "footer", "dashes", "blank"}
Line == [kind : Kind, by : Asker \cup {Nobody, "echo"}]

Entry == [line : Line, fate : {"shown", "hidden", "lost"}]

Lines(kinds, by) == [i \in DOMAIN kinds |-> [kind |-> kinds[i], by |-> by]]

TypeOK ==
  /\ stage \in Stage /\ known \in BOOLEAN
  /\ inbox \in Seq(Order) /\ wire \in Seq(Line) /\ next \in 0 .. Len(wire)
  /\ reader \in {"read", "look", "looking", "request", "asking", "enqueue"}
  /\ canAutoRequestStats \in BOOLEAN /\ initialInfoRequested \in BOOLEAN
  /\ pendingSilentStats \in BOOLEAN /\ inSilentStatsBlock \in BOOLEAN
  /\ queue \in Seq(Line) /\ writing \in [Thread -> Order \cup {Nothing}]
  /\ clash \in [Thread -> BOOLEAN]
  /\ messageList \in Seq(Line) /\ Len(messageList) <= MaxMessages
  /\ log \in Seq(Entry)
  /\ typed \in 0 .. MaxInputs /\ others \in 0 .. MaxOthers

\* The user has typed a name, and then the password he was asked for.
Init ==
  /\ stage = "logon" /\ known \in BOOLEAN
  /\ inbox = <<[command |-> "password", by |-> "user"]>>
  /\ wire = IF known THEN Lines(<<"recovered">>, Nobody) ELSE <<>>
  /\ next = 0 /\ reader = "read"
  /\ canAutoRequestStats = FALSE /\ initialInfoRequested = FALSE
  /\ pendingSilentStats = FALSE /\ inSilentStatsBlock = FALSE
  /\ queue = <<>> /\ writing = [t \in Thread |-> Nothing]
  /\ clash = [t \in Thread |-> FALSE]
  /\ messageList = <<>> /\ log = <<>> /\ typed = 0 /\ others = 0

-----------------------------------------------------------------------------
(* The server, as far as the client can tell its answers apart. *)

StatsAnswer == <<"header", "body", "footer", "blank">>
Page == <<"text", "bare", "body", "footer", "text">>
FirstPage == <<"header", "body", "footer", "text">>
Arrival == <<"entered", "blank", "text", "blank">>
Welcome == <<"entered", "blank", "text", "blank", "bare", "body", "footer", "text">>

Answer(command) ==
  CASE stage = "logon" -> IF known THEN Arrival ELSE Welcome
    [] stage = "training" -> IF command = "quit" THEN Arrival ELSE Page
    [] stage = "playing" /\ command = "stats" -> StatsAnswer
    [] stage = "playing" /\ command = "editstats" -> FirstPage
    [] stage = "playing" /\ command \in {"quote", "number"} -> <<command, "blank">>
    [] OTHER -> <<"text", "blank">>

Moves(command) ==
  CASE stage = "logon" -> IF known THEN "playing" ELSE "training"
    [] stage = "training" /\ command = "quit" -> "playing"
    [] stage = "playing" /\ command = "editstats" -> "training"
    [] stage = "playing" /\ command = "quit" -> "left"
    [] OTHER -> stage

\* The client sees no more of the server than what it reads, so that a server
\* that waits for the reader shows it all that one far ahead could.
MaySend == stage # "left" /\ Len(wire) - next <= MaxAhead

Handle ==
  /\ MaySend /\ inbox # <<>> /\ inbox' = Tail(inbox)
  /\ LET order == Head(inbox)
     IN /\ wire' = wire \o Lines(Answer(order.command), order.by)
        /\ stage' = Moves(order.command)
  /\ UNCHANGED <<known, others, readerState, pendingSilentStats, queue, writing, clash,
                 screen, typed>>

\* Others enter the game, and talk of "Your Stats" or of long numbers; what
\* else they do is as a line of text to the client.
OthersActive ==
  /\ MaySend /\ stage = "playing" /\ others < MaxOthers /\ others' = others + 1
  /\ \E kind \in {"quote", "entered", "number"} :
       wire' = wire \o Lines(<<kind, "blank">>, Nobody)
  /\ UNCHANGED <<stage, known, inbox, readerState, pendingSilentStats, queue, writing,
                 clash, screen, typed>>

-----------------------------------------------------------------------------
(* StreamWriter.WriteLine by two threads without a lock. *)

Idle(t) == writing[t] = Nothing

BeginWrite(t, order) ==
  /\ writing' = [writing EXCEPT ![t] = order]
  /\ clash' = IF \A u \in Thread : Idle(u) THEN [clash EXCEPT ![t] = FALSE]
              ELSE [u \in Thread |-> TRUE]

\* Writes that overlap may lose, repeat or garble what they write.
EndWrite(t) ==
  LET order == writing[t]
      written == IF ~clash[t] THEN {<<order>>}
                 ELSE {<<>>, <<order>>, <<order, order>>, <<[order EXCEPT !.command = "noise"]>>}
  IN /\ \E w \in written : inbox' = inbox \o w
     /\ writing' = [writing EXCEPT ![t] = Nothing]
     /\ UNCHANGED clash

-----------------------------------------------------------------------------
(* ListenForMessages, on the reader's thread. *)

ReadLine ==
  /\ reader = "read" /\ next < Len(wire) /\ Len(queue) < MaxQueue
  /\ next' = next + 1

\* Variant: that the first information was asked for is not remembered.
ReadForgetful ==
  /\ ReadLine
  /\ LET line == wire[next']
     IN /\ canAutoRequestStats' = (canAutoRequestStats \/ line.kind = "recovered")
        /\ IF line.kind = "entered"
           THEN reader' = "look" /\ UNCHANGED queue
           ELSE queue' = Append(queue, line) /\ UNCHANGED reader
        /\ UNCHANGED initialInfoRequested
  /\ UNCHANGED <<server, inbox, pendingSilentStats, writing, clash, screen, typed>>

Read ==
  /\ ReadLine
  /\ LET line == wire[next']
         first == ~initialInfoRequested /\ line.kind = "entered"
     IN /\ canAutoRequestStats' = (canAutoRequestStats \/ line.kind = "recovered")
        /\ initialInfoRequested' = (initialInfoRequested \/ first)
        /\ reader' = IF first THEN "look" ELSE reader
        /\ queue' = IF first THEN queue ELSE Append(queue, line)
  /\ UNCHANGED <<server, inbox, pendingSilentStats, writing, clash, screen, typed>>

ReaderAt(here, there) ==
  /\ reader = here /\ reader' = there
  /\ UNCHANGED <<server, next, canAutoRequestStats, initialInfoRequested, screen, typed>>

Look ==
  /\ ReaderAt("look", "looking")
  /\ BeginWrite("reader", [command |-> "look", by |-> "client"])
  /\ UNCHANGED <<inbox, pendingSilentStats, queue>>

Looked ==
  /\ ReaderAt("looking", IF canAutoRequestStats THEN "request" ELSE "enqueue")
  /\ EndWrite("reader")
  /\ UNCHANGED <<pendingSilentStats, queue>>

RequestStatsSilently ==
  /\ ReaderAt("request", "asking")
  /\ pendingSilentStats' = TRUE
  /\ BeginWrite("reader", [command |-> "stats", by |-> "silent"])
  /\ UNCHANGED <<inbox, queue>>

\* Variants: the reader waits for the answer; the line read is not shown.
RequestedAndWaits ==
  /\ ReaderAt("asking", "enqueue") /\ ~pendingSilentStats
  /\ EndWrite("reader")
  /\ UNCHANGED <<pendingSilentStats, queue>>

RequestedInstead ==
  /\ ReaderAt("asking", "read")
  /\ EndWrite("reader")
  /\ UNCHANGED <<pendingSilentStats, queue>>

Requested ==
  /\ ReaderAt("asking", "enqueue")
  /\ EndWrite("reader")
  /\ UNCHANGED <<pendingSilentStats, queue>>

\* A write that throws is logged, and ends the requests.
RequestFails ==
  /\ clash["reader"] /\ \E here \in {"looking", "asking"} : ReaderAt(here, "enqueue")
  /\ writing' = [writing EXCEPT !["reader"] = Nothing]
  /\ UNCHANGED <<inbox, pendingSilentStats, queue, clash>>

Enqueue ==
  /\ ReaderAt("enqueue", "read")
  /\ queue' = Append(queue, wire[next])
  /\ UNCHANGED <<inbox, pendingSilentStats, writing, clash>>

ReaderStep ==
  \/ Read \/ Look \/ Looked \/ RequestStatsSilently \/ Requested \/ RequestFails
  \/ Enqueue

-----------------------------------------------------------------------------
(* The main thread. *)

Quotes(line) == line.kind \in {"header", "bare", "quote"}

\* Variant: three dashes anywhere in the line.
EndsAnywhere(line) ==
  line.kind \in {"blank", "dashes", "header", "bare", "footer"}

EndsBlock(line) == line.kind \in {"blank", "dashes", "bare", "footer"}

Trimmed(list) == IF Len(list) >= MaxMessages THEN Tail(list) ELSE list

\* PlayerStatsParser and TryExtractLifeBlock come first, and int.Parse throws;
\* nobody catches, and the line was taken off the queue.
Throws(line) == line.kind = "number"

ShowOrHide(line) ==
  LET begins == pendingSilentStats /\ Quotes(line)
      hidden == inSilentStatsBlock \/ begins
  IN /\ pendingSilentStats' = (pendingSilentStats /\ ~begins)
     /\ inSilentStatsBlock' = (hidden /\ ~EndsBlock(line))
     /\ messageList' = IF hidden THEN messageList ELSE Append(Trimmed(messageList), line)
     /\ log' = Append(log, [line |-> line, fate |-> IF hidden THEN "hidden" ELSE "shown"])

Lose(line) ==
  /\ log' = Append(log, [line |-> line, fate |-> "lost"])
  /\ UNCHANGED <<pendingSilentStats, inSilentStatsBlock, messageList>>

SendMessageToChat(line) == IF Throws(line) THEN Lose(line) ELSE ShowOrHide(line)

\* The dispatcher's Update runs all that is queued under the lock, or up to the
\* line that throws; what can come between two of its lines is what can come
\* between two frames.
Dispatch ==
  /\ Idle("main") /\ queue # <<>>
  /\ queue' = Tail(queue) /\ SendMessageToChat(Head(queue))
  /\ UNCHANGED <<server, inbox, readerState, writing, clash, typed>>

Echo(input) ==
  [kind |-> IF input \in {"quote", "number", "dashes", "blank"} THEN input ELSE "text", by |-> "echo"]

\* Update with the Return key: the line is sent unless it is blank, and shown.
\* When that throws, it stays in chatBox, and Return sends it again.
Type(input) ==
  /\ Idle("main") /\ typed < MaxInputs /\ typed' = typed + 1
  /\ IF input = "blank"
     THEN SendMessageToChat(Echo(input)) /\ UNCHANGED <<writing, clash>>
     ELSE /\ BeginWrite("main", [command |-> input, by |-> "user"])
          /\ UNCHANGED <<screen, pendingSilentStats>>
  /\ UNCHANGED <<server, inbox, readerState, queue>>

Typed ==
  /\ ~Idle("main") /\ EndWrite("main")
  /\ SendMessageToChat(Echo(writing["main"].command))
  /\ UNCHANGED <<server, readerState, queue, typed>>

\* A write that throws ends this frame's Update.
TypeFails ==
  /\ ~Idle("main") /\ clash["main"]
  /\ writing' = [writing EXCEPT !["main"] = Nothing]
  /\ UNCHANGED <<server, inbox, readerState, pendingSilentStats, queue, clash, screen, typed>>

Frame == Dispatch \/ Typed \/ TypeFails

Next == Handle \/ OthersActive \/ ReaderStep \/ Frame \/ \E i \in Inputs : Type(i)

Spec == Init /\ [][Next]_vars /\ WF_vars(ReaderStep) /\ WF_vars(Frame)

-----------------------------------------------------------------------------
(* Properties. *)

Received == {i \in DOMAIN log : log[i].line.by # "echo"}
Hidden == {i \in DOMAIN log : log[i].fate = "hidden"}
Shown == {i \in DOMAIN log : log[i].fate = "shown"}
Lost == DOMAIN log \ (Shown \cup Hidden)

\* The place of an entry of the log among those of S.
Rank(S, i) == Cardinality({j \in S : j <= i})

Held == IF reader = "read" THEN <<>> ELSE <<wire[next]>>

\* What the chat holds is the end of what was shown.
HoldsTheEnd ==
  LET gone == Cardinality(Shown) - Len(messageList)
  IN /\ gone >= 0 /\ (gone > 0 => Len(messageList) = MaxMessages)
     /\ \A i \in Shown :
          Rank(Shown, i) > gone => messageList[Rank(Shown, i) - gone] = log[i].line

\* Every line the reader has read was handed to the chat once and in the order
\* it came, or waits for it: what the reader does with a line on the way, two
\* commands of its own included, loses and overtakes nothing.  A line handed
\* over that is neither shown nor hidden has a number no int holds.
OnlyNumbersAreLost ==
  /\ Cardinality(Received) + Len(queue \o Held) = next
  /\ \A i \in Received : log[i].line = wire[Rank(Received, i)]
  /\ \A i \in DOMAIN (queue \o Held) : (queue \o Held)[i] = wire[Cardinality(Received) + i]
  /\ \A i \in Lost : log[i].line.kind = "number"
  /\ HoldsTheEnd

\* The chat hides one stretch of lines in a session, no line shown between two
\* that are hidden, and only after an account was recovered, whoever else
\* enters, asks for statistics or quotes them.
HidesOneStretch ==
  /\ \A i, j \in Hidden, k \in Shown : ~(i < k /\ k < j)
  /\ Hidden # {} => canAutoRequestStats

\* The silent answer: how often it was asked for and came is up to the writer.
Silent(kinds) == {i \in DOMAIN log : log[i].line.by = "silent" /\ log[i].line.kind \in kinds}

\* Nothing of the answer to the silent request shows in the chat when nothing
\* but that answer was hidden: it takes a quotation, another request for
\* statistics, a blank or dashed line typed in the middle of it, the training
\* screen or a request that was repeated to lay it open.
SilentAnswerIsHidden ==
  /\ \A i \in Hidden : log[i].line.by = "silent"
  /\ Cardinality(Silent({"header"})) <= 1 /\ Silent({"bare"}) = {}
  => Silent({"header", "body", "footer"}) \subseteq Hidden

\* The threads catch up with the server time and again: neither waits for what
\* only the other could bring.
CatchesUp == []<>(next = Len(wire) /\ reader = "read" /\ queue = <<>>)

=============================================================================
