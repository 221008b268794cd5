---------------------------- MODULE FlowControl ----------------------------
(***************************************************************************)
(* What the connection manager measures of a client: the bytes it sends,   *)
(* counted per chunk of TIMECHUNK seconds of the wall clock, and the data  *)
(* it leaves unread.  One connection is followed through the passes of     *)
(* main(), accept -> listen -> send -> check -> close -> loop, while the   *)
(* clock ticks between any two steps and the other players write to it.    *)
(*                                                                         *)
(* The code keeps times of the wall clock; only two things depend on them, *)
(* whether the last stamp lies in the current chunk and how many seconds   *)
(* ago sending stopped, and those are what the variables hold.             *)
(***************************************************************************)
EXTENDS Naturals, Sequences, SequencesExt

CONSTANTS
  Printable, LineSize,    \* of Telnet
  ReadSize,     \* BUFFERSIZE: bytes one Receive takes at most
  Chunk,        \* TIMECHUNK, 16 seconds
  MaxRate,      \* m_maxdatarate, 128 bytes a second
  Timeout,      \* m_sendtimeout, 60 seconds
  MaxBuffered,  \* m_maxbuffered, 65536 bytes
  HealTime,     \* HEALTIME, 60 seconds
  Backlog       \* bound: what the send buffer holds in the model

Editor == INSTANCE Telnet

ASSUME FlowAssumption ==
  /\ LineSize \in Nat /\ ReadSize \in Nat \ {0} /\ Chunk \in Nat \ {0}
  /\ MaxRate \in Nat /\ Timeout \in Nat /\ HealTime \in Nat
  /\ MaxBuffered \in Nat /\ Backlog \in Nat /\ MaxBuffered < Backlog
  /\ {Editor!Backspace, Editor!Newline, Editor!Ignored} \cap Printable = {}

VARIABLES
  pc,         \* the next pass over the connection
  open,       \* the connection is in the manager's list
  fate,       \* why it was last taken off the list
  phase,      \* seconds into the chunk
  fresh,      \* m_lastReceiveTime lies in this chunk
  rate,       \* m_datarate
  line,       \* the Telnet editor's line
  buffered,   \* size of m_sendbuffer
  waiting,    \* m_checksendtime
  sendAge,    \* seconds since m_lastSendTime, counted up to Timeout + 1
  closed,     \* m_closed
  active,     \* the player on the connection is active
  healIn,     \* seconds until m_nextheal
  gone,       \* the client has crashed: it sends nothing, reads nothing, closes nothing
  bytes,      \* history: bytes read from this client, by seconds ago in the last Chunk
  unread      \* history: seconds for which the client has left data unread

flow == <<rate, fresh>>
backlog == <<buffered, waiting, sendAge>>
history == <<bytes, unread>>
vars == <<pc, open, fate, phase, fresh, rate, line, buffered, waiting, sendAge,
          closed, active, healIn, gone, bytes, unread>>

Passes == <<"accept", "listen", "send", "check", "close", "loop">>
Fate == {"none", "flooded", "timeout", "overrun", "hungup", "swept"}

Total(b) == SumFunction(b)
Quiet == [i \in 1 .. Chunk |-> 0]

\* The least bound on what passes the test of the data rate in one chunk.
Allowance == Chunk * (MaxRate + 1) - 1

TypeOK ==
  /\ pc \in Range(Passes) /\ open \in BOOLEAN /\ fate \in Fate
  /\ phase \in 0 .. Chunk - 1 /\ fresh \in BOOLEAN /\ rate \in 0 .. Allowance + ReadSize
  /\ line \in BoundedSeq(Printable, LineSize)
  /\ buffered \in 0 .. Backlog /\ waiting \in BOOLEAN /\ sendAge \in 0 .. Timeout + 1
  /\ closed \in BOOLEAN /\ active \in BOOLEAN /\ healIn \in 0 .. HealTime
  /\ gone \in BOOLEAN
  /\ bytes \in [1 .. Chunk -> 0 .. Allowance + ReadSize] /\ unread \in 0 .. Timeout + 1

Init ==
  /\ pc = "accept" /\ open = FALSE /\ fate = "none"
  /\ phase = 0 /\ fresh = FALSE /\ rate = 0 /\ line = <<>>
  /\ buffered = 0 /\ waiting = FALSE /\ sendAge = 0
  /\ closed = FALSE /\ active = FALSE /\ healIn = HealTime
  /\ gone = FALSE /\ bytes = Quiet /\ unread = 0

-----------------------------------------------------------------------------
(* The methods of Connection. *)

\* Connection::Connection on an accepted socket: stamps of 1970, so that no
\* chunk is open; NewConnection then adds the Logon handler, which greets.
NewConnection ==
  /\ open' = TRUE /\ fate' = "none"
  /\ fresh' = FALSE /\ rate' = 0 /\ line' = <<>>
  /\ buffered' \in 1 .. MaxBuffered /\ waiting' = FALSE /\ sendAge' = Timeout + 1
  /\ closed' = FALSE /\ active' = FALSE
  /\ gone' = FALSE /\ bytes' = Quiet /\ unread' = 0

\* The first read of a chunk starts the count again.
Metered(n) == rate' = (IF fresh THEN rate ELSE 0) + n /\ fresh' = TRUE

\* Variant: the limit itself is too much.
TooFastAtLimit(r) == r \div Chunk >= MaxRate

\* Variant: the rate of the chunk that is over.
TooFastBefore(r) == ~fresh /\ rate \div Chunk > MaxRate

\* GetCurrentDataRate() > m_maxdatarate.
TooFast(r) == r \div Chunk > MaxRate

\* Variant: the flag is not consulted.
TooLateUnasked == sendAge > Timeout

\* GetLastSendTime() > m_sendtimeout.
TooLate == waiting /\ sendAge > Timeout

\* Variant: a failed send stamps the time again.
SentStampsAgain(k) == buffered' = buffered - k /\ waiting' = (k = 0) /\ sendAge' = 0

\* SendBuffer, when the socket takes k bytes.
Sent(k) ==
  /\ buffered' = buffered - k
  /\ IF k > 0 THEN waiting' = FALSE /\ sendAge' = 0
     ELSE waiting' = TRUE /\ sendAge' = IF waiting THEN sendAge ELSE 0

\* Close(itr): off the socket set and off the list.
Erase(why) == open' = FALSE /\ fate' = why

-----------------------------------------------------------------------------
(* The passes of one turn of main()'s loop. *)

Turn(p, q) == pc = p /\ pc' = q

Rest == <<phase, healIn>>

Accept ==
  /\ Turn("accept", "listen")
  /\ \/ ~open /\ NewConnection /\ UNCHANGED Rest
     \/ UNCHANGED <<open, fate, line, closed, active, gone, flow, backlog, history, Rest>>

\* What the handler does with the lines: it may answer, close the connection,
\* let the player in or out.
Handled(lines) ==
  IF lines = <<>> THEN UNCHANGED <<buffered, closed, active>>
  ELSE /\ buffered' \in buffered .. Backlog
       /\ closed' \in {closed, TRUE}
       /\ active' \in BOOLEAN

Receive ==
  /\ Turn("listen", "send")
  /\ open /\ ~gone
  /\ \E received \in BoundedSeq(Editor!Byte, ReadSize) \ {<<>>} :
       LET n == Len(received)
           typed == Editor!Translate(line, received)
       IN  /\ Metered(n)
           /\ line' = typed.line
           /\ Handled(typed.out)
           /\ bytes' = [bytes EXCEPT ![1] = @ + n]
           /\ IF TooFast(rate') THEN Erase("flooded") ELSE UNCHANGED <<open, fate>>
  /\ UNCHANGED <<gone, waiting, sendAge, unread, Rest>>

\* recv returns 0 or an error.
Disconnect ==
  /\ Turn("listen", "send")
  /\ open /\ ~gone
  /\ Erase("hungup")
  /\ UNCHANGED <<line, closed, active, gone, flow, backlog, history, Rest>>

Idle ==
  /\ Turn("listen", "send")
  /\ UNCHANGED <<open, fate, line, closed, active, gone, flow, backlog, history, Rest>>

Send ==
  /\ Turn("send", "check")
  /\ IF open /\ buffered > 0
     THEN \E k \in IF gone THEN {0} ELSE 0 .. buffered :
            Sent(k) /\ unread' = IF k > 0 THEN 0 ELSE unread
     ELSE UNCHANGED <<backlog, unread>>
  /\ UNCHANGED <<open, fate, line, closed, active, gone, flow, bytes, Rest>>

\* send fails with anything but "would block".
SendFails ==
  /\ Turn("send", "check")
  /\ open /\ buffered > 0
  /\ Erase("hungup")
  /\ UNCHANGED <<line, closed, active, gone, flow, backlog, history, Rest>>

Check ==
  /\ Turn("check", "close")
  /\ IF open /\ buffered > MaxBuffered THEN Erase("overrun")
     ELSE IF open /\ TooLate THEN Erase("timeout")
     ELSE UNCHANGED <<open, fate>>
  /\ UNCHANGED <<line, closed, active, gone, flow, backlog, history, Rest>>

CloseConnections ==
  /\ Turn("close", "loop")
  /\ IF open /\ closed THEN Erase("swept") ELSE UNCHANGED <<open, fate>>
  /\ UNCHANGED <<line, closed, active, gone, flow, backlog, history, Rest>>

\* PrintStatbar(true): not while the player is typing.
Statbar ==
  IF open /\ active /\ line = <<>> /\ buffered < Backlog
  THEN buffered' = buffered + 1 ELSE UNCHANGED buffered

\* PerformHeal.
Loop ==
  /\ Turn("loop", "accept")
  /\ IF healIn = 0 THEN healIn' = HealTime /\ Statbar
     ELSE UNCHANGED <<healIn, buffered>>
  /\ UNCHANGED <<open, fate, phase, line, closed, active, gone, flow, waiting, sendAge, history>>

Pass ==
  \/ Accept \/ Receive \/ Disconnect \/ Idle \/ Send \/ SendFails
  \/ Check \/ CloseConnections \/ Loop

-----------------------------------------------------------------------------
(* The world around the connection. *)

\* A line of another player, or the game: something to read, a kick, a takeover.
Others ==
  /\ open /\ pc # "check"
  /\ \/ buffered < Backlog /\ buffered' = buffered + 1 /\ UNCHANGED closed
     \/ closed' = TRUE /\ UNCHANGED buffered
  /\ UNCHANGED <<pc, open, fate, line, active, gone, flow, waiting, sendAge, history, Rest>>

Crash ==
  /\ open /\ ~gone
  /\ gone' = TRUE
  /\ UNCHANGED <<pc, open, fate, line, closed, active, flow, backlog, history, Rest>>

UpTo(n, max) == IF n < max THEN n + 1 ELSE max

Tick ==
  /\ phase' = (phase + 1) % Chunk
  /\ fresh' = (fresh /\ phase + 1 < Chunk)
  /\ sendAge' = UpTo(sendAge, Timeout + 1)
  /\ healIn' = IF healIn = 0 THEN 0 ELSE healIn - 1
  /\ bytes' = [i \in 1 .. Chunk |-> IF i = 1 THEN 0 ELSE bytes[i - 1]]
  /\ unread' = IF open /\ buffered > 0 THEN UpTo(unread, Timeout + 1) ELSE 0
  /\ UNCHANGED <<pc, open, fate, rate, line, buffered, waiting, closed, active, gone>>

Next == Pass \/ Others \/ Crash \/ Tick

Spec == Init /\ [][Next]_vars

\* The loop never stops turning and the clock never stops.
FairSpec == Spec /\ WF_vars(Pass) /\ WF_vars(Tick)

-----------------------------------------------------------------------------
(* Properties. *)

\* The test of the data rate is an average over a chunk, so that a client may
\* spend the allowance of two chunks back to back; more than that within the
\* length of a chunk never passes.
BurstBound == open => Total(bytes) <= 2 * Allowance

\* A client is cut off for not reading only when it has taken nothing, with
\* data waiting all the time, for longer than the send timeout.
TimeoutIsDeserved == [][fate # "timeout" /\ fate' = "timeout" => unread > Timeout]_vars

\* A crashed client does not keep its player in the game forever: if data waits
\* for it, or if its player is in the game with no half-typed line in front of
\* the status bars of PerformHeal, then it is taken off the list.
CrashedAreDropped ==
  (open /\ gone /\ (buffered > 0 \/ (active /\ line = <<>>))) ~> ~open

\* The manager implements the meter: a chunk's first read starts a period.
Meter == INSTANCE Meter WITH
  MaxRead <- ReadSize, connected <- open, used <- IF fresh THEN rate ELSE 0

ImplementsMeter == Meter!Spec
=============================================================================
