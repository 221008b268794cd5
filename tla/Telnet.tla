------------------------------- MODULE Telnet -------------------------------
(***************************************************************************)
(* The line editor in front of every protocol handler: SocketLib's Telnet  *)
(* policy turns received bytes into lines.  A connection has one editor,   *)
(* which keeps the line typed so far between two calls of Translate.       *)
(***************************************************************************)
EXTENDS Naturals, Sequences, SequencesExt, FiniteSets

CONSTANTS
  Printable,   \* bytes from 32 up to 126
  LineSize     \* BUFFERSIZE, the capacity of m_buffer

Backspace == "bs"       \* byte 8
Newline == "nl"         \* '\n' or '\r'
Ignored == "ctl"        \* other control bytes, 127 and the bytes a signed char makes negative

Byte == Printable \cup {Backspace, Newline, Ignored}

HasRoom(b) == Len(b) < LineSize

\* Variant: m_buffersize is not reset to 0 but moved back by the newline.
EndedKept(t) ==
  [line |-> IF t.line = <<>> THEN <<>> ELSE <<Last(t.line)>>,
   out |-> IF t.line = <<>> THEN t.out ELSE Append(t.out, t.line)]

\* A newline: a line that is not empty goes to the handler.
Ended(t) ==
  [line |-> <<>>, out |-> IF t.line = <<>> THEN t.out ELSE Append(t.out, t.line)]

\* What Translate does with one byte: `line' is m_buffer up to m_buffersize,
\* `out' the lines given to the handler.
Type(t, b) ==
  IF b \in Printable /\ HasRoom(t.line) THEN [t EXCEPT !.line = Append(@, b)]
  ELSE IF b = Backspace /\ t.line # <<>> THEN [t EXCEPT !.line = Front(@)]
  ELSE IF b = Newline THEN Ended(t)
  ELSE t

Translate(begun, input) == FoldLeft(Type, [line |-> begun, out |-> <<>>], input)

-----------------------------------------------------------------------------
(* A definition without an editor, for inputs that never meet a full line. *)

Count(input, i, j, B) == Cardinality({k \in i .. j : input[k] \in B})

\* A typed byte survives until some stretch after it has more backspaces than
\* printable bytes, and a backspace reaches no further than its own line.
Survives(input, i, e) ==
  /\ input[i] \in Printable
  /\ \A j \in i .. e :
       Count(input, i + 1, j, {Backspace}) <= Count(input, i + 1, j, Printable)

\* The k-th number of S.
Nth(S, k) == CHOOSE e \in S : Cardinality({x \in S : x < e}) = k - 1

Kept(input, b, e) == {i \in b .. e : Survives(input, i, e)}

Survivors(input, b, e) ==
  LET kept == Kept(input, b, e)
  IN  [k \in 1 .. Cardinality(kept) |-> input[Nth(kept, k)]]

Newlines(input) == {0} \cup {i \in DOMAIN input : input[i] = Newline}

\* The last newline before e.
Start(input, e) ==
  CHOOSE b \in Newlines(input) : b < e /\ \A x \in Newlines(input) : x < e => x <= b

\* What stands between the newline at e and the one before it.
LineAt(input, e) == Survivors(input, Start(input, e) + 1, e - 1)

\* The nonempty lines between two newlines, in order.
TypedLines(input) ==
  LET full == {e \in Newlines(input) \ {0} : LineAt(input, e) # <<>>}
  IN  [k \in 1 .. Cardinality(full) |-> LineAt(input, Nth(full, k))]

\* Bytes that never find the line full.
Fits(input) ==
  \A i \in DOMAIN input : Len(Survivors(input, Start(input, i) + 1, i)) <= LineSize

\* A handler sees exactly the lines the client typed, backspaces applied, as
\* long as the line buffer suffices; and whatever the bytes, no line is empty
\* or longer than the buffer.
LinesAreTyped(input) ==
  LET t == Translate(<<>>, input)
  IN  /\ Fits(input) => t.out = TypedLines(input)
      /\ \A i \in DOMAIN t.out : Len(t.out[i]) \in 1 .. LineSize
=============================================================================
