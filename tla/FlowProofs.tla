----------------------------- MODULE FlowProofs -----------------------------
(***************************************************************************)
(* For every length of a chunk, limit and timeout: the connection manager  *)
(* implements the meter, no client spends more than two allowances within  *)
(* the length of a chunk, and one is cut off for not reading only when it  *)
(* read nothing for longer than the timeout.  For every length of a line   *)
(* buffer: the lines that fit are given to the handler as they were typed. *)
(***************************************************************************)
EXTENDS MCFlowControl, Induction

\* An average above the limit is a sum above the allowance.
LEMMA AverageAndSum ==
  ASSUME NEW r \in Nat
  PROVE  TooFast(r) <=> r > Allowance
<1> DEFINE q == r \div Chunk
<1>1. Chunk \in Nat \ {0} /\ MaxRate \in Nat BY FlowAssumption
<1>2. q \in Nat /\ Chunk * q <= r /\ r < Chunk * (q + 1) BY <1>1
<1>3. CASE q > MaxRate
  <2>1. Chunk * q >= Chunk * (MaxRate + 1) BY <1>1, <1>2, <1>3
  <2> QED BY <1>1, <1>2, <1>3, <2>1 DEF TooFast, Allowance
<1>4. CASE q <= MaxRate
  <2>1. Chunk * (q + 1) <= Chunk * (MaxRate + 1) BY <1>1, <1>2, <1>4
  <2> QED BY <1>1, <1>2, <1>4, <2>1 DEF TooFast, Allowance
<1> QED BY <1>1, <1>2, <1>3, <1>4

LEMMA ReadLength ==
  ASSUME NEW S, NEW received \in BoundedSeq(S, ReadSize) \ {<<>>}
  PROVE  Len(received) \in 1 .. ReadSize
BY FlowAssumption DEF BoundedSeq, SeqOf

-----------------------------------------------------------------------------
(* The meter. *)

RateOK == rate \in Nat

LEMMA RateInit == Init => RateOK
BY DEF Init, RateOK

LEMMA RateStep == RateOK /\ [Next]_vars => RateOK'
<1> SUFFICES ASSUME RateOK, [Next]_vars PROVE RateOK' OBVIOUS
<1> USE DEF RateOK
<1>1. CASE Accept BY <1>1 DEF Accept, NewConnection, flow
<1>2. CASE Receive BY <1>2, ReadLength DEF Receive, Metered, Erase
<1>3. CASE Disconnect \/ SendFails BY <1>3 DEF Disconnect, SendFails, Erase, flow
<1>4. CASE Idle BY <1>4 DEF Idle, flow
<1>5. CASE Send BY <1>5 DEF Send, flow
<1>6. CASE Check BY <1>6 DEF Check, Erase, flow
<1>7. CASE CloseConnections BY <1>7 DEF CloseConnections, Erase, flow
<1>8. CASE Loop BY <1>8 DEF Loop, flow
<1>9. CASE Others \/ Crash BY <1>9 DEF Others, Crash, flow
<1>10. CASE Tick BY <1>10 DEF Tick
<1>11. CASE UNCHANGED vars BY <1>11 DEF vars
<1> QED BY <1>1, <1>2, <1>3, <1>4, <1>5, <1>6, <1>7, <1>8, <1>9, <1>10, <1>11 DEF Next, Pass

LEMMA MeterInit == Init => Meter!Init
BY DEF Init, Meter!Init

LEMMA MeterStep == RateOK /\ [Next]_vars => [Meter!Next]_Meter!metered
<1> SUFFICES ASSUME RateOK, [Next]_vars PROVE [Meter!Next]_Meter!metered OBVIOUS
<1> USE DEF RateOK
<1>1. CASE Accept
  BY <1>1 DEF Accept, NewConnection, flow, Meter!Next, Meter!Join, Meter!metered
<1>2. CASE Receive
  <2>1. PICK received \in BoundedSeq(Editor!Byte, ReadSize) \ {<<>>} :
          /\ Metered(Len(received))
          /\ IF TooFast(rate') THEN Erase("flooded") ELSE UNCHANGED <<open, fate>>
    BY <1>2 DEF Receive
  <2> DEFINE n == Len(received)
             used == IF fresh THEN rate ELSE 0
  <2>2. n \in 1 .. ReadSize BY ReadLength
  <2>3. rate' = used + n /\ fresh' = TRUE /\ rate' \in Nat BY <2>1, <2>2 DEF Metered
  <2>4. TooFast(rate') <=> rate' > Allowance BY <2>3, AverageAndSum
  <2>5. Allowance \in Int BY FlowAssumption DEF Allowance
  <2>6. CASE TooFast(rate')
    BY <1>2, <2>1, <2>2, <2>3, <2>4, <2>5, <2>6 DEF Receive, Erase, Meter!Next, Meter!Refuse
  <2>7. CASE ~TooFast(rate')
    BY <1>2, <2>1, <2>2, <2>3, <2>4, <2>5, <2>7 DEF Receive, Meter!Next, Meter!Take
  <2> QED BY <2>6, <2>7
<1>3. CASE Disconnect \/ SendFails
  BY <1>3 DEF Disconnect, SendFails, Erase, flow, Meter!Next, Meter!Leave
<1>4. CASE Idle BY <1>4 DEF Idle, flow, Meter!metered
<1>5. CASE Send BY <1>5 DEF Send, flow, Meter!metered
<1>6. CASE Check BY <1>6 DEF Check, Erase, flow, Meter!Next, Meter!Leave, Meter!metered
<1>7. CASE CloseConnections
  BY <1>7 DEF CloseConnections, Erase, flow, Meter!Next, Meter!Leave, Meter!metered
<1>8. CASE Loop BY <1>8 DEF Loop, flow, Meter!metered
<1>9. CASE Others \/ Crash BY <1>9 DEF Others, Crash, flow, Meter!metered
<1>10. CASE Tick BY <1>10 DEF Tick, Meter!Next, Meter!Period, Meter!metered
<1>11. CASE UNCHANGED vars BY <1>11 DEF vars, Meter!metered
<1> QED BY <1>1, <1>2, <1>3, <1>4, <1>5, <1>6, <1>7, <1>8, <1>9, <1>10, <1>11 DEF Next, Pass

\* The manager implements the meter: the chunk's count is reset by the first
\* read of a chunk, and the read that exceeds the allowance is the last.
THEOREM FlowImplementsMeter == Spec => ImplementsMeter
<1>1. Spec => []RateOK BY RateInit, RateStep, PTL DEF Spec
<1> QED BY <1>1, MeterInit, MeterStep, PTL DEF Spec, ImplementsMeter, Meter!Spec

\* A client that is still connected has sent no more than the allowance in the
\* chunk that its stamp lies in.
THEOREM SurvivorsWithinAllowance == Spec => []Meter!WithinAllowance
<1>1. Init => Meter!WithinAllowance BY DEF Init, Meter!WithinAllowance
<1>2. RateOK /\ Meter!WithinAllowance /\ [Next]_vars => Meter!WithinAllowance'
  <2> SUFFICES ASSUME RateOK, Meter!WithinAllowance, [Next]_vars
               PROVE  Meter!WithinAllowance'
    OBVIOUS
  <2>1. [Meter!Next]_Meter!metered BY MeterStep
  <2>2. Allowance \in Nat
    <3>1. Chunk * (MaxRate + 1) >= 1 BY FlowAssumption
    <3> QED BY <3>1, FlowAssumption DEF Allowance
  <2> DEFINE used == IF fresh THEN rate ELSE 0
  <2>3. used' = 0 \/ ~open' \/ used' <= Allowance
    <3>1. CASE Meter!Join \/ Meter!Period BY <3>1 DEF Meter!Join, Meter!Period
    <3>2. CASE Meter!Leave BY <3>2 DEF Meter!Leave
    <3>3. ASSUME NEW n \in 1 .. ReadSize, Meter!Take(n) PROVE used' <= Allowance
      <4>1. used + n <= Allowance /\ used' = used + n BY <3>3 DEF Meter!Take
      <4> QED BY <4>1
    <3>4. ASSUME NEW n \in 1 .. ReadSize, Meter!Refuse(n) PROVE ~open'
      BY <3>4 DEF Meter!Refuse
    <3>5. CASE UNCHANGED Meter!metered BY <3>5 DEF Meter!metered, Meter!WithinAllowance
    <3> QED BY <2>1, <3>1, <3>2, <3>3, <3>4, <3>5 DEF Meter!Next
  <2> HIDE DEF used
  <2>4. open' => used' <= Allowance BY <2>2, <2>3
  <2> QED BY <2>4 DEF used, Meter!WithinAllowance
<1>3. Spec => []RateOK BY RateInit, RateStep, PTL DEF Spec
<1> QED BY <1>1, <1>2, <1>3, PTL DEF Spec

-----------------------------------------------------------------------------
(* The last Chunk seconds. *)

\* The bytes read in the last n seconds.
Recent(n) == SumOver(bytes, 1 .. n)
Used == IF fresh THEN rate ELSE 0

\* What the meter has counted is what was read since the chunk began, and what
\* was read before that, less than a chunk ago, passed the test of its chunk.
Metering ==
  /\ rate \in Nat /\ phase \in 0 .. Chunk - 1 /\ bytes \in [1 .. Chunk -> Nat]
  /\ open => /\ Recent(phase + 1) = Used /\ Used <= Allowance
             /\ Recent(Chunk) <= Used + Allowance

LEMMA AllowanceIsNat == Allowance \in Nat /\ Chunk \in Nat \ {0} /\ MaxRate \in Nat
<1>1. Chunk \in Nat \ {0} /\ MaxRate \in Nat BY FlowAssumption
<1>2. Chunk * (MaxRate + 1) \in Nat /\ Chunk * (MaxRate + 1) >= 1 BY <1>1
<1> QED BY <1>1, <1>2 DEF Allowance

LEMMA SecondsAreFinite ==
  ASSUME NEW n \in Nat
  PROVE  IsFiniteSet(1 .. n)
BY FS_Interval

LEMMA QuietSums ==
  ASSUME NEW n \in 0 .. Chunk
  PROVE  SumOver(Quiet, 1 .. n) = 0
<1>1. n \in Nat /\ Chunk \in Nat BY AllowanceIsNat
<1> DEFINE P == {k \in 0 .. n : SumOver(Quiet, 1 .. k) = 0}
<1>2. 0 \in P
  <2>1. 1 .. 0 = {} OBVIOUS
  <2> QED BY <1>1, <2>1, SumEmpty
<1>3. ASSUME NEW k \in 0 .. n - 1, k \in P PROVE k + 1 \in P
  <2>1. k \in Nat /\ k + 1 \in 1 .. k + 1 /\ (1 .. k + 1) \ {k + 1} = 1 .. k /\ k + 1 \in 0 .. n
    BY <1>1
  <2>2. IsFiniteSet(1 .. k + 1) BY <2>1, SecondsAreFinite
  <2>3. \A i \in 1 .. k + 1 : Quiet[i] = 0 BY <1>1, <2>1 DEF Quiet
  <2>4. SumOver(Quiet, 1 .. k + 1) = Quiet[k + 1] + SumOver(Quiet, (1 .. k + 1) \ {k + 1})
    BY <2>1, <2>2, <2>3, SumElement
  <2>5. Quiet[k + 1] = 0 /\ SumOver(Quiet, 1 .. k) = 0 BY <1>3, <2>1, <2>3
  <2>6. SumOver(Quiet, (1 .. k + 1) \ {k + 1}) = 0 BY <2>1, <2>5, Zenon
  <2>7. SumOver(Quiet, 1 .. k + 1) = 0 BY <2>4, <2>5, <2>6
  <2> QED BY <2>1, <2>7
<1> HIDE DEF P
<1>4. \A k \in 0 .. n : k \in P BY <1>1, <1>2, <1>3, NumbersUpTo
<1>5. n \in 0 .. n BY <1>1
<1> QED BY <1>4, <1>5 DEF P

LEMMA Remainders ==
  ASSUME NEW c \in Nat \ {0}, NEW a \in 0 .. c - 1
  PROVE  a % c = a /\ c % c = 0
OBVIOUS

LEMMA MeteringInit == Init => Metering
<1> SUFFICES ASSUME Init PROVE Metering OBVIOUS
<1>1. Quiet \in [1 .. Chunk -> Nat] BY DEF Quiet
<1>2. 0 \in 0 .. Chunk - 1 BY AllowanceIsNat
<1> QED BY <1>1, <1>2 DEF Init, Metering

\* A read is counted once, in the second it falls into.
LEMMA ReadIsCounted ==
  ASSUME bytes \in [1 .. Chunk -> Nat], NEW n \in Nat, NEW k \in 1 .. Chunk,
         bytes' = [bytes EXCEPT ![1] = @ + n]
  PROVE  Recent(k) \in Int /\ Recent(k)' = Recent(k) + n
<1> DEFINE S == 1 .. k
           before == bytes
           later == bytes'
<1>1. Chunk \in Nat /\ k \in Nat /\ 1 \in S /\ S \subseteq 1 .. Chunk BY AllowanceIsNat
<1>2. IsFiniteSet(S) BY <1>1, SecondsAreFinite
<1>3. later \in [1 .. Chunk -> Nat] /\ later[1] = before[1] + n BY <1>1
<1>4. \A i \in S \ {1} : later[i] = before[i] BY <1>1
<1>5. \A i \in S : before[i] \in Int /\ later[i] \in Int BY <1>1, <1>3
<1>6. Recent(k) = SumOver(before, S) /\ Recent(k)' = SumOver(later, S) BY DEF Recent
<1> HIDE DEF S, before, later
<1>7. SumOver(before, S) \in Int BY <1>2, <1>5, SumType
<1>8. \A x \in S : (\A i \in S \ {x} : later[i] = before[i]) =>
        SumOver(later, S) = SumOver(before, S) - before[x] + later[x]
  BY <1>2, <1>5, SumChange
<1>9. SumOver(later, S) = SumOver(before, S) - before[1] + later[1] BY <1>1, <1>4, <1>8
<1>10. before[1] \in Int BY <1>1, <1>5
<1> QED BY <1>3, <1>6, <1>7, <1>9, <1>10

\* A second later the last k + 1 seconds are what the last k were.
LEMMA SecondsMoveOn ==
  ASSUME bytes \in [1 .. Chunk -> Nat], NEW k \in 0 .. Chunk - 1, Tick
  PROVE  Recent(k) \in Int /\ Recent(k + 1)' = Recent(k)
<1> DEFINE later == bytes'
           n == k + 1
<1>1. Chunk \in Nat /\ n \in Nat /\ 1 \in 1 .. n /\ n - 1 = k /\ k \in Nat BY AllowanceIsNat
<1>2. later = [i \in 1 .. Chunk |-> IF i = 1 THEN 0 ELSE bytes[i - 1]] BY DEF Tick
<1>3. \A i \in 1 .. n : later[i] \in Int
  <2>1. \A i \in 1 .. n : i \in 1 .. Chunk /\ (i # 1 => i - 1 \in 1 .. Chunk) BY <1>1
  <2> QED BY <1>2, <2>1
<1>4. \A i \in 1 .. n - 1 : bytes[i] = IF i < 1 THEN later[i] ELSE later[i + 1]
  <2>1. \A i \in 1 .. k : i + 1 \in 1 .. Chunk /\ ~(i < 1) /\ i + 1 # 1 /\ (i + 1) - 1 = i BY <1>1
  <2> QED BY <1>1, <1>2, <2>1
<1>5. later[1] = 0 BY <1>1, <1>2
<1>6. IsFiniteSet(1 .. k) /\ \A i \in 1 .. k : bytes[i] \in Int
  BY <1>1, SecondsAreFinite
<1>7. Recent(k) = SumOver(bytes, 1 .. n - 1) /\ Recent(k + 1)' = SumOver(later, 1 .. n)
  BY <1>1 DEF Recent
<1>8. Recent(k) \in Int BY <1>6, SumType DEF Recent
<1> HIDE DEF later, n
<1>9. SumOver(later, 1 .. n) = later[1] + SumOver(bytes, 1 .. n - 1)
  BY <1>1, <1>3, <1>4, SumWithout
<1> QED BY <1>5, <1>7, <1>8, <1>9

\* The second that falls out of the window takes nothing away but its bytes.
LEMMA LongerIsMore ==
  ASSUME bytes \in [1 .. Chunk -> Nat]
  PROVE  Recent(Chunk) \in Int /\ Recent(Chunk - 1) \in Int
         /\ Recent(Chunk - 1) <= Recent(Chunk)
<1> DEFINE S == 1 .. Chunk
<1>1. /\ Chunk \in Nat /\ Chunk \in S /\ S \ {Chunk} = 1 .. Chunk - 1 /\ Chunk - 1 \in Nat
  BY AllowanceIsNat
<1>2. IsFiniteSet(S) /\ IsFiniteSet(1 .. Chunk - 1) BY <1>1, SecondsAreFinite
<1>3. (\A i \in S : bytes[i] \in Int) /\ \A i \in 1 .. Chunk - 1 : bytes[i] \in Int BY <1>1
<1>4. bytes[Chunk] \in Nat BY <1>1
<1>5. Recent(Chunk) = SumOver(bytes, S) /\ Recent(Chunk - 1) = SumOver(bytes, S \ {Chunk})
  BY <1>1 DEF Recent
<1>6. Recent(Chunk) \in Int /\ Recent(Chunk - 1) \in Int BY <1>2, <1>3, SumType DEF Recent
<1> HIDE DEF S
<1>7. SumOver(bytes, S) = bytes[Chunk] + SumOver(bytes, S \ {Chunk})
  BY <1>1, <1>2, <1>3, SumElement
<1> QED BY <1>4, <1>5, <1>6, <1>7

LEMMA MeteringStep == Metering /\ [Next]_vars => Metering'
<1> SUFFICES ASSUME Metering, [Next]_vars PROVE Metering' OBVIOUS
<1>1. /\ rate \in Nat /\ phase \in 0 .. Chunk - 1 /\ bytes \in [1 .. Chunk -> Nat]
      /\ Chunk \in Nat \ {0} /\ phase + 1 \in 1 .. Chunk /\ Chunk \in 1 .. Chunk
      /\ Allowance \in Nat
  BY AllowanceIsNat DEF Metering
<1>2. open => /\ Recent(phase + 1) = Used /\ Used <= Allowance
              /\ Recent(Chunk) <= Used + Allowance
  BY DEF Metering
<1>3. Used \in Nat BY <1>1 DEF Used
<1>4. ASSUME open' => open, UNCHANGED <<rate, fresh, phase, bytes>> PROVE Metering'
  BY <1>4 DEF Metering, Recent, Used
<1>5. CASE Accept
  <2>1. CASE NewConnection /\ UNCHANGED phase
    <3>1. rate' = 0 /\ fresh' = FALSE /\ bytes' = Quiet BY <2>1 DEF NewConnection
    <3>2. Quiet \in [1 .. Chunk -> Nat] BY DEF Quiet
    <3>3. phase + 1 \in 0 .. Chunk /\ Chunk \in 0 .. Chunk BY <1>1
    <3>4. Recent(phase + 1)' = 0 /\ Recent(Chunk)' = 0
      BY <2>1, <3>1, <3>3, QuietSums DEF Recent
    <3>5. Used' = 0 BY <3>1 DEF Used
    <3> QED BY <1>1, <2>1, <3>1, <3>2, <3>4, <3>5 DEF Metering
  <2>2. CASE UNCHANGED <<open, rate, fresh, phase, bytes>> BY <1>4, <2>2
  <2> QED BY <1>5, <2>1, <2>2 DEF Accept, flow, history, Rest
<1>6. CASE Receive
  <2>1. PICK received \in BoundedSeq(Editor!Byte, ReadSize) \ {<<>>} :
          /\ Metered(Len(received))
          /\ bytes' = [bytes EXCEPT ![1] = @ + Len(received)]
          /\ IF TooFast(rate') THEN Erase("flooded") ELSE UNCHANGED <<open, fate>>
    BY <1>6 DEF Receive
  <2> DEFINE n == Len(received)
  <2>2. n \in Nat
    <3>1. ReadSize \in Nat /\ n \in 1 .. ReadSize BY ReadLength, FlowAssumption
    <3> QED BY <3>1
  <2>3. open /\ UNCHANGED phase BY <1>6 DEF Receive, Rest
  <2>4. rate' = Used + n /\ fresh' = TRUE /\ rate' \in Nat BY <1>3, <2>1, <2>2 DEF Metered, Used
  <2>5. Used' = Used + n BY <2>4 DEF Used
  <2>6. bytes' = [bytes EXCEPT ![1] = @ + n] /\ bytes' \in [1 .. Chunk -> Nat]
    BY <1>1, <2>1, <2>2
  <2> HIDE DEF n
  <2>7. /\ Recent(Chunk) \in Int /\ Recent(Chunk)' = Recent(Chunk) + n
        /\ Recent(phase + 1)' = Used + n
    <3>1. \A k \in 1 .. Chunk : Recent(k) \in Int /\ Recent(k)' = Recent(k) + n
      BY <1>1, <2>2, <2>6, ReadIsCounted
    <3>2. Recent(phase + 1)' = SumOver(bytes', 1 .. phase + 1) BY <2>3 DEF Recent
    <3>3. \A k \in 1 .. Chunk : SumOver(bytes', 1 .. k) = Recent(k) + n
      BY <3>1 DEF Recent
    <3>4. Recent(phase + 1)' = Recent(phase + 1) + n BY <1>1, <3>2, <3>3
    <3> QED BY <1>1, <1>2, <2>3, <3>1, <3>4
  <2>8. open' => Used + n <= Allowance
    <3>1. TooFast(rate') <=> rate' > Allowance BY <2>4, AverageAndSum
    <3>2. open' => ~TooFast(rate') BY <2>1 DEF Erase
    <3> QED BY <1>1, <2>4, <3>1, <3>2
  <2>9. Recent(Chunk)' <= (Used + n) + Allowance
    BY <1>1, <1>2, <1>3, <2>2, <2>3, <2>7
  <2> QED BY <1>1, <2>3, <2>4, <2>5, <2>6, <2>7, <2>8, <2>9 DEF Metering
<1>7. CASE Tick
  <2>1. /\ phase' = (phase + 1) % Chunk /\ fresh' = (fresh /\ phase + 1 < Chunk)
        /\ UNCHANGED <<open, rate>>
        /\ bytes' = [i \in 1 .. Chunk |-> IF i = 1 THEN 0 ELSE bytes[i - 1]]
    BY <1>7 DEF Tick
  <2>2. bytes' \in [1 .. Chunk -> Nat]
    <3>1. \A i \in 1 .. Chunk : i # 1 => i - 1 \in 1 .. Chunk BY <1>1
    <3> QED BY <1>1, <2>1, <3>1
  <2>3. \A k \in 0 .. Chunk - 1 : Recent(k) \in Int /\ SumOver(bytes', 1 .. k + 1) = Recent(k)
    BY <1>1, <1>7, SecondsMoveOn DEF Recent
  <2>4. /\ Recent(Chunk) \in Int /\ Recent(Chunk)' \in Int
        /\ Recent(Chunk)' <= Recent(Chunk)
    <3>1. Chunk - 1 \in 0 .. Chunk - 1 /\ (Chunk - 1) + 1 = Chunk BY <1>1
    <3>2. Recent(Chunk)' = Recent(Chunk - 1) BY <2>3, <3>1 DEF Recent
    <3> QED BY <1>1, <3>2, LongerIsMore
  <2>5. CASE phase + 1 < Chunk
    <3>1. phase' = phase + 1 /\ phase + 1 \in 0 .. Chunk - 1
      <4>1. phase + 1 \in 0 .. Chunk - 1 BY <1>1, <2>5
      <4> QED BY <1>1, <2>1, <4>1, Remainders
    <3>2. Used' = Used BY <2>1, <2>5 DEF Used
    <3>3. Recent(phase + 1)' = SumOver(bytes', 1 .. (phase + 1) + 1) BY <3>1 DEF Recent
    <3>4. Recent(phase + 1)' = Recent(phase + 1) BY <2>3, <3>1, <3>3
    <3>5. open' => Recent(Chunk)' <= Used + Allowance BY <1>1, <1>2, <1>3, <2>1, <2>4
    <3> QED BY <1>1, <1>2, <2>1, <2>2, <3>1, <3>2, <3>4, <3>5 DEF Metering
  <2>6. CASE ~(phase + 1 < Chunk)
    <3>1. phase + 1 = Chunk /\ phase' = 0 /\ 0 \in 0 .. Chunk - 1
      <4>1. phase + 1 = Chunk /\ 0 \in 0 .. Chunk - 1 BY <1>1, <2>6
      <4> QED BY <1>1, <2>1, <4>1, Remainders
    <3>2. Used' = 0 BY <2>1, <2>6 DEF Used
    <3>3. Recent(0) = 0
      <4>1. 1 .. 0 = {} OBVIOUS
      <4> QED BY <4>1, SumEmpty DEF Recent
    <3>4. Recent(phase + 1)' = SumOver(bytes', 1 .. 0 + 1) BY <3>1 DEF Recent
    <3>5. Recent(phase + 1)' = 0 BY <2>3, <3>1, <3>3, <3>4
    <3>6. open => Recent(Chunk) <= Allowance
      <4>1. Recent(phase + 1) = Recent(Chunk) BY <3>1
      <4> QED BY <1>1, <1>2, <1>3, <2>4, <4>1
    <3>7. open' => Recent(Chunk)' <= 0 + Allowance BY <1>1, <2>1, <2>4, <3>6
    <3> QED BY <1>1, <2>1, <2>2, <3>1, <3>2, <3>5, <3>7 DEF Metering
  <2> QED BY <2>5, <2>6
<1>8. CASE Disconnect \/ SendFails
  <2>1. open' = FALSE /\ UNCHANGED <<rate, fresh, phase, bytes>>
    BY <1>8 DEF Disconnect, SendFails, Erase, flow, history, Rest
  <2> QED BY <1>4, <2>1
<1>9. CASE Idle BY <1>4, <1>9 DEF Idle, flow, history, Rest
<1>10. CASE Send BY <1>4, <1>10 DEF Send, flow, Rest
<1>11. CASE Check BY <1>4, <1>11 DEF Check, Erase, flow, history, Rest
<1>12. CASE CloseConnections BY <1>4, <1>12 DEF CloseConnections, Erase, flow, history, Rest
<1>13. CASE Loop BY <1>4, <1>13 DEF Loop, flow, history
<1>14. CASE Others \/ Crash BY <1>4, <1>14 DEF Others, Crash, flow, history, Rest
<1>15. CASE UNCHANGED vars BY <1>4, <1>15 DEF vars
<1> QED BY <1>5, <1>6, <1>7, <1>8, <1>9, <1>10, <1>11, <1>12, <1>13, <1>14, <1>15
        DEF Next, Pass

\* Two allowances back to back are the worst a client gets past the data rate
\* within the length of a chunk, wherever the second's boundaries fall.
THEOREM BurstsAreBounded == Spec => []BurstBound
<1>1. Metering => BurstBound
  <2> SUFFICES ASSUME Metering, open PROVE Total(bytes) <= 2 * Allowance BY DEF BurstBound
  <2>1. DOMAIN bytes = 1 .. Chunk /\ bytes \in [1 .. Chunk -> Nat] BY DEF Metering
  <2>2. Total(bytes) = Recent(Chunk) BY <2>1 DEF Total, Recent, SumFunction, SumOver
  <2>3. Recent(Chunk) \in Int /\ Recent(Chunk) <= Used + Allowance /\ Used <= Allowance
    BY <2>1, LongerIsMore DEF Metering
  <2>4. Allowance \in Nat /\ Used \in Nat BY AllowanceIsNat DEF Metering, Used
  <2> QED BY <2>2, <2>3, <2>4
<1> QED BY MeteringInit, MeteringStep, <1>1, PTL DEF Spec

-----------------------------------------------------------------------------
(* The send timeout. *)

\* While a failed send is remembered, the client has read nothing since.
WaitingIsUnread ==
  /\ buffered \in Nat /\ sendAge \in Nat /\ unread \in Nat
  /\ sendAge <= Timeout + 1 /\ unread <= Timeout + 1
  /\ open /\ waiting => buffered > 0 /\ unread >= sendAge

LEMMA WaitingInit == Init => WaitingIsUnread
BY FlowAssumption DEF Init, WaitingIsUnread

LEMMA WaitingStep == WaitingIsUnread /\ [Next]_vars => WaitingIsUnread'
<1> SUFFICES ASSUME WaitingIsUnread, [Next]_vars PROVE WaitingIsUnread' OBVIOUS
<1> USE FlowAssumption DEF WaitingIsUnread
<1>1. CASE Accept BY <1>1 DEF Accept, NewConnection, backlog, history
<1>2. CASE Receive
  <2>1. PICK received \in BoundedSeq(Editor!Byte, ReadSize) :
          Handled(Editor!Translate(line, received).out)
    BY <1>2 DEF Receive
  <2>2. UNCHANGED buffered \/ buffered' \in buffered .. Backlog BY <2>1, Zenon DEF Handled
  <2>3. open /\ UNCHANGED <<waiting, sendAge, unread>> BY <1>2 DEF Receive
  <2>4. buffered' \in Nat /\ buffered' >= buffered BY <2>2
  <2> QED BY <2>3, <2>4
<1>3. CASE Disconnect \/ SendFails
  BY <1>3 DEF Disconnect, SendFails, Erase, backlog, history
<1>4. CASE Idle BY <1>4 DEF Idle, backlog, history
<1>5. CASE Send BY <1>5 DEF Send, Sent, backlog
<1>6. CASE Check BY <1>6 DEF Check, Erase, backlog, history
<1>7. CASE CloseConnections BY <1>7 DEF CloseConnections, Erase, backlog, history
<1>8. CASE Loop BY <1>8 DEF Loop, Statbar, history
<1>9. CASE Others BY <1>9 DEF Others, history
<1>10. CASE Crash BY <1>10 DEF Crash, backlog, history
<1>11. CASE Tick BY <1>11 DEF Tick, UpTo
<1>12. CASE UNCHANGED vars BY <1>12 DEF vars
<1> QED BY <1>1, <1>2, <1>3, <1>4, <1>5, <1>6, <1>7, <1>8, <1>9, <1>10, <1>11, <1>12
        DEF Next, Pass

\* A client is cut off for not reading only after it has read nothing, with
\* data waiting, for longer than the timeout.
THEOREM CutOffsAreDeserved == Spec => TimeoutIsDeserved
<1>1. WaitingIsUnread /\ [Next]_vars
        => [fate # "timeout" /\ fate' = "timeout" => unread > Timeout]_vars
  <2> SUFFICES ASSUME WaitingIsUnread, Next, fate # "timeout", fate' = "timeout"
               PROVE  unread > Timeout
    BY DEF vars
  <2>1. Check
    BY DEF Next, Pass, Accept, NewConnection, Receive, Disconnect, Idle, Send, SendFails,
           CloseConnections, Loop, Others, Crash, Tick, Erase
  <2> QED BY <2>1, FlowAssumption DEF Check, Erase, TooLate, WaitingIsUnread
<1>2. Spec => []WaitingIsUnread BY WaitingInit, WaitingStep, PTL DEF Spec
<1> QED BY <1>1, <1>2, PTL DEF Spec, TimeoutIsDeserved

-----------------------------------------------------------------------------
(* The line editor. *)

\* The states of an editor: its line and the lines given to the handler.
EditorStates == [line : Seq(Printable), out : Seq(Seq(Printable))]

Begun(begun) == [line |-> begun, out |-> <<>>]

LEMMA TypeTyped ==
  ASSUME NEW t \in EditorStates, NEW b
  PROVE  Editor!Type(t, b) \in EditorStates
<1>1. t.line \in Seq(Printable) /\ t.out \in Seq(Seq(Printable)) BY DEF EditorStates
<1>2. CASE b \in Printable
  <2>1. Append(t.line, b) \in Seq(Printable) BY <1>1, <1>2, AppendProperties
  <2> DEFINE u == [t EXCEPT !.line = Append(@, b)]
  <2>2. u \in EditorStates BY <2>1 DEF EditorStates
  <2> HIDE DEF u
  <2>3. b # Editor!Backspace /\ b # Editor!Newline BY <1>2, FlowAssumption
  <2>4. Editor!Type(t, b) \in {t, u} BY <2>3 DEF Editor!Type, u
  <2> QED BY <2>2, <2>4
<1>3. CASE b \notin Printable /\ b = Editor!Backspace /\ t.line # <<>>
  <2> DEFINE f == Editor!Front(t.line)
             u == [t EXCEPT !.line = Editor!Front(@)]
  <2>1. f \in Seq(Printable)
    <3>1. Len(t.line) \in Nat /\ Len(t.line) # 0 BY <1>1, <1>3, EmptySeq, LenProperties
    <3> QED BY <1>1, <3>1, SubSeqProperties DEF Editor!Front
  <2> HIDE DEF f
  <2>2. u \in EditorStates BY <2>1 DEF EditorStates, f
  <2>3. Editor!Type(t, b) = u BY <1>3 DEF Editor!Type
  <2> QED BY <2>2, <2>3
<1>4. CASE b \notin Printable /\ b = Editor!Newline
  <2>1. Editor!Type(t, b) = Editor!Ended(t)
    BY <1>4 DEF Editor!Type, Editor!Backspace, Editor!Newline
  <2>2. <<>> \in Seq(Printable) /\ Append(t.out, t.line) \in Seq(Seq(Printable))
    BY <1>1, AppendProperties
  <2> QED BY <1>1, <2>1, <2>2 DEF Editor!Ended, EditorStates
<1>5. CASE b \notin Printable /\ b # Editor!Newline /\ ~(b = Editor!Backspace /\ t.line # <<>>)
  BY <1>5 DEF Editor!Type
<1> QED BY <1>2, <1>3, <1>4, <1>5

\* The editor takes the bytes one by one.
Edits(g, begun, input) ==
  /\ g \in [0 .. Len(input) -> EditorStates] /\ g[0] = Begun(begun)
  /\ \A k \in 1 .. Len(input) : g[k] = Editor!Type(g[k - 1], input[k])

LEMMA TranslateEdits ==
  ASSUME NEW begun \in Seq(Printable), NEW B, NEW input \in Seq(B)
  PROVE  \E g : Edits(g, begun, input) /\ Editor!Translate(begun, input) = g[Len(input)]
<1> DEFINE n == Len(input)
           S == 1 .. n
           base == Begun(begun)
           step == [kv \in S \X EditorStates |-> Editor!Type(kv[2], input[kv[1]])]
           pick == [t \in SUBSET S |-> Editor!Max(t)]
           V == EditorStates
<1>1. n \in Nat /\ DOMAIN input = S /\ IsFiniteSet(S) /\ S \in SUBSET Nat
  BY LenProperties, FS_Interval
<1>2. base \in V
  <2>1. <<>> \in Seq(Seq(Printable)) OBVIOUS
  <2> QED BY <2>1 DEF Begun, EditorStates
<1>3. \A x \in S : \A v \in V : step[<<x, v>>] = Editor!Type(v, input[x]) /\ step[<<x, v>>] \in V
  <2> SUFFICES ASSUME NEW x \in S, NEW v \in V
               PROVE  step[<<x, v>>] = Editor!Type(v, input[x]) /\ step[<<x, v>>] \in V
    OBVIOUS
  <2>1. step[<<x, v>>] = Editor!Type(v, input[x]) OBVIOUS
  <2> HIDE DEF step, V, S
  <2>2. Editor!Type(v, input[x]) \in V BY TypeTyped DEF V
  <2> QED BY <2>1, <2>2
<1>4. \A t \in SUBSET S : t # {} => pick[t] = Editor!Max(t) /\ pick[t] \in t /\ \A m \in t : m <= pick[t]
  <2> SUFFICES ASSUME NEW t \in SUBSET S, t # {}
               PROVE  pick[t] = Editor!Max(t) /\ pick[t] \in t /\ \A m \in t : m <= pick[t]
    OBVIOUS
  <2>1. t \in SUBSET Nat /\ IsFiniteSet(t)
    <3> HIDE DEF S
    <3> QED BY <1>1, FS_Subset
  <2>2. Max(t) \in t /\ \A m \in t : m <= Max(t)
    <3> HIDE DEF S
    <3> QED BY <2>1, GreatestIsMax
  <2>3. Editor!Max(t) = Max(t) BY DEF Max, Editor!Max
  <2> QED BY <2>2, <2>3
<1>5. PICK g \in [SUBSET S -> V] : Unfolds(g, S, base, pick, step)
  <2> HIDE DEF S, V, base, pick, step
  <2> QED BY <1>1, <1>2, <1>3, <1>4, FoldExists
<1>6. Editor!Translate(begun, input) = g[S]
  <2> DEFINE F(h) == [t \in SUBSET S |->
                        IF t = {} THEN base
                        ELSE Editor!Type(h[t \ {Editor!Max(t)}], input[Editor!Max(t)])]
             h == CHOOSE h : h = F(h)
  <2>1. Editor!Translate(begun, input) = h[DOMAIN input]
    BY <1>1, Zenon DEF Editor!Translate, Editor!FoldLeft, Editor!MapThenFoldSet, Begun
  <2>2. ASSUME NEW t \in SUBSET S
        PROVE  g[t] = IF t = {} THEN base
                      ELSE Editor!Type(g[t \ {Editor!Max(t)}], input[Editor!Max(t)])
    <3>1. CASE t = {} BY <1>5, <3>1 DEF Unfolds
    <3>2. CASE t # {}
      <4> DEFINE m == Editor!Max(t)
                 r == t \ {m}
      <4>1. pick[t] = m /\ m \in S BY <1>4, <3>2
      <4> HIDE DEF m
      <4>2. g[t] = step[<<m, g[r]>>] BY <1>5, <3>2, <4>1 DEF Unfolds
      <4>3. g[r] \in V
        <5>1. r \in SUBSET S OBVIOUS
        <5> HIDE DEF r, V
        <5> QED BY <1>5, <5>1
      <4> HIDE DEF step, V, r
      <4>4. g[t] = Editor!Type(g[r], input[m]) BY <1>3, <4>1, <4>2, <4>3
      <4> QED BY <3>2, <4>4 DEF m, r
    <3> QED BY <3>1, <3>2
  <2>3. g = F(g)
    <3>1. g = [t \in SUBSET S |-> g[t]] BY <1>5
    <3>2. \A t \in SUBSET S : g[t] = F(g)[t] BY <2>2
    <3> QED BY <3>1, <3>2
  <2>4. h = F(h) BY <2>3
  <2> HIDE DEF h
  <2> DEFINE D == {t \in SUBSET S : h[t] # g[t]}
  <2>5. D = {}
    <3> SUFFICES ASSUME D # {} PROVE FALSE OBVIOUS
    <3>1. PICK t \in D : \A w \in D : w \subseteq t => w = t
      <4> DEFINE T == S
      <4>1. IsFiniteSet(T) /\ D \in SUBSET SUBSET T /\ D # {} BY <1>1
      <4> HIDE DEF D, T
      <4> QED BY <4>1, MinimalSubset
    <3>2. t \in SUBSET S /\ h[t] # g[t] BY <3>1
    <3>3. h[t] = IF t = {} THEN base
                 ELSE Editor!Type(h[t \ {Editor!Max(t)}], input[Editor!Max(t)])
      <4>1. h[t] = F(h)[t] BY <2>4
      <4> QED BY <3>2, <4>1
    <3>4. t # {} BY <2>2, <3>2, <3>3
    <3>5. PICK m \in t : m = Editor!Max(t) BY <1>4, <3>2, <3>4
    <3>6. t \ {m} \in SUBSET S /\ t \ {m} \notin D BY <3>1, <3>2
    <3>7. h[t \ {m}] = g[t \ {m}] BY <3>6
    <3> QED BY <2>2, <3>2, <3>3, <3>4, <3>5, <3>7
  <2>6. h[S] = g[S]
    <3>1. S \in SUBSET S OBVIOUS
    <3> HIDE DEF S
    <3> QED BY <2>5, <3>1
  <2> QED BY <1>1, <2>1, <2>6
<1> DEFINE e == [k \in 0 .. n |-> g[1 .. k]]
<1>7. \A k \in 0 .. n : 1 .. k \in SUBSET S /\ e[k] = g[1 .. k] /\ e[k] \in V
  <2> SUFFICES ASSUME NEW k \in 0 .. n
               PROVE  1 .. k \in SUBSET S /\ e[k] = g[1 .. k] /\ e[k] \in V
    OBVIOUS
  <2>1. 1 .. k \in SUBSET S BY <1>1
  <2> HIDE DEF S, V
  <2> QED BY <1>5, <2>1
<1>8. e[0] = base
  <2>1. 1 .. 0 = {} /\ 0 \in 0 .. n BY <1>1
  <2>2. g[{}] = base BY <1>5 DEF Unfolds
  <2> QED BY <1>7, <2>1, <2>2
<1>9. ASSUME NEW k \in 1 .. n PROVE e[k] = Editor!Type(e[k - 1], input[k])
  <2> DEFINE t == 1 .. k
  <2>1. /\ t \in SUBSET S /\ t # {} /\ k \in 0 .. n /\ k - 1 \in 0 .. n /\ k \in S
        /\ \A m \in t : m <= k
    BY <1>1, <1>9
  <2>2. pick[t] = k
    <3>1. pick[t] \in t /\ \A m \in t : m <= pick[t]
      <4> HIDE DEF pick, t
      <4> QED BY <1>4, <2>1
    <3> HIDE DEF pick
    <3>2. k \in t /\ k <= pick[t] /\ pick[t] <= k BY <2>1, <3>1
    <3> QED BY <2>1, <3>1, <3>2
  <2>3. t \ {k} = 1 .. k - 1 BY <1>1, <1>9
  <2>4. g[t] = step[<<k, g[t \ {k}]>>]
    <3> HIDE DEF step, pick, t, S
    <3> QED BY <1>5, <2>1, <2>2 DEF Unfolds
  <2>5. e[k] = g[t] /\ e[k - 1] = g[t \ {k}] /\ e[k - 1] \in V BY <1>7, <2>1, <2>3
  <2> HIDE DEF step, e, t, V
  <2> QED BY <1>3, <2>1, <2>4, <2>5
<1>10. e \in [0 .. n -> V]
  <2> HIDE DEF V
  <2> QED BY <1>7
<1>11. Edits(e, begun, input) BY <1>8, <1>9, <1>10 DEF Edits
<1>12. e[n] = g[S] BY <1>1, <1>7
<1> HIDE DEF e
<1> QED BY <1>6, <1>11, <1>12

-----------------------------------------------------------------------------
(* Increasing sequences and the sets they enumerate. *)

LEMMA IncreasingLists ==
  ASSUME NEW s \in Seq(Nat), Increasing(s)
  PROVE  /\ Listing(s, ToSet(s)) /\ ToSet(s) \subseteq Nat
         /\ IsFiniteSet(ToSet(s)) /\ Cardinality(ToSet(s)) = Len(s)
<1>1. DOMAIN s = 1 .. Len(s) /\ Len(s) \in Nat /\ \A i \in 1 .. Len(s) : s[i] \in Nat
  BY LenProperties, ElementOfSeq
<1>2. ToSet(s) = {s[i] : i \in 1 .. Len(s)} BY <1>1 DEF ToSet
<1>3. \A i, j \in 1 .. Len(s) : s[i] = s[j] => i = j
  <2> SUFFICES ASSUME NEW i \in 1 .. Len(s), NEW j \in 1 .. Len(s), s[i] = s[j] PROVE i = j
    OBVIOUS
  <2>1. ~(i < j) /\ ~(j < i) BY <1>1 DEF Increasing
  <2> QED BY <1>1, <2>1
<1>4. s \in Seq(ToSet(s)) BY <1>1, <1>2, SeqDef, LenProperties
<1>5. Listing(s, ToSet(s)) BY <1>1, <1>2, <1>3, <1>4 DEF Listing
<1>6. s \in Bijection(1 .. Len(s), ToSet(s))
  BY <1>1, <1>2, <1>3, <1>4, LenProperties DEF Bijection, Injection, Surjection, IsInjective
<1>7. ExistsBijection(1 .. Len(s), ToSet(s)) BY <1>6 DEF ExistsBijection
<1>8. IsFiniteSet(1 .. Len(s)) BY <1>1, FS_Interval
<1>9. IsFiniteSet(ToSet(s)) BY <1>7, <1>8, FS_Bijection
<1>10. Cardinality(ToSet(s)) = Len(s) BY <1>1, <1>7, FS_CountingElements
<1> QED BY <1>1, <1>2, <1>5, <1>9, <1>10

\* The instance's copy of a standard operator is that operator.
LEMMA EditorCounts == ASSUME NEW S PROVE Editor!Cardinality(S) = Cardinality(S)
BY Zenon DEF Cardinality, Editor!Cardinality

LEMMA NthListed ==
  ASSUME NEW s \in Seq(Nat), Increasing(s), NEW k \in 1 .. Len(s)
  PROVE  Editor!Nth(ToSet(s), k) = s[k]
<1> DEFINE S == ToSet(s)
           Below(e) == {x \in S : x < e}
<1>1. DOMAIN s = 1 .. Len(s) /\ Len(s) \in Nat /\ \A i \in 1 .. Len(s) : s[i] \in Nat
  BY LenProperties, ElementOfSeq
<1>2. S = {s[i] : i \in 1 .. Len(s)} BY <1>1 DEF ToSet
<1>3. ASSUME NEW j \in 1 .. Len(s) PROVE Cardinality(Below(s[j])) = j - 1
  <2> DEFINE f == [i \in 1 .. j - 1 |-> s[i]]
             T == Below(s[j])
             m == j - 1
  <2>1. m \in Nat BY <1>1
  <2>2. \A i \in 1 .. Len(s) : s[i] < s[j] <=> i \in 1 .. m
    <3> SUFFICES ASSUME NEW i \in 1 .. Len(s) PROVE s[i] < s[j] <=> i < j BY <1>1
    <3>1. i < j => s[i] < s[j] BY <1>1 DEF Increasing
    <3>2. j < i => s[j] < s[i] BY <1>1 DEF Increasing
    <3> QED BY <1>1, <3>1, <3>2
  <2>3. T = {s[i] : i \in 1 .. m} BY <1>1, <1>2, <2>2
  <2>4. \A a, b \in 1 .. m : s[a] = s[b] => a = b
    <3>1. \A a, b \in 1 .. Len(s) : s[a] = s[b] => a = b BY IncreasingLists DEF Listing
    <3> QED BY <1>1, <3>1
  <2>5. f \in Bijection(1 .. m, T) BY <2>3, <2>4 DEF Bijection, Injection, Surjection, IsInjective
  <2>6. ExistsBijection(1 .. m, T) BY <2>5 DEF ExistsBijection
  <2> HIDE DEF T, m, f
  <2>7. Cardinality(T) = m BY <2>1, <2>6, FS_CountingElements
  <2> QED BY <2>7 DEF T, m
<1>4. s[k] \in S /\ Cardinality(Below(s[k])) = k - 1 BY <1>2, <1>3
<1>5. ASSUME NEW e \in S, Cardinality(Below(e)) = k - 1 PROVE e = s[k]
  <2>1. PICK j \in 1 .. Len(s) : e = s[j] BY <1>2
  <2>2. j - 1 = k - 1 BY <1>3, <1>5, <2>1
  <2> QED BY <1>1, <2>1, <2>2
<1> HIDE DEF S
<1> DEFINE e == Editor!Nth(S, k)
<1>6. e \in S /\ Cardinality({x \in S : x < e}) = k - 1
  <2>1. \E y \in S : Editor!Cardinality({x \in S : x < y}) = k - 1 BY <1>4, EditorCounts
  <2>2. e \in S /\ Editor!Cardinality({x \in S : x < e}) = k - 1
    BY <2>1, Zenon DEF Editor!Nth
  <2> QED BY <2>2, EditorCounts
<1> HIDE DEF e
<1>7. e = s[k] BY <1>5, <1>6
<1> QED BY <1>7 DEF S, e

LEMMA IncreasingAppend ==
  ASSUME NEW s \in Seq(Nat), Increasing(s), NEW m \in Nat, \A x \in ToSet(s) : x < m
  PROVE  LET a == Append(s, m)
         IN  /\ a \in Seq(Nat) /\ Increasing(a) /\ Len(a) = Len(s) + 1
             /\ ToSet(a) = ToSet(s) \cup {m} /\ a[Len(s) + 1] = m
             /\ \A i \in 1 .. Len(s) : a[i] = s[i]
<1> DEFINE a == Append(s, m)
<1>1. Listing(s, ToSet(s)) /\ m \notin ToSet(s) BY IncreasingLists
<1>2. ToSet(a) = ToSet(s) \cup {m} BY <1>1, ListingAppend DEF Listing
<1>3. /\ a \in Seq(Nat) /\ Len(a) = Len(s) + 1 /\ a[Len(s) + 1] = m
      /\ \A i \in 1 .. Len(s) : a[i] = s[i]
  BY AppendProperties
<1>4. /\ Len(s) \in Nat /\ DOMAIN s = 1 .. Len(s) /\ \A i \in 1 .. Len(s) : s[i] \in Nat
      /\ \A i \in 1 .. Len(s) : s[i] \in ToSet(s)
  BY LenProperties, ElementOfSeq DEF ToSet
<1> HIDE DEF a
<1>5. DOMAIN a = 1 .. Len(s) + 1 BY <1>3, LenProperties
<1>6. Increasing(a)
  <2> SUFFICES ASSUME NEW i \in 1 .. Len(s) + 1, NEW j \in 1 .. Len(s) + 1, i < j
               PROVE  a[i] < a[j]
    BY <1>5 DEF Increasing
  <2>1. i \in 1 .. Len(s) BY <1>4
  <2>2. CASE j = Len(s) + 1 BY <1>3, <1>4, <2>1, <2>2
  <2>3. CASE j \in 1 .. Len(s) BY <1>3, <1>4, <2>1, <2>3 DEF Increasing
  <2> QED BY <1>4, <2>2, <2>3
<1> QED BY <1>2, <1>3, <1>6 DEF a

LEMMA FrontOf ==
  ASSUME NEW B, NEW s \in Seq(B), s # <<>>
  PROVE  /\ Len(s) \in Nat \ {0} /\ Editor!Front(s) \in Seq(B)
         /\ Len(Editor!Front(s)) = Len(s) - 1
         /\ \A i \in 1 .. Len(s) - 1 : Editor!Front(s)[i] = s[i]
<1> DEFINE m == Len(s)
           f == Editor!Front(s)
<1>1. m \in Nat \ {0} BY EmptySeq, LenProperties
<1>2. \A i \in 1 .. m : s[i] \in B BY ElementOfSeq
<1>3. f = SubSeq(s, 1, m - 1) BY DEF Editor!Front
<1> HIDE DEF m, f
<1>4. m - 1 \in Nat /\ m - 1 \in Int /\ \A i \in 1 .. m - 1 : i \in 1 .. m /\ 1 + i - 1 = i
  BY <1>1
<1> DEFINE l == m - 1
<1>5. l \in Int /\ 1 \in Int /\ \A i \in 1 .. l : s[i] \in B BY <1>2, <1>4
<1>6. /\ f \in Seq(B) /\ Len(f) = (IF 1 <= l THEN l - 1 + 1 ELSE 0)
      /\ \A i \in 1 .. l - 1 + 1 : f[i] = s[1 + i - 1]
  <2>1. f = SubSeq(s, 1, l) BY <1>3
  <2> HIDE DEF l
  <2> QED BY <1>5, <2>1, SubSeqProperties
<1>7. Len(f) = l /\ \A i \in 1 .. l : f[i] = s[i] BY <1>1, <1>4, <1>6
<1> QED BY <1>1, <1>6, <1>7 DEF m, f

LEMMA IncreasingFront ==
  ASSUME NEW s \in Seq(Nat), Increasing(s), s # <<>>
  PROVE  Increasing(Editor!Front(s)) /\ ToSet(Editor!Front(s)) = ToSet(s) \ {s[Len(s)]}
<1> DEFINE f == Editor!Front(s)
<1>1. /\ Len(s) \in Nat \ {0} /\ f \in Seq(Nat) /\ Len(f) = Len(s) - 1
      /\ \A i \in 1 .. Len(s) - 1 : f[i] = s[i]
  BY FrontOf
<1> HIDE DEF f
<1>2. DOMAIN f = 1 .. Len(s) - 1 /\ DOMAIN s = 1 .. Len(s) BY <1>1, LenProperties
<1>3. Increasing(f)
  <2> SUFFICES ASSUME NEW i \in 1 .. Len(s) - 1, NEW j \in 1 .. Len(s) - 1, i < j
               PROVE  f[i] < f[j]
    BY <1>2 DEF Increasing
  <2>1. i \in DOMAIN s /\ j \in DOMAIN s BY <1>1, <1>2
  <2> QED BY <1>1, <2>1 DEF Increasing
<1>4. \A i, j \in 1 .. Len(s) : s[i] = s[j] => i = j BY IncreasingLists DEF Listing
<1>5. ToSet(f) \subseteq ToSet(s) \ {s[Len(s)]}
  <2> SUFFICES ASSUME NEW i \in 1 .. Len(s) - 1 PROVE f[i] \in ToSet(s) /\ f[i] # s[Len(s)]
    BY <1>2 DEF ToSet
  <2>1. i \in 1 .. Len(s) /\ Len(s) \in 1 .. Len(s) /\ i # Len(s) BY <1>1
  <2> QED BY <1>1, <1>2, <1>4, <2>1 DEF ToSet
<1>6. ToSet(s) \ {s[Len(s)]} \subseteq ToSet(f)
  <2> SUFFICES ASSUME NEW i \in 1 .. Len(s), s[i] # s[Len(s)] PROVE s[i] \in ToSet(f)
    BY <1>2 DEF ToSet
  <2>1. i \in 1 .. Len(s) - 1 BY <1>1
  <2> QED BY <1>1, <1>2, <2>1 DEF ToSet
<1> QED BY <1>3, <1>5, <1>6 DEF f

-----------------------------------------------------------------------------
(* What one more byte does to the bytes that survive. *)

LEMMA CountType ==
  ASSUME NEW input, NEW i \in Nat, NEW e \in Nat, NEW B
  PROVE  Editor!Count(input, i, e, B) \in Nat
<1>1. IsFiniteSet(i .. e) /\ {k \in i .. e : input[k] \in B} \subseteq i .. e BY FS_Interval
<1>2. Cardinality({k \in i .. e : input[k] \in B}) \in Nat
  BY <1>1, FS_Subset, FS_CardinalityType
<1> QED BY <1>2, EditorCounts DEF Editor!Count

LEMMA CountMore ==
  ASSUME NEW input, NEW i \in Nat, NEW e \in Nat, i <= e, NEW B
  PROVE  Editor!Count(input, i + 1, e + 1, B)
           = Editor!Count(input, i + 1, e, B) + (IF input[e + 1] \in B THEN 1 ELSE 0)
<1> DEFINE S == {k \in i + 1 .. e : input[k] \in B}
           T == {k \in i + 1 .. e + 1 : input[k] \in B}
<1>1. IsFiniteSet(S) /\ Cardinality(S) \in Nat
  <2>1. IsFiniteSet(i + 1 .. e) /\ S \subseteq i + 1 .. e BY FS_Interval
  <2> QED BY <2>1, FS_Subset, FS_CardinalityType
<1>2. e + 1 \notin S /\ T = IF input[e + 1] \in B THEN S \cup {e + 1} ELSE S OBVIOUS
<1>3. Editor!Count(input, i + 1, e, B) = Cardinality(S)
      /\ Editor!Count(input, i + 1, e + 1, B) = Cardinality(T)
  BY EditorCounts DEF Editor!Count
<1> HIDE DEF S, T
<1>4. Cardinality(S \cup {e + 1}) = Cardinality(S) + 1 BY <1>1, <1>2, FS_AddElement
<1> QED BY <1>1, <1>2, <1>3, <1>4

LEMMA CountNone ==
  ASSUME NEW input, NEW e \in Nat, NEW B
  PROVE  Editor!Count(input, e + 1, e, B) = 0
<1>1. {k \in e + 1 .. e : input[k] \in B} = {} OBVIOUS
<1> QED BY <1>1, EditorCounts, FS_EmptySet DEF Editor!Count

\* What is typed after i and before e, less what is erased there.
Balance(input, i, e, d) ==
  Editor!Count(input, i + 1, e, Printable)
    = Editor!Count(input, i + 1, e, {Editor!Backspace}) + d

\* s lists the bytes since c that survive up to e, and `text' is those bytes;
\* behind the k-th of them as many more were typed than erased as follow it.
LineIs(input, c, e, s, text) ==
  /\ s \in Seq(Nat) /\ Increasing(s) /\ ToSet(s) = Editor!Kept(input, c + 1, e)
  /\ text \in Seq(Printable) /\ Len(text) = Len(s)
  /\ \A k \in 1 .. Len(s) : text[k] = input[s[k]] /\ Balance(input, s[k], e, Len(s) - k)

LEMMA SurvivesMore ==
  ASSUME NEW input, NEW i \in Nat, NEW e \in Nat, i <= e
  PROVE  Editor!Survives(input, i, e + 1) <=>
           /\ Editor!Survives(input, i, e)
           /\ Editor!Count(input, i + 1, e + 1, {Editor!Backspace})
                <= Editor!Count(input, i + 1, e + 1, Printable)
<1>1. i .. e + 1 = (i .. e) \cup {e + 1} OBVIOUS
<1> QED BY <1>1 DEF Editor!Survives

LEMMA SurvivesItself ==
  ASSUME NEW input, NEW e \in Nat
  PROVE  Editor!Survives(input, e, e) <=> input[e] \in Printable
<1>1. e .. e = {e} OBVIOUS
<1> QED BY <1>1, CountNone DEF Editor!Survives

LEMMA SurvivorsListed ==
  ASSUME NEW input, NEW c \in Nat, NEW e \in Nat, NEW s, NEW text, LineIs(input, c, e, s, text)
  PROVE  Editor!Survivors(input, c + 1, e) = text
<1> DEFINE S == Editor!Kept(input, c + 1, e)
<1>1. s \in Seq(Nat) /\ Increasing(s) /\ ToSet(s) = S BY DEF LineIs
<1>2. Len(s) \in Nat /\ Editor!Cardinality(S) = Len(s) BY <1>1, IncreasingLists, EditorCounts, LenProperties
<1>3. \A k \in 1 .. Len(s) : Editor!Nth(S, k) = s[k] BY <1>1, NthListed
<1>4. Editor!Survivors(input, c + 1, e)
        = [k \in 1 .. Editor!Cardinality(S) |-> input[Editor!Nth(S, k)]]
  BY Zenon DEF Editor!Survivors
<1> HIDE DEF S
<1>5. text = [k \in 1 .. Len(s) |-> text[k]] BY LenProperties DEF LineIs
<1>6. \A k \in 1 .. Len(s) : text[k] = input[s[k]] BY DEF LineIs
<1> QED BY <1>2, <1>3, <1>4, <1>5, <1>6

\* Behind i no more was erased than typed.
RoomBehind(input, i, e) ==
  Editor!Count(input, i + 1, e, {Editor!Backspace}) <= Editor!Count(input, i + 1, e, Printable)

LEMMA KeptMore ==
  ASSUME NEW input, NEW c \in Nat, NEW e \in Nat, c <= e
  PROVE  \A i : i \in Editor!Kept(input, c + 1, e + 1) <=>
                  \/ i \in Editor!Kept(input, c + 1, e) /\ RoomBehind(input, i, e + 1)
                  \/ i = e + 1 /\ input[e + 1] \in Printable
<1>1. \A i \in c + 1 .. e + 1 : i \in Nat /\ (i = e + 1 \/ (i \in c + 1 .. e /\ i <= e))
  OBVIOUS
<1>2. e + 1 \in Nat /\ e + 1 \in c + 1 .. e + 1 /\ e + 1 \notin c + 1 .. e
      /\ c + 1 .. e \subseteq c + 1 .. e + 1
  OBVIOUS
<1>3. Editor!Survives(input, e + 1, e + 1) <=> input[e + 1] \in Printable
  BY <1>2, SurvivesItself
<1>4. \A i \in c + 1 .. e : Editor!Survives(input, i, e + 1) <=>
           Editor!Survives(input, i, e) /\ RoomBehind(input, i, e + 1)
  <2> TAKE i \in c + 1 .. e
  <2>1. i \in Nat /\ i <= e OBVIOUS
  <2> QED BY <2>1, SurvivesMore DEF RoomBehind
<1> DEFINE K == Editor!Kept(input, c + 1, e)
           L == Editor!Kept(input, c + 1, e + 1)
<1>5. /\ \A i : i \in K <=> i \in c + 1 .. e /\ Editor!Survives(input, i, e)
      /\ \A i : i \in L <=> i \in c + 1 .. e + 1 /\ Editor!Survives(input, i, e + 1)
  BY DEF Editor!Kept
<1> HIDE DEF K, L
<1>6. \A i : i \in L <=> \/ i \in K /\ RoomBehind(input, i, e + 1)
                         \/ i = e + 1 /\ input[e + 1] \in Printable
  BY <1>1, <1>2, <1>3, <1>4, <1>5
<1> QED BY <1>6 DEF K, L

\* The numbers of s are those from c to e that it lists.
Spans(s, c, e) ==
  /\ Len(s) \in Nat
  /\ \A k \in 1 .. Len(s) : s[k] \in ToSet(s) /\ s[k] \in c .. e /\ s[k] \in Nat /\ s[k] <= e
  /\ \A x \in ToSet(s) : x \in Nat /\ x <= e /\ \E k \in 1 .. Len(s) : x = s[k]

LEMMA KeptListed ==
  ASSUME NEW input, NEW c \in Nat, NEW e \in Nat, NEW s, NEW text, LineIs(input, c, e, s, text)
  PROVE  Spans(s, c + 1, e)
<1>1. s \in Seq(Nat) /\ ToSet(s) = Editor!Kept(input, c + 1, e) BY DEF LineIs
<1>2. DOMAIN s = 1 .. Len(s) /\ Len(s) \in Nat BY <1>1, LenProperties
<1>3. \A x \in ToSet(s) : x \in c + 1 .. e BY <1>1 DEF Editor!Kept
<1>4. \A x \in ToSet(s) : x \in Nat /\ x <= e BY <1>3
<1> QED BY <1>2, <1>3, <1>4 DEF ToSet, Spans

\* How the balance behind a byte changes.
LEMMA BalanceMore ==
  ASSUME NEW input, NEW i \in Nat, NEW e \in Nat, i <= e, NEW d \in Nat, Balance(input, i, e, d)
  PROVE  /\ input[e + 1] \in Printable => Balance(input, i, e + 1, d + 1)
         /\ input[e + 1] = Editor!Backspace => Balance(input, i, e + 1, d - 1)
         /\ input[e + 1] \notin Printable \cup {Editor!Backspace} => Balance(input, i, e + 1, d)
         /\ RoomBehind(input, i, e + 1) <=> (input[e + 1] = Editor!Backspace => d > 0)
<1> DEFINE P == Editor!Count(input, i + 1, e, Printable)
           Q == Editor!Count(input, i + 1, e, {Editor!Backspace})
           p == Editor!Count(input, i + 1, e + 1, Printable)
           q == Editor!Count(input, i + 1, e + 1, {Editor!Backspace})
           b == input[e + 1]
<1>1. P \in Nat /\ Q \in Nat BY CountType
<1>2. p = P + (IF b \in Printable THEN 1 ELSE 0) BY CountMore
<1>3. q = Q + (IF b \in {Editor!Backspace} THEN 1 ELSE 0) BY CountMore
<1>4. P = Q + d BY DEF Balance
<1>5. Editor!Backspace \notin Printable BY FlowAssumption
<1> HIDE DEF P, Q, p, q, b
<1>6. /\ b \in Printable => p = q + (d + 1)
      /\ b = Editor!Backspace => p = q + (d - 1)
      /\ b \notin Printable \cup {Editor!Backspace} => p = q + d
      /\ (q <= p) <=> (b = Editor!Backspace => d > 0)
  BY <1>1, <1>2, <1>3, <1>4, <1>5
<1> QED BY <1>6 DEF Balance, RoomBehind, p, q, b

LEMMA LinePrintable ==
  ASSUME NEW input, NEW c \in Nat, NEW e \in Nat, c <= e, NEW s, NEW text,
         LineIs(input, c, e, s, text), input[e + 1] \in Printable
  PROVE  LineIs(input, c, e + 1, Append(s, e + 1), Append(text, input[e + 1]))
<1> DEFINE a == Append(s, e + 1)
           t == Append(text, input[e + 1])
           n == Len(s)
<1>1. /\ s \in Seq(Nat) /\ Increasing(s) /\ ToSet(s) = Editor!Kept(input, c + 1, e)
      /\ text \in Seq(Printable) /\ Len(text) = n
      /\ \A k \in 1 .. n : text[k] = input[s[k]] /\ Balance(input, s[k], e, n - k)
  BY DEF LineIs
<1>2. /\ n \in Nat
      /\ \A k \in 1 .. n : s[k] \in ToSet(s) /\ s[k] \in Nat /\ s[k] <= e /\ n - k \in Nat
      /\ \A x \in ToSet(s) : x \in Nat /\ x <= e /\ \E k \in 1 .. n : x = s[k]
  <2>1. Spans(s, c + 1, e) BY KeptListed
  <2> QED BY <2>1 DEF Spans
<1>3. /\ a \in Seq(Nat) /\ Increasing(a) /\ Len(a) = n + 1
      /\ ToSet(a) = ToSet(s) \cup {e + 1} /\ a[n + 1] = e + 1
      /\ \A i \in 1 .. n : a[i] = s[i]
  <2>1. e + 1 \in Nat /\ \A x \in ToSet(s) : x < e + 1 BY <1>2
  <2> QED BY <1>1, <2>1, IncreasingAppend
<1>4. /\ t \in Seq(Printable) /\ Len(t) = n + 1 /\ t[n + 1] = input[e + 1]
      /\ \A i \in 1 .. n : t[i] = text[i]
  BY <1>1, AppendProperties
<1> HIDE DEF a, t, n
<1>5. input[e + 1] # Editor!Backspace BY FlowAssumption
<1>6. \A k \in 1 .. n : Balance(input, s[k], e + 1, n + 1 - k)
  <2> TAKE k \in 1 .. n
  <2>1. s[k] \in Nat /\ s[k] <= e /\ n - k \in Nat /\ (n - k) + 1 = n + 1 - k BY <1>2
  <2> QED BY <1>1, <2>1, BalanceMore
<1>7. Balance(input, e + 1, e + 1, 0)
  <2>1. e + 1 \in Nat OBVIOUS
  <2> QED BY <2>1, CountNone DEF Balance
<1>8. ToSet(a) = Editor!Kept(input, c + 1, e + 1)
  <2>1. \A x \in ToSet(s) : RoomBehind(input, x, e + 1)
    <3> TAKE x \in ToSet(s)
    <3>1. PICK k \in 1 .. n : x = s[k] BY <1>2
    <3>2. x \in Nat /\ x <= e /\ n - k \in Nat /\ Balance(input, x, e, n - k) BY <1>1, <1>2, <3>1
    <3> QED BY <1>5, <3>2, BalanceMore
  <2> DEFINE K == Editor!Kept(input, c + 1, e)
             L == Editor!Kept(input, c + 1, e + 1)
  <2>2. \A i : i \in L <=> (i \in K /\ RoomBehind(input, i, e + 1)) \/ i = e + 1
    BY KeptMore
  <2>3. ToSet(s) = K BY <1>1
  <2> HIDE DEF K, L
  <2>4. ToSet(a) = L BY <1>3, <2>1, <2>2, <2>3
  <2> QED BY <2>4 DEF L
<1>9. \A k \in 1 .. n + 1 : t[k] = input[a[k]] /\ Balance(input, a[k], e + 1, n + 1 - k)
  <2> TAKE k \in 1 .. n + 1
  <2>1. CASE k \in 1 .. n BY <1>1, <1>3, <1>4, <1>6, <2>1
  <2>2. CASE k = n + 1
    <3>1. n + 1 - k = 0 BY <1>2, <2>2
    <3> QED BY <1>3, <1>4, <1>7, <2>2, <3>1
  <2> QED BY <1>2, <2>1, <2>2
<1>10. Len(t) = Len(a)
       /\ \A k \in 1 .. Len(a) : t[k] = input[a[k]] /\ Balance(input, a[k], e + 1, Len(a) - k)
  <2>1. Len(a) = n + 1 /\ Len(t) = n + 1 BY <1>3, <1>4
  <2>2. ASSUME NEW k \in 1 .. Len(a)
        PROVE  t[k] = input[a[k]] /\ Balance(input, a[k], e + 1, Len(a) - k)
    <3> DEFINE d == n + 1 - k
    <3>1. k \in 1 .. n + 1 /\ Len(a) - k = d BY <1>2, <2>1
    <3>2. t[k] = input[a[k]] /\ Balance(input, a[k], e + 1, d) BY <1>9, <3>1
    <3> HIDE DEF d
    <3> QED BY <3>1, <3>2
  <2> QED BY <2>1, <2>2
<1>11. LineIs(input, c, e + 1, a, t) BY <1>3, <1>4, <1>8, <1>10 DEF LineIs
<1> QED BY <1>11 DEF a, t

LEMMA LineErased ==
  ASSUME NEW input, NEW c \in Nat, NEW e \in Nat, c <= e, NEW s, NEW text, text # <<>>,
         LineIs(input, c, e, s, text), input[e + 1] = Editor!Backspace
  PROVE  LineIs(input, c, e + 1, Editor!Front(s), Editor!Front(text))
<1> DEFINE a == Editor!Front(s)
           t == Editor!Front(text)
           n == Len(s)
<1>1. /\ s \in Seq(Nat) /\ Increasing(s) /\ ToSet(s) = Editor!Kept(input, c + 1, e)
      /\ text \in Seq(Printable) /\ Len(text) = n
      /\ \A k \in 1 .. n : text[k] = input[s[k]] /\ Balance(input, s[k], e, n - k)
  BY DEF LineIs
<1>2. /\ n \in Nat
      /\ \A k \in 1 .. n : s[k] \in ToSet(s) /\ s[k] \in Nat /\ s[k] <= e /\ n - k \in Nat
      /\ \A x \in ToSet(s) : x \in Nat /\ x <= e /\ \E k \in 1 .. n : x = s[k]
  <2>1. Spans(s, c + 1, e) BY KeptListed
  <2> QED BY <2>1 DEF Spans
<1>3. n # 0 /\ s # <<>> BY <1>1, EmptySeq, LenProperties
<1>4. /\ a \in Seq(Nat) /\ Increasing(a) /\ Len(a) = n - 1 /\ ToSet(a) = ToSet(s) \ {s[n]}
      /\ \A i \in 1 .. n - 1 : a[i] = s[i]
  BY <1>1, <1>3, FrontOf, IncreasingFront
<1>5. t \in Seq(Printable) /\ Len(t) = n - 1 /\ \A i \in 1 .. n - 1 : t[i] = text[i]
  BY <1>1, FrontOf
<1>6. \A i, j \in 1 .. n : s[i] = s[j] => i = j BY <1>1, IncreasingLists DEF Listing
<1> HIDE DEF a, t, n
<1>7. input[e + 1] \notin Printable BY FlowAssumption
<1>8. \A k \in 1 .. n : s[k] \in Nat /\ s[k] <= e /\ n - k \in Nat BY <1>2
<1>9. \A k \in 1 .. n - 1 : Balance(input, s[k], e + 1, n - 1 - k)
  <2> TAKE k \in 1 .. n - 1
  <2>1. k \in 1 .. n /\ (n - k) - 1 = n - 1 - k BY <1>2
  <2>2. Balance(input, s[k], e + 1, (n - k) - 1) BY <1>1, <1>8, <2>1, BalanceMore
  <2> QED BY <2>1, <2>2
<1>10. ASSUME NEW k \in 1 .. n
       PROVE  RoomBehind(input, s[k], e + 1) <=> k # n
  <2>1. RoomBehind(input, s[k], e + 1) <=> n - k > 0
    BY <1>1, <1>8, BalanceMore
  <2> QED BY <1>2, <2>1
<1>11. ToSet(a) = Editor!Kept(input, c + 1, e + 1)
  <2> DEFINE K == Editor!Kept(input, c + 1, e)
             L == Editor!Kept(input, c + 1, e + 1)
  <2>1. \A i : i \in L <=> i \in K /\ RoomBehind(input, i, e + 1) BY <1>7, KeptMore
  <2>2. ToSet(s) = K BY <1>1
  <2>3. n \in 1 .. n BY <1>2, <1>3
  <2>4. \A x \in ToSet(s) : RoomBehind(input, x, e + 1) <=> x # s[n]
    <3> TAKE x \in ToSet(s)
    <3>1. PICK k \in 1 .. n : x = s[k] BY <1>2
    <3>2. RoomBehind(input, x, e + 1) <=> k # n BY <1>10, <3>1
    <3>3. x = s[n] <=> k = n BY <1>6, <2>3, <3>1
    <3> QED BY <3>2, <3>3
  <2> HIDE DEF K, L
  <2>5. ToSet(a) = L BY <1>4, <2>1, <2>2, <2>4
  <2> QED BY <2>5 DEF L
<1>12. \A k \in 1 .. n - 1 : t[k] = input[a[k]] /\ Balance(input, a[k], e + 1, n - 1 - k)
  <2> TAKE k \in 1 .. n - 1
  <2>1. k \in 1 .. n BY <1>2
  <2> QED BY <1>1, <1>4, <1>5, <1>9, <2>1
<1>13. LineIs(input, c, e + 1, a, t) BY <1>4, <1>5, <1>11, <1>12 DEF LineIs
<1> QED BY <1>13 DEF a, t

\* A backspace on an empty line, and a byte the editor passes over.
LEMMA LineSame ==
  ASSUME NEW input, NEW c \in Nat, NEW e \in Nat, c <= e, NEW s, NEW text,
         LineIs(input, c, e, s, text), input[e + 1] \notin Printable,
         input[e + 1] = Editor!Backspace => text = <<>>
  PROVE  LineIs(input, c, e + 1, s, text)
<1> DEFINE n == Len(s)
<1>1. /\ s \in Seq(Nat) /\ Increasing(s) /\ ToSet(s) = Editor!Kept(input, c + 1, e)
      /\ text \in Seq(Printable) /\ Len(text) = n
      /\ \A k \in 1 .. n : text[k] = input[s[k]] /\ Balance(input, s[k], e, n - k)
  BY DEF LineIs
<1>2. /\ n \in Nat
      /\ \A k \in 1 .. n : s[k] \in ToSet(s) /\ s[k] \in Nat /\ s[k] <= e /\ n - k \in Nat
      /\ \A x \in ToSet(s) : x \in Nat /\ x <= e /\ \E k \in 1 .. n : x = s[k]
  <2>1. Spans(s, c + 1, e) BY KeptListed
  <2> QED BY <2>1 DEF Spans
<1>3. ASSUME NEW k \in 1 .. n PROVE input[e + 1] # Editor!Backspace
  <2>1. n # 0 BY <1>2
  <2>2. text # <<>> BY <1>1, <2>1, EmptySeq
  <2> QED BY <2>2
<1>4. \A k \in 1 .. n : s[k] \in Nat /\ s[k] <= e /\ n - k \in Nat BY <1>2
<1> HIDE DEF n
<1>5. \A k \in 1 .. n : Balance(input, s[k], e + 1, n - k)
  BY <1>1, <1>3, <1>4, BalanceMore
<1>6. \A x \in ToSet(s) : RoomBehind(input, x, e + 1)
  <2> TAKE x \in ToSet(s)
  <2>1. PICK k \in 1 .. n : x = s[k] BY <1>2
  <2> QED BY <1>1, <1>3, <1>4, <2>1, BalanceMore
<1>7. ToSet(s) = Editor!Kept(input, c + 1, e + 1)
  <2> DEFINE K == Editor!Kept(input, c + 1, e)
             L == Editor!Kept(input, c + 1, e + 1)
  <2>1. \A i : i \in L <=> i \in K /\ RoomBehind(input, i, e + 1) BY KeptMore
  <2>2. ToSet(s) = K BY <1>1
  <2> HIDE DEF K, L
  <2>3. ToSet(s) = L BY <1>6, <2>1, <2>2
  <2> QED BY <2>3 DEF L
<1> QED BY <1>1, <1>5, <1>7 DEF LineIs, n

LEMMA LineBegins ==
  ASSUME NEW input, NEW c \in Nat
  PROVE  LineIs(input, c, c, <<>>, <<>>)
<1> DEFINE z == <<>>
<1>1. Editor!Kept(input, c + 1, c) = {} BY DEF Editor!Kept
<1>2. z \in Seq(Nat) /\ z \in Seq(Printable) /\ Len(z) = 0 /\ DOMAIN z = {} OBVIOUS
<1>3. Increasing(z) /\ ToSet(z) = {} BY <1>2, EmptyIsListing DEF Increasing, Listing
<1> HIDE DEF z
<1>4. LineIs(input, c, c, z, z) BY <1>1, <1>2, <1>3 DEF LineIs
<1> QED BY <1>4 DEF z

-----------------------------------------------------------------------------
(* The lines between newlines. *)

\* c is the last newline up to e.
Ends(input, c, e) ==
  /\ c \in Nat /\ c <= e /\ c \in Editor!Newlines(input)
  /\ \A x \in Editor!Newlines(input) : x <= e => x <= c

\* The newlines up to e that end a line.
Enders(input, e) ==
  {x \in Editor!Newlines(input) \ {0} : x <= e /\ Editor!LineAt(input, x) # <<>>}

OutIs(input, e, o, lines) ==
  /\ o \in Seq(Nat) /\ Increasing(o) /\ ToSet(o) = Enders(input, e)
  /\ lines \in Seq(Seq(Printable)) /\ Len(lines) = Len(o)
  /\ \A k \in 1 .. Len(o) : lines[k] = Editor!LineAt(input, o[k])

\* After e bytes the editor holds what survives of the last line, and has
\* given away the lines before it.
Edited(input, e, t) ==
  \E c, s, o : /\ Ends(input, c, e)
               /\ LineIs(input, c, e, s, t.line)
               /\ OutIs(input, e, o, t.out)

LEMMA NewlinesOf ==
  ASSUME NEW B, NEW input \in Seq(B)
  PROVE  /\ Editor!Newlines(input) \subseteq 0 .. Len(input)
         /\ 0 \in Editor!Newlines(input)
         /\ \A e \in 1 .. Len(input) :
              e \in Editor!Newlines(input) <=> input[e] = Editor!Newline
<1>1. DOMAIN input = 1 .. Len(input) /\ Len(input) \in Nat BY LenProperties
<1> DEFINE N == Editor!Newlines(input)
<1>2. \A e : e \in N <=> e = 0 \/ (e \in 1 .. Len(input) /\ input[e] = Editor!Newline)
  BY <1>1 DEF Editor!Newlines
<1> HIDE DEF N
<1>3. N \subseteq 0 .. Len(input) /\ 0 \in N
      /\ \A e \in 1 .. Len(input) : e \in N <=> input[e] = Editor!Newline
  BY <1>1, <1>2
<1> QED BY <1>3 DEF N

LEMMA StartIs ==
  ASSUME NEW B, NEW input \in Seq(B), NEW e \in Nat, NEW c, Ends(input, c, e)
  PROVE  Editor!Start(input, e + 1) = c
<1> DEFINE N == Editor!Newlines(input)
           b == Editor!Start(input, e + 1)
<1>1. N \subseteq Nat BY NewlinesOf
<1>2. c \in Nat /\ c <= e /\ c \in N /\ \A x \in N : x <= e => x <= c BY DEF Ends
<1>3. c \in N /\ c < e + 1 /\ \A x \in N : x < e + 1 => x <= c
  <2> HIDE DEF N
  <2> QED BY <1>1, <1>2
<1>4. b \in N /\ b < e + 1 /\ \A x \in N : x < e + 1 => x <= b
  <2>1. \E y \in N : y < e + 1 /\ \A x \in N : x < e + 1 => x <= y BY <1>3
  <2> QED BY <2>1, Zenon DEF Editor!Start
<1> HIDE DEF b, N
<1>5. b <= c /\ c <= b /\ b \in Nat BY <1>1, <1>3, <1>4
<1>6. b = c BY <1>2, <1>5
<1> QED BY <1>6 DEF b

LEMMA EndersMore ==
  ASSUME NEW B, NEW input \in Seq(B), NEW e \in 0 .. Len(input) - 1
  PROVE  \A x : x \in Enders(input, e + 1) <=>
                  \/ x \in Enders(input, e)
                  \/ x = e + 1 /\ input[e + 1] = Editor!Newline /\ Editor!LineAt(input, x) # <<>>
<1> DEFINE N == Editor!Newlines(input)
           l(x) == Editor!LineAt(input, x)
<1>1. Len(input) \in Nat BY LenProperties
<1>2. e \in Nat /\ e + 1 \in 1 .. Len(input) BY <1>1
<1>3. N \subseteq Nat /\ (e + 1 \in N <=> input[e + 1] = Editor!Newline)
  BY <1>1, <1>2, NewlinesOf
<1> HIDE DEF N
<1>4. \A x \in N : x <= e + 1 <=> x <= e \/ x = e + 1 BY <1>2, <1>3
<1>5. e + 1 # 0 BY <1>2
<1> HIDE DEF l
<1>6. \A x : x \in {y \in N \ {0} : y <= e + 1 /\ l(y) # <<>>} <=>
               \/ x \in {y \in N \ {0} : y <= e /\ l(y) # <<>>}
               \/ x = e + 1 /\ input[e + 1] = Editor!Newline /\ l(x) # <<>>
  BY <1>2, <1>3, <1>4, <1>5
<1> QED BY <1>6 DEF Enders, N, l

LEMMA OutSame ==
  ASSUME NEW B, NEW input \in Seq(B), NEW e \in 0 .. Len(input) - 1, NEW o, NEW lines,
         OutIs(input, e, o, lines),
         input[e + 1] = Editor!Newline => Editor!LineAt(input, e + 1) = <<>>
  PROVE  OutIs(input, e + 1, o, lines)
<1>1. Enders(input, e + 1) = Enders(input, e) BY EndersMore
<1> QED BY <1>1 DEF OutIs

LEMMA OutMore ==
  ASSUME NEW B, NEW input \in Seq(B), NEW e \in 0 .. Len(input) - 1, NEW o, NEW lines,
         OutIs(input, e, o, lines), NEW text \in Seq(Printable), text # <<>>,
         input[e + 1] = Editor!Newline, Editor!LineAt(input, e + 1) = text
  PROVE  OutIs(input, e + 1, Append(o, e + 1), Append(lines, text))
<1> DEFINE a == Append(o, e + 1)
           t == Append(lines, text)
           n == Len(o)
           V == Seq(Printable)
<1>1. /\ o \in Seq(Nat) /\ Increasing(o) /\ ToSet(o) = Enders(input, e)
      /\ lines \in Seq(V) /\ Len(lines) = n
      /\ \A k \in 1 .. n : lines[k] = Editor!LineAt(input, o[k])
  BY DEF OutIs
<1>2. e \in Nat /\ e + 1 \in Nat /\ n \in Nat BY <1>1, LenProperties
<1>3. \A x \in ToSet(o) : x < e + 1
  <2>1. Editor!Newlines(input) \subseteq Nat BY NewlinesOf
  <2>2. \A x \in Enders(input, e) : x \in Nat /\ x <= e BY <2>1 DEF Enders
  <2> QED BY <1>1, <1>2, <2>2
<1>4. /\ a \in Seq(Nat) /\ Increasing(a) /\ Len(a) = n + 1
      /\ ToSet(a) = ToSet(o) \cup {e + 1} /\ a[n + 1] = e + 1
      /\ \A i \in 1 .. n : a[i] = o[i]
  BY <1>1, <1>2, <1>3, IncreasingAppend
<1>5. text \in V OBVIOUS
<1>6. /\ t \in Seq(V) /\ Len(t) = n + 1 /\ t[n + 1] = text
      /\ \A i \in 1 .. n : t[i] = lines[i]
  <2> HIDE DEF V
  <2> QED BY <1>1, <1>5, AppendProperties
<1>7. Enders(input, e + 1) = Enders(input, e) \cup {e + 1} BY EndersMore
<1> HIDE DEF a, t, n
<1>8. \A k \in 1 .. Len(a) : t[k] = Editor!LineAt(input, a[k])
  <2> TAKE k \in 1 .. Len(a)
  <2>1. CASE k \in 1 .. n BY <1>1, <1>4, <1>6, <2>1
  <2>2. CASE k = n + 1 BY <1>4, <1>6, <2>2
  <2>3. k \in 1 .. n \/ k = n + 1 BY <1>2, <1>4
  <2> QED BY <2>1, <2>2, <2>3
<1>9. ToSet(a) = Enders(input, e + 1) /\ Len(t) = Len(a) BY <1>1, <1>4, <1>6, <1>7
<1>10. OutIs(input, e + 1, a, t) BY <1>4, <1>6, <1>8, <1>9 DEF OutIs
<1> QED BY <1>10 DEF a, t

LEMMA EditedStep ==
  ASSUME NEW B, NEW input \in Seq(B), NEW e \in 0 .. Len(input) - 1, Editor!Fits(input),
         NEW t \in EditorStates, Edited(input, e, t)
  PROVE  Edited(input, e + 1, Editor!Type(t, input[e + 1]))
<1> DEFINE b == input[e + 1]
           u == Editor!Type(t, b)
<1>1. PICK c, s, o : /\ Ends(input, c, e)
                     /\ LineIs(input, c, e, s, t.line)
                     /\ OutIs(input, e, o, t.out)
  BY DEF Edited
<1>2. Len(input) \in Nat /\ DOMAIN input = 1 .. Len(input) BY LenProperties
<1>3. e \in Nat /\ e + 1 \in Nat /\ e + 1 \in 1 .. Len(input) BY <1>2
<1>4. c \in Nat /\ c <= e BY <1>1 DEF Ends
<1>5. Editor!Start(input, e + 1) = c BY <1>1, <1>3, StartIs
<1>6. t.line \in Seq(Printable) /\ t.out \in Seq(Seq(Printable)) /\ Len(t.line) \in Nat
  <2>1. t.line \in Seq(Printable) /\ t.out \in Seq(Seq(Printable)) BY DEF EditorStates
  <2> QED BY <2>1, LenProperties
<1>7. /\ Editor!Newlines(input) \subseteq Nat
      /\ e + 1 \in Editor!Newlines(input) <=> b = Editor!Newline
  BY <1>2, <1>3, NewlinesOf
<1>8. \A x \in Printable : x # Editor!Backspace /\ x # Editor!Newline BY FlowAssumption
<1>9. ASSUME b # Editor!Newline PROVE Ends(input, c, e + 1)
  <2>1. \A x \in Editor!Newlines(input) : x <= e + 1 => x <= e BY <1>3, <1>7, <1>9
  <2> QED BY <1>1, <1>3, <2>1 DEF Ends
<1> HIDE DEF b, u
<1>10. u = Editor!Type(t, b) /\ b = input[e + 1] BY DEF u, b
<1>11. CASE b \in Printable
  <2> DEFINE w == Append(t.line, b)
  <2>1. LineIs(input, c, e + 1, Append(s, e + 1), w)
    BY <1>1, <1>3, <1>4, <1>10, <1>11, LinePrintable
  <2>2. Editor!Survivors(input, c + 1, e + 1) = w
    <3> HIDE DEF w
    <3> QED BY <1>3, <1>4, <2>1, SurvivorsListed
  <2>3. Len(w) = Len(t.line) + 1 BY <1>6, <1>11, AppendProperties
  <2>4. Len(w) <= LineSize BY <1>2, <1>3, <1>5, <2>2 DEF Editor!Fits
  <2>5. Len(t.line) < LineSize BY <1>6, <2>3, <2>4, FlowAssumption
  <2>6. u = [t EXCEPT !.line = Append(@, b)]
    BY <1>10, <1>11, <2>5 DEF Editor!Type, Editor!HasRoom
  <2>7. u.line = w /\ u.out = t.out BY <2>6 DEF EditorStates
  <2>8. OutIs(input, e + 1, o, t.out) /\ Ends(input, c, e + 1)
    BY <1>1, <1>8, <1>9, <1>10, <1>11, OutSame
  <2>9. Edited(input, e + 1, u) BY <2>1, <2>7, <2>8 DEF Edited
  <2> QED BY <1>10, <2>9
<1>12. CASE b = Editor!Backspace /\ t.line # <<>>
  <2> DEFINE w == Editor!Front(t.line)
  <2>1. LineIs(input, c, e + 1, Editor!Front(s), w)
    BY <1>1, <1>3, <1>4, <1>10, <1>12, LineErased
  <2>2. b \notin Printable BY <1>8, <1>12
  <2>3. u = [t EXCEPT !.line = Editor!Front(@)] BY <1>10, <1>12, <2>2 DEF Editor!Type
  <2>4. u.line = w /\ u.out = t.out BY <2>3 DEF EditorStates
  <2>5. b # Editor!Newline BY <1>12 DEF Editor!Backspace, Editor!Newline
  <2>6. OutIs(input, e + 1, o, t.out) /\ Ends(input, c, e + 1)
    BY <1>1, <1>9, <1>10, <2>5, OutSame
  <2>7. Edited(input, e + 1, u) BY <2>1, <2>4, <2>6 DEF Edited
  <2> QED BY <1>10, <2>7
<1>13. CASE b = Editor!Newline
  <2>1. b \notin Printable /\ b # Editor!Backspace
    BY <1>8, <1>13 DEF Editor!Backspace, Editor!Newline
  <2>2. u = Editor!Ended(t) BY <1>10, <1>13, <2>1 DEF Editor!Type
  <2>3. u.line = <<>> /\ u.out = IF t.line = <<>> THEN t.out ELSE Append(t.out, t.line)
    BY <2>2 DEF Editor!Ended
  <2>4. LineIs(input, e + 1, e + 1, <<>>, <<>>) BY <1>3, LineBegins
  <2>5. Ends(input, e + 1, e + 1) BY <1>3, <1>7, <1>13 DEF Ends
  <2>6. Editor!LineAt(input, e + 1) = t.line
    <3>1. (e + 1) - 1 = e BY <1>3
    <3>2. Editor!Survivors(input, c + 1, e) = t.line BY <1>1, <1>3, <1>4, SurvivorsListed
    <3> QED BY <1>5, <3>1, <3>2 DEF Editor!LineAt
  <2>7. \E q : OutIs(input, e + 1, q, u.out)
    <3>1. CASE t.line = <<>> BY <1>1, <2>3, <2>6, <3>1, OutSame
    <3>2. CASE t.line # <<>>
      <4>1. OutIs(input, e + 1, Append(o, e + 1), Append(t.out, t.line))
        BY <1>1, <1>6, <1>10, <1>13, <2>6, <3>2, OutMore
      <4> QED BY <2>3, <3>2, <4>1
    <3> QED BY <3>1, <3>2
  <2>8. Edited(input, e + 1, u) BY <2>3, <2>4, <2>5, <2>7 DEF Edited
  <2> QED BY <1>10, <2>8
<1>14. CASE /\ b \notin Printable /\ b # Editor!Newline
            /\ b = Editor!Backspace => t.line = <<>>
  <2>1. u = t BY <1>10, <1>14 DEF Editor!Type
  <2>2. LineIs(input, c, e + 1, s, t.line) BY <1>1, <1>3, <1>4, <1>10, <1>14, LineSame
  <2>3. OutIs(input, e + 1, o, t.out) /\ Ends(input, c, e + 1)
    BY <1>1, <1>9, <1>10, <1>14, OutSame
  <2>4. Edited(input, e + 1, u) BY <2>1, <2>2, <2>3 DEF Edited
  <2> QED BY <1>10, <2>4
<1> QED BY <1>11, <1>12, <1>13, <1>14

\* The room a line has, in the editor and in the lines it gave away.
Room(text, lines) ==
  Len(text) <= LineSize /\ \A i \in DOMAIN lines : Len(lines[i]) \in 1 .. LineSize

Roomy(t) == Room(t.line, t.out)

LEMMA RoomyStep ==
  ASSUME NEW t \in EditorStates, Roomy(t), NEW b
  PROVE  Roomy(Editor!Type(t, b))
<1> DEFINE u == Editor!Type(t, b)
<1>1. /\ t.line \in Seq(Printable) /\ t.out \in Seq(Seq(Printable)) /\ Len(t.line) \in Nat
      /\ DOMAIN t.out = 1 .. Len(t.out) /\ Len(t.out) \in Nat
  <2>1. t.line \in Seq(Printable) /\ t.out \in Seq(Seq(Printable)) BY DEF EditorStates
  <2> QED BY <2>1, LenProperties
<1>2. LineSize \in Nat /\ Room(t.line, t.out) BY FlowAssumption DEF Roomy
<1>3. CASE b \in Printable /\ Editor!HasRoom(t.line)
  <2>1. u = [t EXCEPT !.line = Append(@, b)] BY <1>3 DEF Editor!Type
  <2>2. u.line = Append(t.line, b) /\ u.out = t.out BY <2>1 DEF EditorStates
  <2>3. Len(u.line) = Len(t.line) + 1 BY <1>1, <1>3, <2>2, AppendProperties
  <2>4. Len(t.line) < LineSize BY <1>3 DEF Editor!HasRoom
  <2> HIDE DEF u
  <2>5. Len(u.line) <= LineSize BY <1>1, <1>2, <2>3, <2>4
  <2>6. Room(u.line, t.out) BY <1>2, <2>5 DEF Room
  <2>7. Roomy(u) BY <2>2, <2>6 DEF Roomy
  <2> QED BY <2>7 DEF u
<1>4. CASE ~(b \in Printable /\ Editor!HasRoom(t.line)) /\ b = Editor!Backspace /\ t.line # <<>>
  <2>1. u = [t EXCEPT !.line = Editor!Front(@)] BY <1>4 DEF Editor!Type
  <2>2. u.line = Editor!Front(t.line) /\ u.out = t.out BY <2>1 DEF EditorStates
  <2>3. Len(u.line) = Len(t.line) - 1 BY <1>1, <1>4, <2>2, FrontOf
  <2> HIDE DEF u
  <2>4. Len(u.line) <= LineSize BY <1>1, <1>2, <2>3 DEF Room
  <2>5. Room(u.line, t.out) BY <1>2, <2>4 DEF Room
  <2>6. Roomy(u) BY <2>2, <2>5 DEF Roomy
  <2> QED BY <2>6 DEF u
<1>5. CASE /\ ~(b \in Printable /\ Editor!HasRoom(t.line))
           /\ ~(b = Editor!Backspace /\ t.line # <<>>) /\ b = Editor!Newline
  <2>1. u = Editor!Ended(t) BY <1>5, Zenon DEF Editor!Type
  <2>2. u.line = <<>> /\ u.out = IF t.line = <<>> THEN t.out ELSE Append(t.out, t.line)
    BY <2>1 DEF Editor!Ended
  <2>3. Len(u.line) <= LineSize BY <1>2, <2>2
  <2> SUFFICES Room(u.line, u.out) BY DEF Roomy
  <2> HIDE DEF u
  <2>4. CASE t.line = <<>> BY <1>2, <2>2, <2>3, <2>4 DEF Room
  <2>5. CASE t.line # <<>>
    <3> DEFINE q == Append(t.out, t.line)
               V == Seq(Printable)
    <3>1. /\ q \in Seq(V) /\ Len(q) = Len(t.out) + 1 /\ q[Len(t.out) + 1] = t.line
          /\ \A i \in 1 .. Len(t.out) : q[i] = t.out[i]
      <4>1. t.out \in Seq(V) /\ t.line \in V BY <1>1
      <4> HIDE DEF V
      <4> QED BY <4>1, AppendProperties
    <3>2. DOMAIN q = 1 .. Len(t.out) + 1
      <4> HIDE DEF q, V
      <4> QED BY <3>1, LenProperties
    <3>3. u.out = q BY <2>2, <2>5
    <3>4. Len(t.line) # 0 BY <1>1, <2>5, EmptySeq
    <3>5. Len(t.line) \in 1 .. LineSize BY <1>1, <1>2, <3>4 DEF Room
    <3> HIDE DEF q, V
    <3>6. \A i \in DOMAIN q : Len(q[i]) \in 1 .. LineSize
      <4> SUFFICES ASSUME NEW i \in 1 .. Len(t.out) + 1 PROVE Len(q[i]) \in 1 .. LineSize BY <3>2
      <4>1. CASE i \in 1 .. Len(t.out) BY <1>1, <1>2, <3>1, <4>1 DEF Room
      <4>2. CASE i = Len(t.out) + 1 BY <3>1, <3>5, <4>2
      <4> QED BY <1>1, <4>1, <4>2
    <3> QED BY <2>3, <3>3, <3>6 DEF Room
  <2> QED BY <2>4, <2>5
<1>6. CASE /\ ~(b \in Printable /\ Editor!HasRoom(t.line))
           /\ ~(b = Editor!Backspace /\ t.line # <<>>) /\ b # Editor!Newline
  <2>1. u = t BY <1>6, Zenon DEF Editor!Type
  <2> QED BY <2>1
<1> QED BY <1>3, <1>4, <1>5, <1>6

\* The editor's line keeps its type and its room over any bytes.
LEMMA EditorKeepsRoom ==
  ASSUME NEW begun \in Seq(Printable), Len(begun) <= LineSize, NEW B, NEW input \in Seq(B)
  PROVE  LET t == Editor!Translate(begun, input) IN t \in EditorStates /\ Roomy(t)
<1> DEFINE n == Len(input)
           t == Editor!Translate(begun, input)
<1>1. n \in Nat BY LenProperties
<1>2. PICK g : Edits(g, begun, input) /\ t = g[n] BY TranslateEdits
<1> DEFINE P == {k \in 0 .. n : g[k] \in EditorStates /\ Roomy(g[k])}
<1>3. 0 \in P
  <2>1. g[0] = Begun(begun) /\ g[0] \in EditorStates BY <1>1, <1>2 DEF Edits
  <2>2. g[0].line = begun /\ g[0].out = <<>> BY <2>1 DEF Begun
  <2>3. DOMAIN <<>> = {} OBVIOUS
  <2> QED BY <1>1, <2>1, <2>2, <2>3 DEF Roomy, Room
<1>4. ASSUME NEW k \in 0 .. n - 1, k \in P PROVE k + 1 \in P
  <2>1. k + 1 \in 1 .. n /\ k + 1 \in 0 .. n /\ (k + 1) - 1 = k BY <1>1
  <2>2. g[k + 1] = Editor!Type(g[k], input[k + 1]) /\ g[k + 1] \in EditorStates
    BY <1>2, <2>1 DEF Edits
  <2>3. Roomy(Editor!Type(g[k], input[k + 1])) BY <1>4, RoomyStep
  <2> QED BY <2>1, <2>2, <2>3
<1>5. \A k \in 0 .. n : k \in P
  <2> HIDE DEF P, n
  <2> QED BY <1>1, <1>3, <1>4, NumbersUpTo
<1> QED BY <1>1, <1>2, <1>5

LEMMA AllGiven ==
  ASSUME NEW B, NEW input \in Seq(B), NEW o, NEW lines, OutIs(input, Len(input), o, lines)
  PROVE  lines = Editor!TypedLines(input)
<1> DEFINE full == {e \in Editor!Newlines(input) \ {0} : Editor!LineAt(input, e) # <<>>}
           n == Len(o)
<1>1. /\ o \in Seq(Nat) /\ Increasing(o) /\ ToSet(o) = Enders(input, Len(input))
      /\ lines \in Seq(Seq(Printable)) /\ Len(lines) = n
      /\ \A k \in 1 .. n : lines[k] = Editor!LineAt(input, o[k])
  BY DEF OutIs
<1>2. ToSet(o) = full
  <2>1. \A x \in Editor!Newlines(input) : x <= Len(input) BY NewlinesOf, LenProperties
  <2> QED BY <1>1, <2>1 DEF Enders
<1>3. n \in Nat /\ Editor!Cardinality(full) = n
  BY <1>1, <1>2, IncreasingLists, EditorCounts, LenProperties
<1>4. \A k \in 1 .. n : Editor!Nth(full, k) = o[k] BY <1>1, <1>2, NthListed
<1>5. Editor!TypedLines(input)
        = [k \in 1 .. Editor!Cardinality(full) |-> Editor!LineAt(input, Editor!Nth(full, k))]
  BY Zenon DEF Editor!TypedLines
<1>6. lines = [k \in 1 .. n |-> lines[k]] BY <1>1, LenProperties
<1> HIDE DEF full, n
<1> QED BY <1>1, <1>3, <1>4, <1>5, <1>6

\* Whatever bytes a client sends, and however long the line buffer is: lines
\* that fit arrive as they were typed, backspaces applied, and no line that
\* arrives is empty or longer than the buffer.
THEOREM EditorGivesWhatIsTyped ==
  \A input \in Seq(Editor!Byte) : Editor!LinesAreTyped(input)
<1> SUFFICES ASSUME NEW input \in Seq(Editor!Byte) PROVE Editor!LinesAreTyped(input) OBVIOUS
<1> DEFINE n == Len(input)
           T == Editor!Translate(<<>>, input)
<1>1. n \in Nat BY LenProperties
<1>2. <<>> \in Seq(Printable) OBVIOUS
<1>3. PICK g : Edits(g, <<>>, input) /\ T = g[n] BY <1>2, TranslateEdits
<1>4. /\ \A k \in 0 .. n : g[k] \in EditorStates
      /\ g[0].line = <<>> /\ g[0].out = <<>>
      /\ \A k \in 0 .. n - 1 : g[k + 1] = Editor!Type(g[k], input[k + 1])
  <2>1. \A k \in 1 .. n : g[k] = Editor!Type(g[k - 1], input[k]) BY <1>3 DEF Edits
  <2>2. \A k \in 0 .. n - 1 : k + 1 \in 1 .. n /\ (k + 1) - 1 = k BY <1>1
  <2> QED BY <1>3, <2>1, <2>2 DEF Edits, Begun
<1> HIDE DEF T, n
<1>5. ASSUME Editor!Fits(input) PROVE T.out = Editor!TypedLines(input)
  <2> DEFINE P == {k \in 0 .. n : Edited(input, k, g[k])}
  <2>1. 0 \in P
    <3>1. Ends(input, 0, 0) BY NewlinesOf DEF Ends
    <3>2. LineIs(input, 0, 0, <<>>, <<>>) BY LineBegins
    <3>3. OutIs(input, 0, <<>>, <<>>)
      <4> DEFINE z == <<>>
      <4>1. Enders(input, 0) = {}
        <5>1. \A x \in Editor!Newlines(input) : x \in Nat BY NewlinesOf
        <5> QED BY <5>1 DEF Enders
      <4>2. z \in Seq(Nat) /\ z \in Seq(Seq(Printable)) /\ Len(z) = 0 /\ DOMAIN z = {} OBVIOUS
      <4>3. Increasing(z) /\ ToSet(z) = {} BY <4>2, EmptyIsListing DEF Increasing, Listing
      <4> HIDE DEF z
      <4>4. OutIs(input, 0, z, z) BY <4>1, <4>2, <4>3 DEF OutIs
      <4> QED BY <4>4 DEF z
    <3> QED BY <1>1, <1>4, <3>1, <3>2, <3>3 DEF Edited
  <2>2. ASSUME NEW k \in 0 .. n - 1, k \in P PROVE k + 1 \in P
    <3>1. g[k] \in EditorStates /\ Edited(input, k, g[k]) /\ k + 1 \in 0 .. n
      BY <1>1, <1>4, <2>2
    <3>2. k \in 0 .. Len(input) - 1 BY DEF n
    <3>3. Edited(input, k + 1, Editor!Type(g[k], input[k + 1]))
      BY <1>5, <3>1, <3>2, EditedStep
    <3> QED BY <1>4, <3>1, <3>3
  <2>3. \A k \in 0 .. n : k \in P
    <3> HIDE DEF P
    <3> QED BY <1>1, <2>1, <2>2, NumbersUpTo
  <2>4. Edited(input, n, T) BY <1>1, <1>3, <2>3
  <2>5. PICK o : OutIs(input, Len(input), o, T.out) BY <2>4 DEF Edited, n
  <2> QED BY <2>5, AllGiven
<1>6. \A i \in DOMAIN T.out : Len(T.out[i]) \in 1 .. LineSize
  <2>1. Len(<<>>) <= LineSize BY FlowAssumption
  <2>2. Roomy(T) BY <1>2, <2>1, EditorKeepsRoom DEF T
  <2> QED BY <2>2 DEF Roomy, Room
<1> QED BY <1>5, <1>6 DEF Editor!LinesAreTyped, T

\* Hence of every input that is tried beside the connection.
THEOREM TrialsGiveWhatIsTyped == TrialSpec => []LinesAreTyped
<1> DEFINE Tried == trial \in BoundedSeq(Editor!Byte, 6)
<1>1. TrialInit => Tried
  BY DEF TrialInit
<1>2. Tried /\ [TrialNext]_<<vars, trial>> => Tried'
  BY DEF TrialNext
<1>3. Tried => LinesAreTyped
  <2> HAVE Tried
  <2>1. PICK n \in 0 .. 6 : trial \in [1 .. n -> Editor!Byte]
    BY DEF BoundedSeq, SeqOf
  <2>2. trial \in Seq(Editor!Byte) BY <2>1, SeqDef
  <2> QED BY <2>2, EditorGivesWhatIsTyped DEF LinesAreTyped
<1> QED BY <1>1, <1>2, <1>3, PTL DEF TrialSpec

-----------------------------------------------------------------------------
(* Types. *)

LEMMA PassesAre ==
  Range(Passes) = {"accept", "listen", "send", "check", "close", "loop"}
<1>1. DOMAIN Passes = 1 .. 6 BY DEF Passes
<1>2. /\ Passes[1] = "accept" /\ Passes[2] = "listen" /\ Passes[3] = "send"
      /\ Passes[4] = "check" /\ Passes[5] = "close" /\ Passes[6] = "loop"
  BY DEF Passes
<1>3. 1 .. 6 = {1, 2, 3, 4, 5, 6} OBVIOUS
<1> QED BY <1>1, <1>2, <1>3 DEF Range

LEMMA LinesAreSequences ==
  /\ <<>> \in BoundedSeq(Printable, LineSize)
  /\ \A x : x \in BoundedSeq(Printable, LineSize) <=> x \in Seq(Printable) /\ Len(x) <= LineSize
<1>1. LineSize \in Nat BY FlowAssumption
<1>2. ASSUME NEW x \in BoundedSeq(Printable, LineSize)
      PROVE  x \in Seq(Printable) /\ Len(x) <= LineSize
  <2>1. PICK m \in 0 .. LineSize : x \in [1 .. m -> Printable] BY DEF BoundedSeq, SeqOf
  <2>2. x \in Seq(Printable) /\ Len(x) = m BY <1>1, <2>1, SeqDef, LenProperties
  <2> QED BY <1>1, <2>2
<1>3. ASSUME NEW x \in Seq(Printable), Len(x) <= LineSize
      PROVE  x \in BoundedSeq(Printable, LineSize)
  <2>1. Len(x) \in 0 .. LineSize /\ x \in [1 .. Len(x) -> Printable] BY <1>1, <1>3, LenProperties
  <2> QED BY <2>1 DEF BoundedSeq, SeqOf
<1>4. <<>> \in Seq(Printable) /\ Len(<<>>) <= LineSize BY <1>1
<1> QED BY <1>2, <1>3, <1>4

\* The bytes of this second are among those of this chunk.
LEMMA FirstIsPart ==
  ASSUME bytes \in [1 .. Chunk -> Nat], NEW n \in 1 .. Chunk
  PROVE  bytes[1] <= Recent(n)
<1>1. Chunk \in Nat BY AllowanceIsNat
<1> DEFINE P == {k \in 0 .. n - 1 : Recent(k + 1) \in Int /\ bytes[1] <= Recent(k + 1)}
<1>2. \A k \in 0 .. n - 1 : /\ IsFiniteSet(1 .. k + 1) /\ k + 1 \in 1 .. k + 1
                            /\ (1 .. k + 1) \ {k + 1} = 1 .. k
                            /\ \A i \in 1 .. k + 1 : bytes[i] \in Nat /\ bytes[i] \in Int
  <2> TAKE k \in 0 .. n - 1
  <2>1. k + 1 \in Nat /\ 1 .. k + 1 \subseteq 1 .. Chunk BY <1>1
  <2> QED BY <2>1, SecondsAreFinite
<1>3. ASSUME NEW k \in 0 .. n - 1
      PROVE  /\ Recent(k + 1) \in Int /\ Recent(k + 1) = bytes[k + 1] + SumOver(bytes, 1 .. k)
             /\ bytes[k + 1] \in Nat
  <2>1. bytes[k + 1] \in Nat BY <1>2
  <2>2. SumOver(bytes, 1 .. k + 1) \in Int BY <1>2, SumType
  <2>3. SumOver(bytes, 1 .. k + 1) = bytes[k + 1] + SumOver(bytes, (1 .. k + 1) \ {k + 1})
    <3> DEFINE S == 1 .. k + 1
    <3>1. IsFiniteSet(S) /\ k + 1 \in S /\ \A i \in S : bytes[i] \in Int BY <1>2
    <3> HIDE DEF S
    <3>2. SumOver(bytes, S) = bytes[k + 1] + SumOver(bytes, S \ {k + 1}) BY <3>1, SumElement
    <3> QED BY <3>2 DEF S
  <2>4. SumOver(bytes, (1 .. k + 1) \ {k + 1}) = SumOver(bytes, 1 .. k) BY <1>2
  <2> QED BY <2>1, <2>2, <2>3, <2>4 DEF Recent
<1>4. 0 \in P
  <2>1. 0 \in 0 .. n - 1 /\ 0 + 1 = 1 BY <1>1
  <2>2. SumOver(bytes, 1 .. 0) = 0
    <3>1. 1 .. 0 = {} OBVIOUS
    <3> QED BY <3>1, SumEmpty
  <2>3. Recent(0 + 1) \in Int /\ Recent(0 + 1) = bytes[0 + 1] + 0 /\ bytes[0 + 1] \in Nat
    BY <1>3, <2>1, <2>2
  <2> QED BY <2>1, <2>3
<1>5. ASSUME NEW k \in 0 .. (n - 1) - 1, k \in P PROVE k + 1 \in P
  <2>1. k + 1 \in 0 .. n - 1 BY <1>1
  <2>2. Recent(k + 1) \in Int /\ bytes[1] <= Recent(k + 1) /\ bytes[1] \in Nat BY <1>1, <1>5
  <2>3. SumOver(bytes, 1 .. k + 1) = Recent(k + 1) BY DEF Recent
  <2>4. /\ Recent((k + 1) + 1) \in Int /\ bytes[(k + 1) + 1] \in Nat
        /\ Recent((k + 1) + 1) = bytes[(k + 1) + 1] + Recent(k + 1)
    BY <1>3, <2>1, <2>3
  <2>5. bytes[1] <= Recent((k + 1) + 1) BY <2>2, <2>4
  <2> QED BY <2>1, <2>4, <2>5
<1> HIDE DEF P
<1>6. \A k \in 0 .. n - 1 : k \in P
  <2>1. n - 1 \in Nat BY <1>1
  <2> DEFINE m == n - 1
  <2>2. m \in Nat /\ \A k \in 0 .. m - 1 : k \in P => k + 1 \in P BY <1>5, <2>1
  <2> HIDE DEF m
  <2>3. \A k \in 0 .. m : k \in P BY <1>4, <2>2, NumbersUpTo
  <2> QED BY <2>3 DEF m
<1>7. n - 1 \in 0 .. n - 1 /\ (n - 1) + 1 = n BY <1>1
<1> QED BY <1>6, <1>7 DEF P

\* TypeOK in parts: the counts, the flags and what the meter keeps.
CountsTyped ==
  /\ phase \in 0 .. Chunk - 1 /\ buffered \in 0 .. Backlog
  /\ sendAge \in 0 .. Timeout + 1 /\ unread \in 0 .. Timeout + 1
  /\ healIn \in 0 .. HealTime

FlagsTyped ==
  /\ pc \in Range(Passes) /\ fate \in Fate
  /\ open \in BOOLEAN /\ fresh \in BOOLEAN /\ waiting \in BOOLEAN
  /\ closed \in BOOLEAN /\ active \in BOOLEAN /\ gone \in BOOLEAN

MeterTyped ==
  rate \in 0 .. Allowance + ReadSize /\ bytes \in [1 .. Chunk -> 0 .. Allowance + ReadSize]

LineTyped == line \in BoundedSeq(Printable, LineSize)

LEMMA FlowTypeParts == TypeOK <=> CountsTyped /\ FlagsTyped /\ MeterTyped /\ LineTyped
BY DEF TypeOK, CountsTyped, FlagsTyped, MeterTyped, LineTyped

LEMMA FlowTypeInit == Init => TypeOK
<1> SUFFICES ASSUME Init PROVE TypeOK OBVIOUS
<1>1. /\ Allowance + ReadSize \in Nat /\ Chunk \in Nat \ {0} /\ Backlog \in Nat
      /\ Timeout \in Nat /\ HealTime \in Nat
  BY AllowanceIsNat, FlowAssumption
<1>2. MeterTyped BY <1>1 DEF Init, Quiet, MeterTyped
<1>3. CountsTyped BY <1>1 DEF Init, CountsTyped
<1>4. LineTyped BY LinesAreSequences DEF Init, LineTyped
<1>5. "accept" \in Range(Passes) /\ "none" \in Fate BY PassesAre DEF Fate
<1>6. FlagsTyped BY <1>5 DEF Init, FlagsTyped
<1> QED BY <1>2, <1>3, <1>4, <1>6, FlowTypeParts

LEMMA CountsTypedStep == CountsTyped /\ [Next]_vars => CountsTyped'
<1> SUFFICES ASSUME CountsTyped, [Next]_vars PROVE CountsTyped' OBVIOUS
<1> USE DEF CountsTyped
<1>1. /\ Timeout \in Nat /\ Backlog \in Nat /\ MaxBuffered \in Nat /\ MaxBuffered < Backlog
      /\ HealTime \in Nat /\ Chunk \in Nat \ {0}
  BY FlowAssumption
<1>2. ASSUME UNCHANGED <<phase, buffered, sendAge, unread, healIn>> PROVE CountsTyped'
  BY <1>2
<1>3. CASE Accept
  <2>1. CASE NewConnection /\ UNCHANGED Rest BY <1>1, <2>1 DEF NewConnection, Rest
  <2>2. CASE UNCHANGED <<backlog, history, Rest>> BY <2>2 DEF backlog, history, Rest
  <2> QED BY <1>3, <2>1, <2>2 DEF Accept
<1>4. CASE Receive
  <2>1. PICK given : Handled(given) BY <1>4 DEF Receive
  <2>2. buffered' = buffered \/ buffered' \in buffered .. Backlog BY <2>1, Zenon DEF Handled
  <2>3. buffered' \in 0 .. Backlog BY <1>1, <2>2
  <2> QED BY <1>4, <2>3 DEF Receive, Rest
<1>5. CASE Send
  <2>1. CASE UNCHANGED <<backlog, unread>> BY <1>5, <2>1 DEF Send, backlog, Rest
  <2>2. ASSUME NEW k \in 0 .. buffered, Sent(k), unread' = IF k > 0 THEN 0 ELSE unread
        PROVE  CountsTyped'
    <3>1. buffered' \in 0 .. Backlog BY <1>1, <2>2 DEF Sent
    <3>2. sendAge' \in 0 .. Timeout + 1 BY <1>1, <2>2 DEF Sent
    <3>3. unread' \in 0 .. Timeout + 1 BY <1>1, <2>2
    <3> QED BY <1>5, <3>1, <3>2, <3>3 DEF Send, Rest
  <2>3. CASE open /\ buffered > 0
    <3>1. PICK k \in IF gone THEN {0} ELSE 0 .. buffered :
            Sent(k) /\ unread' = IF k > 0 THEN 0 ELSE unread
      BY <1>5, <2>3 DEF Send
    <3>2. k \in 0 .. buffered BY <1>1
    <3> QED BY <2>2, <3>1, <3>2
  <2> QED BY <1>5, <2>1, <2>3 DEF Send
<1>6. CASE Loop
  <2>1. buffered' \in 0 .. Backlog BY <1>1, <1>6 DEF Loop, Statbar
  <2>2. healIn' \in 0 .. HealTime BY <1>1, <1>6 DEF Loop
  <2> QED BY <1>6, <2>1, <2>2 DEF Loop, history
<1>7. CASE Others
  <2>1. buffered' \in 0 .. Backlog BY <1>1, <1>7 DEF Others
  <2> QED BY <1>7, <2>1 DEF Others, history, Rest
<1>8. CASE Tick
  <2>1. phase' \in 0 .. Chunk - 1 BY <1>1, <1>8 DEF Tick
  <2>2. sendAge' \in 0 .. Timeout + 1 /\ unread' \in 0 .. Timeout + 1
    BY <1>1, <1>8 DEF Tick, UpTo
  <2>3. healIn' \in 0 .. HealTime /\ buffered' = buffered BY <1>1, <1>8 DEF Tick
  <2> QED BY <2>1, <2>2, <2>3
<1>9. CASE Disconnect \/ Idle \/ SendFails \/ Check \/ CloseConnections \/ Crash \/ UNCHANGED vars
  BY <1>2, <1>9
     DEF Disconnect, Idle, SendFails, Check, CloseConnections, Crash, backlog, history, Rest, vars
<1> QED BY <1>3, <1>4, <1>5, <1>6, <1>7, <1>8, <1>9 DEF Next, Pass

LEMMA FlagsTypedStep == FlagsTyped /\ [Next]_vars => FlagsTyped'
<1> SUFFICES ASSUME FlagsTyped, [Next]_vars PROVE FlagsTyped' OBVIOUS
<1> USE DEF FlagsTyped
<1>1. pc' \in Range(Passes)
  <2>1. \A p, q \in {"accept", "listen", "send", "check", "close", "loop"} :
          Turn(p, q) => pc' \in Range(Passes)
    BY PassesAre DEF Turn
  <2>2. pc' = pc \/ \E p, q \in {"accept", "listen", "send", "check", "close", "loop"} : Turn(p, q)
    BY DEF Next, Pass, Accept, Receive, Disconnect, Idle, Send, SendFails, Check,
           CloseConnections, Loop, Others, Crash, Tick, vars
  <2> QED BY <2>1, <2>2
<1>2. open' \in BOOLEAN /\ fate' \in Fate
  <2>1. \/ UNCHANGED <<open, fate>> \/ NewConnection
        \/ \E why \in {"flooded", "timeout", "overrun", "hungup", "swept"} : Erase(why)
    BY DEF Next, Pass, Accept, Receive, Disconnect, Idle, Send, SendFails, Check,
           CloseConnections, Loop, Others, Crash, Tick, vars
  <2> QED BY <2>1 DEF NewConnection, Erase, Fate
<1>3. CASE Accept BY <1>1, <1>2, <1>3 DEF Accept, NewConnection, flow, backlog, history, Rest
<1>4. CASE Receive
  <2>1. PICK given, n : Handled(given) /\ Metered(n) BY <1>4 DEF Receive
  <2>2. closed' \in BOOLEAN /\ active' \in BOOLEAN BY <2>1 DEF Handled
  <2>3. fresh' \in BOOLEAN BY <2>1 DEF Metered
  <2> QED BY <1>1, <1>2, <1>4, <2>2, <2>3 DEF Receive
<1>5. CASE Send
  <2>1. waiting' \in BOOLEAN BY <1>5 DEF Send, Sent, backlog
  <2> QED BY <1>1, <1>2, <1>5, <2>1 DEF Send, flow
<1>6. CASE Tick
  <2>1. fresh' \in BOOLEAN BY <1>6 DEF Tick
  <2> QED BY <1>1, <1>2, <1>6, <2>1 DEF Tick
<1>7. CASE Others BY <1>1, <1>2, <1>7 DEF Others, flow
<1>8. CASE Disconnect \/ Idle \/ SendFails \/ Check \/ CloseConnections \/ Loop \/ Crash
           \/ UNCHANGED vars
  BY <1>1, <1>2, <1>8
     DEF Disconnect, Idle, SendFails, Check, CloseConnections, Loop, Crash, flow, backlog, vars
<1> QED BY <1>3, <1>4, <1>5, <1>6, <1>7, <1>8 DEF Next, Pass

LEMMA MeterTypedStep == Metering /\ MeterTyped /\ [Next]_vars => MeterTyped'
<1> SUFFICES ASSUME Metering, MeterTyped, [Next]_vars PROVE MeterTyped' OBVIOUS
<1> DEFINE top == Allowance + ReadSize
<1>1. Allowance \in Nat /\ ReadSize \in Nat /\ Chunk \in Nat \ {0} /\ top \in Nat
  BY AllowanceIsNat, FlowAssumption
<1>2. rate \in 0 .. top /\ bytes \in [1 .. Chunk -> 0 .. top] BY DEF MeterTyped
<1>3. ASSUME UNCHANGED <<rate, bytes>> PROVE MeterTyped' BY <1>3 DEF MeterTyped
<1>4. CASE Accept
  <2>1. CASE NewConnection
    <3>1. rate' = 0 /\ bytes' = Quiet BY <2>1 DEF NewConnection
    <3>2. Quiet \in [1 .. Chunk -> 0 .. top] BY <1>1 DEF Quiet
    <3> QED BY <1>1, <3>1, <3>2 DEF MeterTyped
  <2> QED BY <1>3, <1>4, <2>1 DEF Accept, flow, history
<1>5. CASE Receive
  <2>1. PICK received \in BoundedSeq(Editor!Byte, ReadSize) \ {<<>>} :
          Metered(Len(received)) /\ bytes' = [bytes EXCEPT ![1] = @ + Len(received)]
    BY <1>5 DEF Receive
  <2> DEFINE n == Len(received)
  <2>2. n \in 1 .. ReadSize BY ReadLength
  <2>3. /\ phase + 1 \in 1 .. Chunk /\ bytes \in [1 .. Chunk -> Nat]
        /\ Recent(phase + 1) = Used /\ Used <= Allowance /\ Used \in Nat
    BY <1>1, <1>5 DEF Receive, Metering, Used
  <2>4. bytes[1] <= Recent(phase + 1) /\ bytes[1] \in Nat BY <1>1, <2>3, FirstIsPart
  <2>5. rate' = Used + n BY <2>1 DEF Metered, Used
  <2> HIDE DEF n
  <2>6. rate' \in 0 .. top BY <1>1, <2>2, <2>3, <2>5
  <2>7. bytes[1] + n \in 0 .. top BY <1>1, <2>2, <2>3, <2>4
  <2>8. bytes' = [bytes EXCEPT ![1] = @ + n] BY <2>1 DEF n
  <2>9. bytes' \in [1 .. Chunk -> 0 .. top]
    <3> HIDE DEF top
    <3> QED BY <1>2, <2>7, <2>8
  <2> QED BY <2>6, <2>9 DEF MeterTyped
<1>6. CASE Tick
  <2>1. \A i \in 1 .. Chunk : i # 1 => i - 1 \in 1 .. Chunk BY <1>1
  <2>2. bytes' \in [1 .. Chunk -> 0 .. top]
    <3>1. 0 \in 0 .. top BY <1>1
    <3>2. bytes' = [i \in 1 .. Chunk |-> IF i = 1 THEN 0 ELSE bytes[i - 1]] BY <1>6 DEF Tick
    <3> HIDE DEF top
    <3> QED BY <1>2, <2>1, <3>1, <3>2
  <2> QED BY <1>2, <1>6, <2>2 DEF MeterTyped, Tick
<1>7. CASE Disconnect \/ Idle \/ Send \/ SendFails \/ Check \/ CloseConnections \/ Loop
           \/ Others \/ Crash \/ UNCHANGED vars
  BY <1>3, <1>7
     DEF Disconnect, Idle, Send, SendFails, Check, CloseConnections, Loop, Others, Crash,
         flow, history, vars
<1> QED BY <1>4, <1>5, <1>6, <1>7 DEF Next, Pass

LEMMA LineTypedStep == LineTyped /\ [Next]_vars => LineTyped'
<1> SUFFICES ASSUME LineTyped, [Next]_vars PROVE LineTyped' OBVIOUS
<1> USE DEF LineTyped
<1>1. CASE Accept BY <1>1, LinesAreSequences DEF Accept, NewConnection
<1>2. CASE Receive
  <2>1. PICK received \in BoundedSeq(Editor!Byte, ReadSize) :
          line' = Editor!Translate(line, received).line
    BY <1>2 DEF Receive
  <2>2. received \in Seq(Editor!Byte)
    <3>1. PICK m \in 0 .. ReadSize : received \in [1 .. m -> Editor!Byte] BY DEF BoundedSeq, SeqOf
    <3> QED BY <3>1, FlowAssumption, SeqDef
  <2> DEFINE t == Editor!Translate(line, received)
  <2>3. line \in Seq(Printable) /\ Len(line) <= LineSize BY LinesAreSequences
  <2>4. t \in EditorStates /\ Roomy(t) BY <2>2, <2>3, EditorKeepsRoom
  <2>5. t.line \in Seq(Printable) /\ Len(t.line) <= LineSize
    <3> HIDE DEF t
    <3> QED BY <2>4 DEF EditorStates, Roomy, Room
  <2> QED BY <2>1, <2>5, LinesAreSequences
<1>3. CASE UNCHANGED line BY <1>3
<1>4. CASE Disconnect \/ Idle \/ Send \/ SendFails \/ Check \/ CloseConnections \/ Loop
           \/ Others \/ Crash \/ Tick \/ UNCHANGED vars
  BY <1>3, <1>4
     DEF Disconnect, Idle, Send, SendFails, Check, CloseConnections, Loop, Others, Crash, Tick, vars
<1> QED BY <1>1, <1>2, <1>4 DEF Next, Pass

\* Every reachable state of a connection is typed: among the rest, the line
\* buffer never overflows, and the data rate of a connection never passes the
\* allowance by more than one read.
THEOREM FlowTypeCorrect == Spec => []TypeOK
<1>1. Metering /\ TypeOK /\ [Next]_vars => TypeOK'
  <2> SUFFICES ASSUME Metering, TypeOK, [Next]_vars PROVE TypeOK' OBVIOUS
  <2>1. CountsTyped' /\ FlagsTyped' /\ MeterTyped' /\ LineTyped'
    BY CountsTypedStep, FlagsTypedStep, MeterTypedStep, LineTypedStep, FlowTypeParts
  <2> QED BY <2>1 DEF TypeOK, CountsTyped, FlagsTyped, MeterTyped, LineTyped
<1> QED BY <1>1, FlowTypeInit, MeteringInit, MeteringStep, PTL DEF Spec
=============================================================================
