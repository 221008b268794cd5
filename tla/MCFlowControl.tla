--------------------------- MODULE MCFlowControl ---------------------------
EXTENDS FlowControl

\* The Telnet editor alone, on every input of a few bytes; without one the
\* connection runs.
VARIABLE trial

TrialNext ==
  /\ UNCHANGED trial
  /\ IF trial = <<>> THEN Next ELSE UNCHANGED vars

TrialInit == Init /\ trial \in BoundedSeq(Editor!Byte, 6)

TrialSpec ==
  /\ TrialInit /\ [][TrialNext]_<<vars, trial>>
  /\ WF_vars(Pass) /\ WF_vars(Tick)

\* A handler sees exactly the lines the client typed, backspaces applied, as
\* long as the line buffer suffices; and whatever the bytes, no line is empty
\* or longer than the buffer.
LinesAreTyped == Editor!LinesAreTyped(trial)
============================================================================
