------------------------------ MODULE MCParts -------------------------------
(* Five small parts, each for itself: a behaviour is one of the renderer,   *)
(* or of the timer list, the message box, the cutting of a camera's stream  *)
(* or the detections, with the others left as they begin.                   *)
EXTENDS EglRenderer, Detection, MsgBox, TimerList, RtspStream

VARIABLE part

MCTimers == {<<"clear", 0>>, <<"clear", 1>>, <<"print", 0>>}

MCPieces ==
  { <<36, 0, 0, 3, 128, 96, 1>>, <<36, 1, 0, 2, 128, 72>>,
    <<36, 0, 0, 5, 128, 96, 36, 0, 0>>,
    <<82, 84, 83, 80, 13>>, <<82, 84, 83, 80, 1002, 13, 7, 7>> }

\* The third packet carries what looks like the head of another, and so does a noise.
MCNoises == {<<9, 9, 9, 9, 9>>, <<9, 36, 0, 0, 3>>}

\* What a thread may find, and which boxes overlap.
MCFinds ==
  { [class |-> 1, conf |-> 2, box |-> "a"], [class |-> 1, conf |-> 1, box |-> "b"],
    [class |-> 1, conf |-> 2, box |-> "b"], [class |-> 1, conf |-> 1, box |-> "c"],
    [class |-> 2, conf |-> 2, box |-> "a"], [class |-> 2, conf |-> 0, box |-> "c"] }

MCOverlap ==
  { <<"a", "a">>, <<"b", "b">>, <<"c", "c">>, <<"a", "b">>, <<"b", "a">>, <<"b", "c">>, <<"c", "b">> }

MCInit ==
  /\ part \in {"renderer", "timers", "messages", "stream", "boxes"}
  /\ Init /\ TimerInit /\ MsgInit /\ StreamInit /\ DetectionInit

MCNext ==
  /\ UNCHANGED part
  /\ \/ part = "renderer" /\ Next /\ UNCHANGED <<timerVars, msgVars, streamVars, detectionVars>>
     \/ part = "timers" /\ TimerNext /\ UNCHANGED <<vars, msgVars, streamVars, detectionVars>>
     \/ part = "messages" /\ MsgNext /\ UNCHANGED <<vars, timerVars, streamVars, detectionVars>>
     \/ part = "stream" /\ StreamNext /\ UNCHANGED <<vars, timerVars, msgVars, detectionVars>>
     \/ part = "boxes" /\ DetectionNext /\ UNCHANGED <<vars, timerVars, msgVars, streamVars>>

\* The fairness is the renderer's, and asks for nothing before a window is made.
MCSpec ==
  /\ MCInit /\ [][MCNext]_<<part, vars, timerVars, msgVars, streamVars, detectionVars>>
  /\ Fairness
=============================================================================
