----------------------------- MODULE MCRequests -----------------------------
(***************************************************************************)
(* Requests for model checking: one request of each kind that the code     *)
(* treats differently, of all lengths between a header and the buffer.     *)
(***************************************************************************)
EXTENDS Requests

Kind(call, expected, needs, length) ==
  [call |-> call, expected |-> expected, needs |-> needs, length |-> length,
   mine |-> TRUE, valid |-> TRUE, sized |-> TRUE, tells |-> FALSE]

MCRequest ==
  { [Kind("function", TRUE, {"session"}, BufferSize) EXCEPT !.tells = TRUE],
    Kind("procedure", TRUE, {}, HeaderSize),
    Kind("async", FALSE, {"object"}, HeaderSize + 1),
    Kind("unknown", TRUE, {}, HeaderSize),
    [Kind("function", FALSE, {}, HeaderSize) EXCEPT !.sized = FALSE],
    [Kind("function", TRUE, {}, HeaderSize) EXCEPT !.mine = FALSE],
    [Kind("function", TRUE, {}, BufferSize + 1) EXCEPT !.valid = FALSE] }
=============================================================================
