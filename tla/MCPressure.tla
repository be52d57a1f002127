----------------------------- MODULE MCPressure -----------------------------
(***************************************************************************)
(* Instances of Pressure for TLC: a sample on either side of each boundary *)
(* observe() compares with.                                                *)
(***************************************************************************)
EXTENDS Pressure

Measured(attempts, failures, unavailable, capacity, backlog) ==
  [attempts |-> attempts, failures |-> failures, unavailable |-> unavailable,
   capacity |-> capacity, backlog |-> backlog]

BoundarySamples ==
  { Measured(1, 0, 0, 70, 299),      \* low and clean
    Measured(0, 0, 0, 0, 0),         \* low, nothing attempted
    Measured(20, 2, 0, 50, 0),       \* low with failures
    Measured(20, 3, 0, 50, 0),       \* neither low nor high
    Measured(20, 9, 299, 89, 899),
    Measured(19, 19, 0, 50, 300),
    Measured(20, 10, 0, 50, 0),      \* a high failure rate
    Measured(0, 0, 0, 90, 0),        \* hard
    Measured(1, 0, 300, 10, 0),
    Measured(1, 0, 0, 70, 900) }
=============================================================================
