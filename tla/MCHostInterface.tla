--------------------------- MODULE MCHostInterface ---------------------------
EXTENDS HostInterface

\* A queued read beside a queued write, and other commands after either.
QueuedAndAlone ==
  {<<0, "readNCQ">>, <<1, "writeNCQ">>, <<1, "readDMA">>, <<1, "setMode">>}

AdminQueue(size, stride, low, high) ==
  [size |-> size, stride |-> stride, base |-> [low |-> low, high |-> high]]

\* Three times, with queues of other sizes at other addresses each time.
MCPrograms ==
  <<[SQ |-> AdminQueue(2, 64, 1, 0), CQ |-> AdminQueue(4, 16, 2, 1)],
    [SQ |-> AdminQueue(3, 64, 1, 1), CQ |-> AdminQueue(3, 16, 3, 1)],
    [SQ |-> AdminQueue(4, 128, 4, 0), CQ |-> AdminQueue(2, 32, 5, 0)]>>
=============================================================================
