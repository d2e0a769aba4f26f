SPECIFICATION FairSpec
CONSTANTS
  e1 = e1  e2 = e2
  Entities = {e1, e2}
  Inputs = {"Enable"}
  Delays <- MCDelays
  FrameTime = 2
  MaxEvents = 3
INVARIANT NeverLate
PROPERTIES ImplementsAgenda EventsAreServed
CHECK_DEADLOCK FALSE
