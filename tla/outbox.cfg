\* One event with two consumers, one served by two runs of the worker and one by
\* the dispatcher.  The backlog may be worked off: the system then rests.
SPECIFICATION Spec
CONSTANTS
  Publication <- MCPublication
  Event <- MCEvent
  EventOf <- MCEventOf
  Worker = {w1, w2}
  Dispatcher = {d1}
  Nobody = Nobody
  WorkerPub <- MCWorkerPub
  DispatcherPub <- MCDispatcherPub
  MaxAttempts = 2
  Crashes = TRUE
INVARIANT TypeOK DeliveredOnce OneRunPerPublication PublishedIsServed
PROPERTY RetriesEnd
CHECK_DEADLOCK FALSE
