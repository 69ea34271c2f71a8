\* Three books, two records and a queue of four: an event at the front can
\* hold up two that are complete behind it.
CONSTANTS
  Books = {b1, b2, b3}
  Records = {r1, r2}
  MaxBuffered = 4
SPECIFICATION Spec
INVARIANTS TypeOk PendingExact FrontIsOpen DrainedWhenClosed
PROPERTIES FifoDelivery OpenStaysQueued ClosedEventsDeliver
