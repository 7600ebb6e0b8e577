\* The three queues, with three threads that push and pop as they like.
SPECIFICATION Spec
CONSTANTS
  Threads = {t1, t2, t3}
  Kinds = {"threadsafer_queue", "BlockingQueue", "version_2"}
  MaxItems = 2
INVARIANTS
  EndsApart
  EveryItemAnnounced
PROPERTIES
  ImplementsFifo
  WaiterServedOneMutex
