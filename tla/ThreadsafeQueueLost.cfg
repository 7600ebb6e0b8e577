\* The queue with two mutexes, a producer and a consumer.
SPECIFICATION Spec
CONSTANTS
  Threads = {t1, t2}
  Kinds = {"version_2"}
  MaxItems = 2
PROPERTY
  WaiterServed
