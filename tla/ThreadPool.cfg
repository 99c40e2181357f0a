SPECIFICATION FairSpec
CONSTANTS
  Task = {t1, t2, t3}
  Worker = {w1, w2}
  Submitter = {s1, s2}
  NoTask = NoTask
  NoThread = NoThread
INVARIANTS TypeOK DrainedWhenDestroyed EveryTaskHasAWakeup OnlyLateMissTheStop
PROPERTIES ImplementsTaskQueue ImplementsFairTaskQueue DestructorReturnsUnlessLate
CHECK_DEADLOCK FALSE
