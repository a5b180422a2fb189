SPECIFICATION FairMuch
CONSTANTS
  NbJobs = 3
  t1 = t1
  t2 = t2
  t3 = t3
  Tasklets = {t1, t2}
  Closure <- BothClosures
  NoTasklet = NoTasklet
  MaxAdds = 1
  MaxWaitLoop = 1
PROPERTIES
  AgendaStops
CHECK_DEADLOCK FALSE
