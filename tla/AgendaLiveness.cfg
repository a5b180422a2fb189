SPECIFICATION FairMuch
CONSTANTS
  NbJobs = 3
  t1 = t1
  t2 = t2
  t3 = t3
  Tasklets = {t1}
  Closure <- OneClosure
  NoTasklet = NoTasklet
  MaxAdds = 2
  MaxWaitLoop = 1
PROPERTIES
  ServedUnlessOvertaken
  StopQuiesces
CHECK_DEADLOCK FALSE
