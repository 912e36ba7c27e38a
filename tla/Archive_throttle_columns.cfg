SPECIFICATION Spec2
CONSTANTS
  l = l
  m = m
  Lines = {l, m}
  FirstFiles <- AnyFile
  Asked <- SomeSpecs
  Day = 2
  Retention <- Retained
  MaxNow = 3
  MaxInserts = 2
  OldBuilds = TRUE
  None = None
INVARIANTS ExportReadsBack
CHECK_DEADLOCK FALSE
