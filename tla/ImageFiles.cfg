CONSTANTS
  Insts = {i1, i2}
  Images = {base}
  Repos = {repo}
  Lines = {l1, l2}
  Files = {file}
  Args = {args}
  BackoffLimit = 1
  MaxInstr = 1
  MaxDirs = 2
  MaxJobs = 2
  i1 = i1
  i2 = i2
  l1 = l1
  l2 = l2
  base = base
  repo = repo
  file = file
  args = args
  None = None
SPECIFICATION Spec
CHECK_DEADLOCK FALSE
INVARIANTS
  AddedFilesInContext
