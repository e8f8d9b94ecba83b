CONSTANTS
  Intervals = {1}
  Instants = {9}
  Prompts = {p1}
  MaxGen = 2
  MaxClicks = 1
  MaxJobs = 2
  MaxUpsets = 2
SPECIFICATION Spec
INVARIANTS OneJob ReportInv RunPerClick NeverSleepsOnNudge
PROPERTIES CadenceKept Settles
