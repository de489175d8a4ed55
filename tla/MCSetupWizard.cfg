CONSTANTS
  p1 = p1
  p2 = p2
  p3 = p3
  w1 = w1
  w2 = w2
  f1 = f1
  f2 = f2
  f3 = f3
  c1 = c1
  c2 = c2
  c3 = c3
  i1 = i1
  i2 = i2
  chatgpt = chatgpt
  openai = openai
  kimi = kimi
  NoOne = NoOne
  Lost = Lost
  Processes = {p1, p2, p3}
  Wizards = {w1, w2}
  Flows = {f1, f2, f3}
  Calls = {c1, c2, c3}
  Instances = {i1, i2}
  Providers = {chatgpt, openai, kimi}
  Chatgpt = chatgpt
  Openai = openai
  Updaters = {w1, w2, f1, f2, f3}
  Actors <- MCActors
  Writers <- MCWriters
  ProcessOf <- MCProcessOf
  InstanceOf <- MCInstanceOf
  Scenarios <- MCScenarios
  MaxAttempts = 2
SPECIFICATION FairSpec
INVARIANTS WizardIsAllOrNothing
PROPERTIES CredentialsAreKept RecordIsSerial EverythingEnds
\* Users stop, and setups end.
CHECK_DEADLOCK FALSE
