\* Any two of a command and a kill() in TypeScript and a read in Python, under
\* every failure.
SPECIFICATION ServedSpec
CONSTANTS
  get = get
  post = post
  kill = kill
  Method <- Verbs
  MaxAttempts = 3
  Calls = {post, kill, get}
  InLoop = {get}
  Abortable = {kill}
  MaxCalls = 2
CHECK_DEADLOCK FALSE
INVARIANTS
  PostOnce
  KillReportsGone
  RetriesExhausted
PROPERTIES
  NothingSentAfterAbort
  CallSettles
