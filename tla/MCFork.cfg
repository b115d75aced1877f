SPECIFICATION ForkSpec
CONSTANTS
  me = me
  thread = thread
  root = root
  production = production
  m = m
  Absent = Absent
  NoId = NoId
  NoMeta = NoMeta
  NoLimit = NoLimit
  NoReq = NoReq
  None = None
  Blank = Blank
  Proc = {me}
  Thread = {thread}
  Ns = {root, production}
  RootNs = root
  THREAD_ID = thread
  CHECKPOINT_NS = production
  Id = {1, 2, 3, 4, 5, 6, 7, 8, 9, 10}
  Ts <- MCTs
  Meta = {m}
  MetaOf <- MCMetaOf
  Task = {}
  Channel = {}
  Value = {}
  SpecialIdx <- MCSpecialIdx
  Ttl = 0
  RefreshOnRead = FALSE
  Faults = TRUE
  Calls <- MCCalls
INVARIANTS
  ForkSucceeds
  ForkIsABranch
  ConfigsLeadBack
PROPERTY
  HistoryIsKept
CHECK_DEADLOCK FALSE
