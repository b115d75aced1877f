SPECIFICATION ChatSpec
CONSTANTS
  me = me
  thread = thread
  root = root
  m = m
  Absent = Absent
  NoId = NoId
  NoMeta = NoMeta
  NoLimit = NoLimit
  NoReq = NoReq
  None = None
  Blank = Blank
  Proc = {me, other}
  Thread = {thread}
  Ns = {root}
  RootNs = root
  THREAD_ID = thread
  other = other
  Id = {1, 2, 3, 4, 5, 6}
  Ts <- MCTs
  Meta = {m}
  MetaOf <- MCMetaOf
  Task = {}
  Channel = {}
  Value = {}
  SpecialIdx <- MCSpecialIdx
  Ttl = 2
  RefreshOnRead = FALSE
  Faults = FALSE
  Calls <- MCCalls
INVARIANTS
  ChatSucceeds
  TurnsAreWholeOrFresh
PROPERTY
  AbandonedSessionVanishes
CHECK_DEADLOCK FALSE
