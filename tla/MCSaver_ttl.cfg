SPECIFICATION FairSpec
CONSTANTS
  c1 = c1
  c2 = c2
  c3 = c3
  t1 = t1
  t2 = t2
  root = root
  sub = sub
  tA = tA
  tB = tB
  chan = chan
  err = err
  v1 = v1
  v2 = v2
  m1 = m1
  m2 = m2
  Absent = Absent
  NoId = NoId
  NoMeta = NoMeta
  NoLimit = NoLimit
  NoReq = NoReq
  Proc = {c1, c2}
  Thread = {t1}
  Ns = {root}
  Id = {1, 2}
  Ts <- MCTs
  Meta = {m1, m2}
  MetaOf <- MCMetaOf
  Task = {tA, tB}
  Channel = {chan, err}
  Value = {v1, v2}
  SpecialIdx <- MCSpecialIdx
  Ttl = 2
  RefreshOnRead = TRUE
  Faults = FALSE
  Calls <- TtlCalls
INVARIANTS
  LatestNamesStored
  GetNoneMeansGone
  TuplesCarryHeldWrites
  ListIsComplete
  DeleteIsComplete
PROPERTY
  EveryCallReturns
