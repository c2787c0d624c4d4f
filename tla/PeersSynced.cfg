SPECIFICATION Spec
CONSTANTS
  alice = alice
  bob = bob
  t1 = t1
  t2 = t2
  Peer = {alice, bob}
  Sync = Sync
  Thread = {t1, t2}
  Logins <- MCLogins
  StoreSize <- MCStoreSize
  HEADER = 1
  BUFLEN = 4
  MaxId = 4
  MaxAsks = 2
  Noise = Noise
  EOF = EOF
  NULL = NULL
INVARIANT SyncCopiesDatabase
CHECK_DEADLOCK FALSE
