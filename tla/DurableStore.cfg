\* Two transactional keys and one that callers only write with a TTL.
SPECIFICATION Spec
CONSTANTS
  Keys = {nonce, user, mail}
  TtlKeys = {nonce}
  TxnKeys = {user, mail}
  Clients = {c1, c2}
  MaxVersions = 3
  MaxTtl = 1
  IdleAlarm = 2
SYMMETRY Symmetry
INVARIANT StoreInv
PROPERTIES OnlyExpiredVanish Serializable
