SPECIFICATION Spec
CONSTANTS
  None = None
  Ids = {i1, i2}
  Uuids = {u1, u2}
  BadUuids = {bad}
  Configs = {vless, vless2, socks}
  Unmanaged = {socks}
INVARIANT ChangedServed
