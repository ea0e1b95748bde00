SPECIFICATION MCSpec
CONSTANTS
  Tokens = {t1, t2}
  None = None
  Sources = {"config", "env", "custom"}
  Keys = {k1, k2, k3}
  MaxFaults = 2
  Instances = {i1, i2}
  MaxEdits = 3
  MaxSignals = 2
INVARIANTS
  IdentityKept
  OneGeneration
PROPERTIES
  SecretForgotten
  SessionAgain
  NeverOlder
  ChangeReaches
