SPECIFICATION Spec
CONSTANTS
  Codes = {c1}
  Requests = {r1, r2, r3}
  d = d
  t = t
  Digits = {d}
  Texts = {d, t}
  TxInput <- TwoInputs
  InputModes = {"numeric"}
  NoTxCode = NoTxCode
  NoText = NoText
  Backends = {"dynamodb"}
  MaxTxCodeAttempts = 2
  TtlSec = 1
  Second = 2
  MaxNow = 3
SYMMETRY RequestSymmetry
INVARIANTS TypeOK RedeemedOnce AttemptsBounded NoCodeLostWithoutCause
PROPERTY RefinesRedemption
CHECK_DEADLOCK FALSE
