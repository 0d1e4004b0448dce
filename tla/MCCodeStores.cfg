SPECIFICATION EitherSpec
CONSTANTS
  Codes = {c1}
  Requests = {r1, r2}
  d = d
  t = t
  Digits = {d}
  Texts = {d, t}
  TxInput <- ThreeInputs
  InputModes = {"numeric", "text"}
  NoTxCode = NoTxCode
  NoText = NoText
  Backends = {"memory", "firestore"}
  MaxTxCodeAttempts = 2
  TtlSec = 1
  Second = 2
  MaxNow = 3
SYMMETRY RequestSymmetry
INVARIANTS RedeemedOnce RedemptionLegitimate NoCodeLostWithoutCause LiveCodeHasAttemptsLeft
PROPERTY RefinesRedemption
CHECK_DEADLOCK FALSE
