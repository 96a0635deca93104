SPECIFICATION FingerprintSpec
CONSTANT
  Text <- MCPayload
  Depth <- MCDepth
  Byte <- MCByte
  Sent <- MCSent
INVARIANT
  EqualIffSame
CHECK_DEADLOCK FALSE
