SPECIFICATION Spec
CONSTANTS
    Indices = {0, 1}
    Payloads <- SmallPayloads
    CrcByte <- SmbusByte
    MaxDamage = 1
INVARIANTS RoundTrip DelimiterEndsPacket OneWrongByteIsCaught
CHECK_DEADLOCK FALSE
