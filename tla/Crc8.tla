-------------------------------- MODULE Crc8 --------------------------------
(***************************************************************************)
(* The checksum of the packets: polynomial x^8 + x^2 + x + 1, initial      *)
(* value 0.                                                                *)
(***************************************************************************)
EXTENDS Integers, Bitwise, SequencesExt

CRC8_SMBUS_POLYNOMIAL == 7

ShiftOut(c, k) ==
    IF c >= 128 THEN ((2 * c) % 256) ^^ CRC8_SMBUS_POLYNOMIAL ELSE 2 * c

Shifted == [c \in 0 .. 255 |-> FoldLeft(ShiftOut, c, [k \in 1 .. 8 |-> k])]

SmbusByte(c, byte) == Shifted[c ^^ byte]

=============================================================================
