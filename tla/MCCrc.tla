-------------------------------- MODULE MCCrc --------------------------------
EXTENDS Crc

MCAlgorithms == DOMAIN Doc
MCBytes == {Word(n) : n \in {0, 1, 90, 255}}
\* One bit; a few within a byte; seven in a row across bytes; the ends of seven.
MCDamages == {{0}, {2, 4, 5}, 5 .. 11, {11, 17}, {23}}
=============================================================================
