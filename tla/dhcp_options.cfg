\* Every options field of up to five bytes out of a pad, two lengths, the
\* message type tag and the end tag.
CONSTANTS
  Byte = {0, 1, 2, 53, 255}
  MaxLen = 249
SPECIFICATION FairSpec
INVARIANTS TypeOK NeverCrashes TypeFound
PROPERTY ParseEnds
