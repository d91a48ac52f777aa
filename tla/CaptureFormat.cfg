SPECIFICATION Spec
CONSTANTS
  Containers <- MCContainers
  Readable <- MCReadable
  crc <- MCCrc
  MaxContainers = 2
  MAX_EMPTY_READS = 2
INVARIANTS
  LiveIsExact
  ReadIsGenuine
  LiveIsReplayed
