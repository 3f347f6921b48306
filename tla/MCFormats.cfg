\* Strings of up to two characters, whole and cut at every byte; archives of up to four
\* entries, read at any length; texts of up to five pieces, and values wrapped twice.
SPECIFICATION FormatsSpec
CONSTANTS
  Bytes <- MCBytes
  CodePoints <- MCCodePoints
  MaxPieces = 2
  StemOrder <- MCStemOrder
  Entries <- MCEntries
  MaxEntries = 4
  Fragments <- MCFragments
  MaxFragments = 5
  Leaves <- MCLeaves
  Keys <- MCKeys
  MaxDepth = 2
INVARIANTS CharactersKept PairsMatch ConventionImported RoundTrip OneValue
CHECK_DEADLOCK FALSE
