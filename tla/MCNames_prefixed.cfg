SPECIFICATION Spec
CONSTANTS
  k1 = k1
  k2 = k2
  Words <- MCWords
  Identities <- MCIdentities
  Keys = {k1, k2}
  MaxVersion = 1
  Numeral <- MCNumeral
  Absent = Absent
PROPERTIES
  EntriesApart
