SPECIFICATION Spec
CONSTANTS
  None = None
  Texts <- MCTexts
  Roster <- MCRoster
  Blank = ""
  Low = {1}
  Named = {1, 3}
  Slots = {1, 2}
INVARIANTS
  ShownIsLatest
  SelectionInData
  StoredIsCurrent
PROPERTIES
  LoadingEnds
