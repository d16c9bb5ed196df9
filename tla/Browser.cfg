\* Pages of two entries, folders two deep; console deletes and card removal at any time
SPECIFICATION Spec
CONSTANTS
  BROWSER_DEPTH_MAX = 2
  FILES_PER_PAGE = 2
  Names <- MCNames
  Type <- MCType
  InitCards <- MCInitCards
  NewNames = {"d", "f"}
  EntryMax = 2
  TextMax = 3
  GUIDE_ROWS = 2
INVARIANT TypeOK
INVARIANT OfferedRight
INVARIANT EraseInTable
INVARIANT SaveDirExists
INVARIANT GuidePageRight
PROPERTY PressHitsDrawn
