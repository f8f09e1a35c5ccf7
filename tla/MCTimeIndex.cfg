CONSTANTS
  MaxTime = 7
  MaxX = 1
  Name <- MCNames
  Catalog <- InnerCatalog
SPECIFICATION Spec
INVARIANTS TypeOK TimesDisjoint BrowsesCovered TimesExact OneTimePerBrowse RebuildAgrees
PROPERTY DeleteShrinks
