SPECIFICATION Spec
CONSTANTS
  Name <- MCName
  Parent = Parent
  Items <- MCItems
  Pattern <- MCPattern
  Matches <- MCMatches
  Pieces <- MCPieces
  Queries <- MCQueries
  Configs <- MCConfigs
  Folders <- MCFolders
  Rank <- MCRank
  Desc <- MCDesc
  MaxChanges = 1
  None = None
INVARIANTS
  TypeOK
  OptionsAsDirected
  PageIsFaithful
  PageIsSorted
  LinksKeepTheView
  DocumentIsWhole
