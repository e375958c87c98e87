SPECIFICATION Spec
CONSTANTS
  Names <- MCNames
  Modules <- MCModules
  Items <- MCItems
  Top <- MCTop
  Ending <- MCEnding
  Starting <- MCStarting
  Files <- MCFiles
  Programs <- MCPrograms
INVARIANTS
  LintInv
  JsonLintComplete
  IsolationHolds
  VerdictsTravel
  NamesIsolated
