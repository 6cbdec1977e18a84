SPECIFICATION QSpec
CONSTANTS
  Order = {a, b}
  Unset = Unset
  InitialCap = 3
  MaxCap = 4
  Backlog = 3
INVARIANT ListsIntact
PROPERTY ContractSpec
