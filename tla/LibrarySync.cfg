SPECIFICATION Spec
CONSTANTS
  Worker = {w1, w2}
  None = None
  Listing <- MCListing
  NewDoc = {"d3"}
  FilesOf <- MCFilesOf
  PageSize = 1
  MaxRefresh = 2
  MaxEdit = 1
  MaxTrouble = 1
INVARIANTS TypeOK NoDuplicates RecordCurrent FilesWhole LibraryArrives
PROPERTIES ListedAll IdsFit
