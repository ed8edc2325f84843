SPECIFICATION Spec
CONSTANTS
  Width <- Width30
  Files <- MCFiles
  Fields <- MCFields
  DataBufSize = 8
INVARIANTS IInv RbspInOrder UnitsInOrder SliceGiven GolombReads
PROPERTIES MoreDataRight 
