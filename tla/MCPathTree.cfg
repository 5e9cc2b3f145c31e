SPECIFICATION Spec
CONSTANTS
  Names = {1, 2}
  Depth = 2
  Files = {Zero, Listing}
  Zero = Zero
  Listing = Listing
  Dir = Dir
  Free = Free
  MaxNode = 6
  None = None
  Content <- MCContent
  Chars <- MCChars
  NameText <- MCNameText
INVARIANTS TreeShape DigestsIdentify
PROPERTIES ImplementsPathMap
VIEW View
