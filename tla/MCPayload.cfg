CONSTANTS
  Segments <- MCSegments
  Digits <- SomeUnread
  Index <- AllRead
  Dict <- MCDict
  List <- MCList
  Documents = {"doc1", "doc2"}
  Attachments = "atts"
  Data = "data"
  Metadata = "meta"
  Requested <- MCRequested
  ByHand <- MCByHand
  Missing = Missing
  None = None
SPECIFICATION Spec
INVARIANTS
  TypeOK
  AcceptedIsShapedIfReadable
  
  FieldsAreWhatPathsName
