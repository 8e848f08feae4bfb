SPECIFICATION Spec
CONSTANTS
  Messages <- MessagesOfNetwork
  Files <- ConfigFiles
  MAX_CHANGES = 2
PROPERTY EveryTLVCounts
