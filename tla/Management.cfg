SPECIFICATION FairSpec
CONSTANTS
  Messages <- MessagesOfNetwork
  Files <- ConfigFiles
  MAX_CHANGES = 2
INVARIANT InForce
PROPERTY DisableIsObeyed
PROPERTY EnableIsObeyed
