\* Chats, acts and a sequence of the creator's own beside each other.
SPECIFICATION FairSpec
CONSTANTS
  Talk = {"talk"}
  Texts = {1}
  Waits = {3}
  ActTime = 1
  ChatTime = 2
  SEQ_STAY_AWAKE = 2
  MaxPrograms = 2
INVARIANTS TypeOK NeverForgotten SleepsAlone
PROPERTIES InOrder Served
