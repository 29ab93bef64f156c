SPECIFICATION FairSpec
CONSTANTS
  Tasks = {t1}
PROPERTY PutTaskIsTaken
CHECK_DEADLOCK FALSE
