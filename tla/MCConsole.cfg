SPECIFICATION Spec
CONSTANTS
  SCREEN_WIDTH = 4
  SCREEN_HEIGHT = 7
  Char <- MCChar
  Tasks = {3}
  prefix <- MCPrefix
  test_tasks_num = 2
  TaskTexts <- MCTexts
  Replies <- MCReplies
  Lines <- MCLines
INVARIANTS
  LayoutOK
  EchoOK
PROPERTIES
  ShownOK
  WindowsSpec
