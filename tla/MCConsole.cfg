CONSTANTS
  INPUT_BUF = 3
  U = 6
  Letters = {"a"}
  NL = "NL"
  EOT = "EOT"
  Init1 = "init"
  Users = {"sh", "cat"}
  OnCpu1 = {"cat"}
  SIZE = 3
  USERNAME <- AnswerVal
  PASSWORD <- AnswerVal
  MAX_ATTEMPTS = 2
  Sizes = {2}
  Killable = {"cat"}
SPECIFICATION Spec
INVARIANTS InterruptsSound  
PROPERTY ImplementsTerminal
