CONSTANTS
  Emails = {a, b}
  Requests = {r1, r2}
  MaxAttempts = 2
  MaxLoginFails = 2
  MaxCodes = 3
  Scenes <- MCScenes
SPECIFICATION Spec
SYMMETRY Symmetric
INVARIANTS GuessesBounded MailsBounded AccountsProved SuccessIsReal
CHECK_DEADLOCK FALSE
