CONSTANTS
    Wallets = {a, b}
    Requests = {r1, r2}
    MaxLogins = 3
SPECIFICATION Spec
INVARIANTS
    LogoutSurvivesRestart
PROPERTIES
    LateAnswersChangeNothing
