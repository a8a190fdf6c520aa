SPECIFICATION Spec
CONSTANTS
    Users = {u1, u2}
    Then = Then
    MaxUses = 3
    MaxResponses = 2
INVARIANTS AnswerHasMessage NotCalledOnceDestroyed CallbackBeforeDestruction SingleUseIsSafe
PROPERTIES CallsEnd OpenGateAnswers
