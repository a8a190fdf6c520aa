SPECIFICATION Spec
CONSTANTS
    Users = {u1}
    Then = Then
    MaxUses = 2
    MaxResponses = 1
INVARIANT SecondThenThrows
