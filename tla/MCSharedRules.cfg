SPECIFICATION Spec
CONSTANTS
    Request = {r1, r2}
    Texts <- MCTexts
    Space = {" "}
INVARIANT PatternKept
