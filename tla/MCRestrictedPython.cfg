\* Ten functions on all small arguments, with suites that pass, fail or mix, under
\* step limits that bite in one call, in none, or would over several.
SPECIFICATION Spec
CONSTANTS
    None = None
    Raises = Raises
    MaxInt = 1000
    MaxLoop = 8
    Submissions <- MCSubmissions
    StepLimits = {20, 60, 10000}
    Meaning <- MCMeaning
INVARIANTS
    PassIsPythons
    FailureIsToBlame
CHECK_DEADLOCK FALSE
