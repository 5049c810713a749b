SPECIFICATION Spec
CONSTANTS
    v1 = v1
    v2 = v2
    Versions = {v1, v2}
INVARIANTS InstallInv ProgramSurvives
PROPERTIES InstallLeavesProgram UninstallLeavesNothing
SYMMETRY symmetry
CHECK_DEADLOCK FALSE
