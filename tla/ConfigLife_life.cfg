SPECIFICATION LifeSpec
CONSTANTS
    Frameworks = {"sglang", "vllm-omni", "lightx2v", "fastvideo"}
    KnownViolations = {}
    Catalog <- MCCatalog
    Texts <- MCTexts
    Circumstances <- MCCircumstances
    RunIds = {"r1", "r2"}
    MaxEdits = 1
    MaxRuns = 2
    MaxPublications = 2
INVARIANTS
    PolicyOnBox
    CompileOffEverywhere
    DriftGateIsExact
    SkippedIsClassified
    PageAgrees
CHECK_DEADLOCK FALSE
