SPECIFICATION Spec
CONSTANTS
    Switches = {"Frida", "AntiHook", "Emulator", "RootDetect",
                "Signature", "StringEncrypt", "ResEncrypt"}
    RuleTexts = {r1}
    None = None
INVARIANTS
    TypeOK
    ClaimsAreBacked
    FloorIsComplete
    RulesAreKept
PROPERTY
    Monotone
