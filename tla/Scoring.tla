-------------------------------- MODULE Scoring -------------------------------
(***************************************************************************)
(* From a strategy to the engine's command, the risk score and the report   *)
(* (hardening_command.go, hardening_report.go), over the life of one task:  *)
(* the strategy is edited, frozen in the task, turned into a command by the *)
(* worker, and scored twice, for App.RiskLevel and for the report.          *)
(***************************************************************************)
EXTENDS Integers

CONSTANTS
    Switches,   \* bound: the Boolean settings that are edited; the rest stay off
    RuleTexts,  \* what a VMP rule text may say
    None        \* null value

(* The Boolean settings of model.Strategy, but for ResMix, which no code     *)
(* reads.                                                                   *)
AllSwitches == {"Frida", "Xposed", "Emulator", "StringEncrypt", "RootDetect",
                "Signature", "AntiHook", "ResEncrypt", "ScreenshotProtect",
                "FileIntegrityCheck", "ProxyDetect"}

ASSUME ScoringAssumption ==
    /\ Switches \subseteq AllSwitches
    /\ None \notin RuleTexts \cup {"low", "medium", "high", "critical"}

(* "other": any text a strategySnapshot may hold, which nobody validates.   *)
DexLevels   == {"low", "medium", "high", "other"}
SoShells    == {"none", "vmp", "other"}
SigPolicies == {"warn", "block", "other"}

Strategies == [on : SUBSET Switches, dexLevel : DexLevels,
               soShell : SoShells, sigPolicy : SigPolicies]

(* Rule texts, some with white space around them; words None: nothing else. *)
Texts == [words : RuleTexts \cup {None}, padded : BOOLEAN]

Empty == [words |-> None, padded |-> FALSE]

TrimSpace(t) == [words |-> t.words, padded |-> FALSE]

templates == {
    [on |-> AllSwitches, dexLevel |-> "high", soShell |-> "vmp", sigPolicy |-> "block"],
    [on |-> {"Frida", "StringEncrypt", "RootDetect", "Signature", "AntiHook",
             "ScreenshotProtect", "FileIntegrityCheck"},
     dexLevel |-> "medium", soShell |-> "vmp", sigPolicy |-> "warn"],
    [on |-> {"Frida", "Signature"},
     dexLevel |-> "low", soShell |-> "none", sigPolicy |-> "warn"]}

-----------------------------------------------------------------------------
(* The engine's flags and options.                                          *)

flagOf == [Emulator |-> "EmulatorDetect", RootDetect |-> "RootDetect",
           AntiHook |-> "HookDetect", Frida |-> "HookDetect", Xposed |-> "HookDetect",
           Signature |-> "SigVerify", StringEncrypt |-> "StringEncrypt",
           ResEncrypt |-> "AssetsEncrypt", ScreenshotProtect |-> "ScreenshotProtect",
           FileIntegrityCheck |-> "FileIntegrityCheck", ProxyDetect |-> "ProxyDetect"]

ResolveEffectiveFlags(s) ==
    {flagOf[x] : x \in s.on}
        \cup (IF s.dexLevel = "high" \/ s.soShell = "vmp" THEN {"VMPEnabled"} ELSE {})

(* Mutant: the policy goes to the engine as it was saved.                   *)
resolveSigPolicyAsSaved(p) == p

(* Rows saved before SigPolicy existed keep the policy "block".             *)
resolveSigPolicy(p) == IF p = "warn" THEN "warn" ELSE "block"

(* Mutant: the hook option follows the AntiHook switch alone.               *)
BuildDPTCommandAntiHookOnly(s) ==
    LET flags == ResolveEffectiveFlags(s) IN
    [options   |-> IF "AntiHook" \in s.on THEN flags ELSE flags \ {"HookDetect"},
     sigPolicy |-> IF "SigVerify" \in flags THEN resolveSigPolicy(s.sigPolicy) ELSE None]

(* One option per flag that is on, the signature option with its policy.    *)
BuildDPTCommand(s) ==
    LET flags == ResolveEffectiveFlags(s) IN
    [options   |-> flags,
     sigPolicy |-> IF "SigVerify" \in flags THEN resolveSigPolicy(s.sigPolicy) ELSE None]

(* The fallback is returned as it is.                                       *)
NormalizeVMPRules(input, fallback) ==
    IF TrimSpace(input) = Empty THEN fallback ELSE TrimSpace(input)

-----------------------------------------------------------------------------
(* The score.                                                               *)

boolScore(enabled, weight) == IF enabled THEN weight ELSE 0

(* Mutant: the points of low and medium are swapped.                        *)
dexScoreSwapped(level) ==
    [low |-> 12, medium |-> 5, high |-> 20, other |-> 0][level]

dexScore(level) ==
    [low |-> 5, medium |-> 12, high |-> 20, other |-> 0][level]

encryptionScore(flags) ==
    IF {"StringEncrypt", "AssetsEncrypt"} \subseteq flags THEN 15
    ELSE boolScore("StringEncrypt" \in flags \/ "AssetsEncrypt" \in flags, 8)

antiDebugEnvScore(flags) ==
    boolScore("EmulatorDetect" \in flags \/ "RootDetect" \in flags, 15)
hookScore(flags) == boolScore("HookDetect" \in flags, 15)
sigScore(flags)  == boolScore("SigVerify" \in flags, 15)
soScore(flags)   == boolScore("VMPEnabled" \in flags, 20)

reportMinAfterScore == 5

(* Mutant: a floor that also hides strategies with something missing.       *)
afterScoreHighFloor(flags, level) ==
    LET left == 100 - (antiDebugEnvScore(flags) + hookScore(flags) + sigScore(flags)
                        + dexScore(level) + soScore(flags) + encryptionScore(flags))
    IN IF left < 2 * reportMinAfterScore THEN reportMinAfterScore ELSE left

(* computeScoreBreakdown.                                                   *)
afterScore(flags, level) ==
    LET left == 100 - (antiDebugEnvScore(flags) + hookScore(flags) + sigScore(flags)
                        + dexScore(level) + soScore(flags) + encryptionScore(flags))
    IN IF left < reportMinAfterScore THEN reportMinAfterScore ELSE left

riskLevelForScore(score) ==
    IF score < 25 THEN "low"
    ELSE IF score < 50 THEN "medium"
    ELSE IF score < 75 THEN "high"
    ELSE "critical"

(* What the worker stores in App.RiskLevel.                                 *)
ResolveRiskLevel(s) ==
    riskLevelForScore(afterScore(ResolveEffectiveFlags(s), s.dexLevel))

DimensionNames == {"antiDebug", "dex", "so", "resources", "signature"}

(* Percentages, rounded down.                                               *)
dimensions(flags, level) ==
    [antiDebug |-> ((antiDebugEnvScore(flags) + hookScore(flags)) * 100) \div 30,
     dex       |-> (dexScore(level) * 100) \div 20,
     so        |-> (soScore(flags) * 100) \div 20,
     resources |-> (encryptionScore(flags) * 100) \div 15,
     signature |-> (sigScore(flags) * 100) \div 15]

(* The checklist items reported as fixed; "SSL pinning" never is.           *)
checklist(flags, level) ==
    {item \in {"injection", "debugger", "plainDex", "plainStrings", "root", "ssl"} :
        \/ item = "injection"    /\ "HookDetect" \in flags
        \/ item = "debugger"     /\ "EmulatorDetect" \in flags
        \/ item = "plainDex"     /\ level = "high"
        \/ item = "plainStrings" /\ "StringEncrypt" \in flags
        \/ item = "root"         /\ "RootDetect" \in flags}

BuildHardeningReport(s) ==
    LET flags == ResolveEffectiveFlags(s) IN
    [after      |-> afterScore(flags, s.dexLevel),
     riskLevel  |-> riskLevelForScore(afterScore(flags, s.dexLevel)),
     dimensions |-> dimensions(flags, s.dexLevel),
     fixed      |-> checklist(flags, s.dexLevel)]

-----------------------------------------------------------------------------
VARIABLES
    strategy,   \* the draft, then the task's StrategySnapshot
    rules,      \* its vmpRulesText
    phase,      \* "draft": no task yet; else the task's status
    default,    \* DPT_DEFAULT_VMP_RULES of the running server: any text
    hadDefault, \* history: did it hold rules when the task was created?
    command,    \* what the engine was started with
    rulesFile,  \* the text in the work directory's vmp-rules.txt
    risk        \* App.RiskLevel

vars == <<strategy, rules, phase, default, hadDefault, command, rulesFile, risk>>

NoCommand == [options |-> {}, sigPolicy |-> None]
NoFile    == [words |-> None, padded |-> None]

RiskLevels == {"low", "medium", "high", "critical"}
Flags      == {flagOf[x] : x \in AllSwitches} \cup {"VMPEnabled"}

TypeOK ==
    /\ strategy \in Strategies
    /\ rules \in Texts
    /\ phase \in {"draft", "queued", "running", "completed", "failed"}
    /\ default \in Texts
    /\ hadDefault \in BOOLEAN
    /\ command \in [options : SUBSET Flags, sigPolicy : {"warn", "block", None}]
    /\ rulesFile \in Texts \cup {NoFile}
    /\ risk \in RiskLevels \cup {None}

(* A draft starts from a template.                                          *)
Init ==
    /\ strategy \in {[t EXCEPT !.on = @ \cap Switches] : t \in templates}
    /\ rules = Empty
    /\ phase = "draft"
    /\ default \in Texts
    /\ hadDefault = FALSE
    /\ command = NoCommand
    /\ rulesFile = NoFile
    /\ risk = None

(* A client changes one setting of the strategy it will send.               *)
Edit ==
    /\ phase = "draft"
    /\ \/ \E x \in Switches : \/ strategy' = [strategy EXCEPT !.on = @ \cup {x}]
                              \/ strategy' = [strategy EXCEPT !.on = @ \ {x}]
       \/ \E l \in DexLevels   : strategy' = [strategy EXCEPT !.dexLevel = l]
       \/ \E p \in SoShells    : strategy' = [strategy EXCEPT !.soShell = p]
       \/ \E p \in SigPolicies : strategy' = [strategy EXCEPT !.sigPolicy = p]
    /\ UNCHANGED <<rules, phase, default, hadDefault, command, rulesFile, risk>>

EditRules ==
    /\ phase = "draft"
    /\ rules' \in Texts
    /\ UNCHANGED <<strategy, phase, default, hadDefault, command, rulesFile, risk>>

(* Mutant: the fallback is left to the worker.                              *)
CreateAsGiven ==
    /\ phase = "draft"
    /\ phase' = "queued"
    /\ hadDefault' = (TrimSpace(default) # Empty)
    /\ UNCHANGED <<strategy, rules, default, command, rulesFile, risk>>

(* HardeningService.Create freezes the strategy in the task.                *)
Create ==
    /\ phase = "draft"
    /\ phase' = "queued"
    /\ rules' = NormalizeVMPRules(rules, default)
    /\ hadDefault' = (TrimSpace(default) # Empty)
    /\ UNCHANGED <<strategy, default, command, rulesFile, risk>>

(* runTask up to the engine.                                                *)
Run ==
    /\ phase = "queued"
    /\ phase' = "running"
    /\ rulesFile' = NormalizeVMPRules(rules, default)
    /\ command' = BuildDPTCommand(strategy)
    /\ UNCHANGED <<strategy, rules, default, hadDefault, risk>>

(* CompleteTaskForApp stores the level; the work directory is removed.      *)
Complete ==
    /\ phase = "running"
    /\ phase' = "completed"
    /\ risk' = ResolveRiskLevel(strategy)
    /\ rulesFile' = NoFile
    /\ UNCHANGED <<strategy, rules, default, hadDefault, command>>

(* A step fails, before the engine starts or after.                         *)
Fail ==
    /\ phase \in {"queued", "running"}
    /\ phase' = "failed"
    /\ rulesFile' = NoFile
    /\ UNCHANGED <<strategy, rules, default, hadDefault, command, risk>>

(* The server starts again, perhaps with another configuration; recovery    *)
(* fails the task that was running.                                         *)
Restart ==
    /\ default' \in Texts
    /\ phase' = IF phase = "running" THEN "failed" ELSE phase
    /\ UNCHANGED <<strategy, rules, hadDefault, command, rulesFile, risk>>

Next == Edit \/ EditRules \/ Create \/ Run \/ Complete \/ Fail \/ Restart

Spec == Init /\ [][Next]_vars

-----------------------------------------------------------------------------
(* Every claim of a completed task's report is backed by the options the    *)
(* engine really ran with: an item that is "fixed", a dimension at 100%,    *)
(* and the signature policy, which is never left open.                      *)
ClaimsAreBacked ==
    LET report == BuildHardeningReport(strategy)
        ran    == command.options
        full(d) == report.dimensions[d] = 100
    IN phase = "completed" =>
        /\ "injection" \in report.fixed \/ full("antiDebug") => "HookDetect" \in ran
        /\ "debugger" \in report.fixed => "EmulatorDetect" \in ran
        /\ "root" \in report.fixed => "RootDetect" \in ran
        /\ full("antiDebug") => {"EmulatorDetect", "RootDetect"} \cap ran # {}
        /\ "plainDex" \in report.fixed \/ full("dex") \/ full("so") => "VMPEnabled" \in ran
        /\ "plainStrings" \in report.fixed => "StringEncrypt" \in ran
        /\ full("resources") => {"StringEncrypt", "AssetsEncrypt"} \subseteq ran
        /\ full("signature") => "SigVerify" \in ran /\ command.sigPolicy \in {"warn", "block"}

(* The score is at its floor exactly when every dimension is complete: the  *)
(* floor hides nothing that is still missing.                               *)
FloorIsComplete ==
    LET report == BuildHardeningReport(strategy) IN
    /\ report.after \in reportMinAfterScore .. 100
    /\ \A d \in DimensionNames : report.dimensions[d] \in 0 .. 100
    /\ report.after = reportMinAfterScore
          <=> \A d \in DimensionNames : report.dimensions[d] = 100

(* The rules file the engine reads holds the rules the task shows, in the   *)
(* same words, although the default may have changed with a restart while   *)
(* the task was queued: unless the task was created without rules by a      *)
(* server whose default had none.  (Such a task shows none and runs with    *)
(* the default of the day, although the pipeline's design calls what it     *)
(* shows a snapshot of the rules at the time of execution.)                 *)
RulesAreKept ==
    phase = "running" =>
        \/ rules.words # None /\ rulesFile.words = rules.words
        \/ rules.words = None /\ ~hadDefault

dexRank(l)  == [other |-> 0, low |-> 1, medium |-> 2, high |-> 3][l]
riskRank(l) == [low |-> 1, medium |-> 2, high |-> 3, critical |-> 4][l]

AtLeast(s, t) ==   \* s protects in every setting at least as much as t
    /\ t.on \subseteq s.on
    /\ dexRank(t.dexLevel) <= dexRank(s.dexLevel)
    /\ t.soShell = "vmp" => s.soShell = "vmp"

(* An edit that only adds protection never makes anything worse: no engine  *)
(* option is lost, no dimension or checklist item falls back, and neither   *)
(* the score nor the level rises.                                           *)
Monotone ==
    [][AtLeast(strategy', strategy) =>
         LET old == BuildHardeningReport(strategy)
             new == BuildHardeningReport(strategy')
         IN /\ BuildDPTCommand(strategy).options \subseteq BuildDPTCommand(strategy').options
            /\ new.after <= old.after
            /\ riskRank(new.riskLevel) <= riskRank(old.riskLevel)
            /\ \A d \in DimensionNames : old.dimensions[d] <= new.dimensions[d]
            /\ old.fixed \subseteq new.fixed]_strategy
=============================================================================
