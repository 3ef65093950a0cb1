----------------------------- MODULE ScoringProof -----------------------------
(***************************************************************************)
(* Proofs about Scoring, for every set of switches and of rule texts.       *)
(***************************************************************************)
EXTENDS Scoring, TLAPS

LEMMA FlagsTyped ==
    ASSUME NEW s \in Strategies
    PROVE  ResolveEffectiveFlags(s) \subseteq Flags
BY ScoringAssumption DEF ResolveEffectiveFlags, Flags, Strategies

LEMMA CommandTyped ==
    ASSUME NEW s \in Strategies
    PROVE  BuildDPTCommand(s) \in [options : SUBSET Flags, sigPolicy : {"warn", "block", None}]
BY FlagsTyped DEF BuildDPTCommand, resolveSigPolicy

LEMMA RiskTyped ==
    ASSUME NEW n \in Int
    PROVE  riskLevelForScore(n) \in RiskLevels
BY DEF riskLevelForScore, RiskLevels

(* What the six scores can be.                                              *)
LEMMA ScoresTyped ==
    ASSUME NEW flags, NEW level \in DexLevels
    PROVE  /\ antiDebugEnvScore(flags) \in {0, 15}
           /\ hookScore(flags) \in {0, 15}
           /\ sigScore(flags) \in {0, 15}
           /\ dexScore(level) \in {0, 5, 12, 20}
           /\ soScore(flags) \in {0, 20}
           /\ encryptionScore(flags) \in {0, 8, 15}
BY DEF antiDebugEnvScore, hookScore, sigScore, dexScore, soScore, encryptionScore,
       boolScore, DexLevels

LEMMA AfterTyped ==
    ASSUME NEW flags, NEW level \in DexLevels
    PROVE  afterScore(flags, level) \in 5 .. 100
BY ScoresTyped DEF afterScore, reportMinAfterScore

-----------------------------------------------------------------------------
(* A text is blank exactly when it has no words, and normalizing takes the  *)
(* words of the fallback only for a blank text.                             *)
LEMMA BlankTexts ==
    ASSUME NEW t \in Texts
    PROVE  /\ TrimSpace(t) \in Texts /\ TrimSpace(t).words = t.words
           /\ TrimSpace(t) = Empty <=> t.words = None
BY DEF Texts, TrimSpace, Empty

LEMMA Normalized ==
    ASSUME NEW t \in Texts, NEW u \in Texts
    PROVE  /\ NormalizeVMPRules(t, u) \in Texts
           /\ t.words # None => NormalizeVMPRules(t, u).words = t.words
           /\ t.words = None => NormalizeVMPRules(t, u) = u
<1>1. CASE t.words = None
      BY <1>1, BlankTexts DEF NormalizeVMPRules
<1>2. CASE t.words # None
      BY <1>2, BlankTexts DEF NormalizeVMPRules
<1>3. QED
      BY <1>1, <1>2

(* The inductive invariant: a task has rules unless the default had none    *)
(* when it was created, and what runs is taken from the frozen strategy.    *)
Frozen ==
    /\ phase # "draft" => rules.words # None \/ ~hadDefault
    /\ phase = "running" /\ rules.words # None => rulesFile.words = rules.words
    /\ phase \in {"running", "completed"} => command = BuildDPTCommand(strategy)

ScoringInv == TypeOK /\ Frozen

LEMMA InitTyped == Init => ScoringInv
<1> SUFFICES ASSUME Init PROVE ScoringInv
    OBVIOUS
<1>1. \A t \in templates : [t EXCEPT !.on = @ \cap Switches] \in Strategies
      BY DEF templates, Strategies, DexLevels, SoShells, SigPolicies, AllSwitches
<1>2. strategy \in Strategies
      BY <1>1 DEF Init
<1>3. Empty \in Texts
      BY DEF Empty, Texts
<1>4. QED
      BY <1>2, <1>3 DEF Init, ScoringInv, TypeOK, Frozen, NoCommand

LEMMA EditTyped ==
    ASSUME TypeOK, Edit PROVE strategy' \in Strategies
BY DEF TypeOK, Edit, Strategies

LEMMA StepTyped == ScoringInv /\ [Next]_vars => ScoringInv'
<1> SUFFICES ASSUME ScoringInv, [Next]_vars PROVE ScoringInv'
    OBVIOUS
<1> USE DEF ScoringInv, TypeOK, Frozen
<1>1. CASE Edit
      <2>1. strategy' \in Strategies
            BY <1>1, EditTyped
      <2>2. QED
            BY <1>1, <2>1 DEF Edit
<1>2. CASE EditRules
      BY <1>2 DEF EditRules
<1>3. CASE Create
      <2>1. rules' \in Texts /\ (rules'.words # None \/ ~hadDefault')
            BY <1>3, Normalized, BlankTexts DEF Create
      <2>2. QED
            BY <1>3, <2>1 DEF Create
<1>4. CASE Run
      <2>1. /\ rulesFile' \in Texts
            /\ rules.words # None => rulesFile'.words = rules.words
            BY <1>4, Normalized DEF Run
      <2>2. command' \in [options : SUBSET Flags, sigPolicy : {"warn", "block", None}]
            BY <1>4, CommandTyped DEF Run
      <2>3. QED
            BY <1>4, <2>1, <2>2 DEF Run
<1>5. CASE Complete
      <2>1. ResolveRiskLevel(strategy) \in RiskLevels
            <3>1. afterScore(ResolveEffectiveFlags(strategy), strategy.dexLevel) \in Int
                  BY AfterTyped DEF Strategies
            <3>2. QED
                  BY <3>1, RiskTyped DEF ResolveRiskLevel
      <2>2. QED
            BY <1>5, <2>1 DEF Complete
<1>6. CASE Fail
      BY <1>6 DEF Fail
<1>7. CASE Restart
      BY <1>7 DEF Restart
<1>8. CASE UNCHANGED vars
      BY <1>8 DEF vars
<1>9. QED
      BY <1>1, <1>2, <1>3, <1>4, <1>5, <1>6, <1>7, <1>8 DEF Next

LEMMA ScoringInvariant == Spec => []ScoringInv
BY InitTyped, StepTyped, PTL DEF Spec

(* Every reachable state is well typed; in particular the signature policy  *)
(* the engine gets is "warn" or "block" even for a snapshot nobody checked. *)
THEOREM ScoringTyped == Spec => []TypeOK
<1>1. ScoringInv => TypeOK
      BY DEF ScoringInv
<1>2. QED
      BY <1>1, ScoringInvariant, PTL

(* The engine reads the words the task shows, whatever text the default of  *)
(* the server is, or becomes with a restart: unless the task was created    *)
(* without rules under a default that had none.                             *)
THEOREM RulesAreKeptAlways == Spec => []RulesAreKept
<1>1. ScoringInv => RulesAreKept
      BY DEF ScoringInv, Frozen, RulesAreKept
<1>2. QED
      BY <1>1, ScoringInvariant, PTL

-----------------------------------------------------------------------------
(* A dimension is at 100% only when all its points are there.               *)
LEMMA FullDimensions ==
    ASSUME NEW flags, NEW level \in DexLevels
    PROVE  LET d == dimensions(flags, level) IN
           /\ d.antiDebug = 100 => antiDebugEnvScore(flags) = 15 /\ hookScore(flags) = 15
           /\ d.dex = 100 => dexScore(level) = 20
           /\ d.so = 100 => soScore(flags) = 20
           /\ d.resources = 100 => encryptionScore(flags) = 15
           /\ d.signature = 100 => sigScore(flags) = 15
BY ScoresTyped DEF dimensions

(* Whatever the report of a completed task claims is in the command the     *)
(* engine ran with.                                                         *)
THEOREM ClaimsAreBackedAlways == Spec => []ClaimsAreBacked
<1>1. ASSUME ScoringInv PROVE ClaimsAreBacked
      <2> SUFFICES ASSUME phase = "completed" PROVE ClaimsAreBacked
          BY DEF ClaimsAreBacked
      <2> DEFINE flags == ResolveEffectiveFlags(strategy)
                 level == strategy.dexLevel
                 d     == dimensions(flags, level)
                 fixed == checklist(flags, level)
      <2>1. level \in DexLevels
            BY <1>1 DEF ScoringInv, TypeOK, Strategies
      <2>2. command.options = flags
            BY <1>1 DEF ScoringInv, Frozen, BuildDPTCommand
      <2>3. level = "high" => "VMPEnabled" \in flags
            BY DEF ResolveEffectiveFlags
      <2>4. /\ "injection" \in fixed => "HookDetect" \in flags
            /\ "debugger" \in fixed => "EmulatorDetect" \in flags
            /\ "root" \in fixed => "RootDetect" \in flags
            /\ "plainDex" \in fixed => "VMPEnabled" \in flags
            /\ "plainStrings" \in fixed => "StringEncrypt" \in flags
            BY <2>3 DEF checklist
      <2>5. d.antiDebug = 100 =>
               "HookDetect" \in flags /\ {"EmulatorDetect", "RootDetect"} \cap flags # {}
            BY <2>1, FullDimensions DEF antiDebugEnvScore, hookScore, boolScore
      <2>6. d.dex = 100 \/ d.so = 100 => "VMPEnabled" \in flags
            BY <2>1, <2>3, FullDimensions DEF dexScore, soScore, boolScore, DexLevels
      <2>7. d.resources = 100 => {"StringEncrypt", "AssetsEncrypt"} \subseteq flags
            BY <2>1, FullDimensions DEF encryptionScore, boolScore
      <2>8. d.signature = 100 => "SigVerify" \in flags
            BY <2>1, FullDimensions DEF sigScore, boolScore
      <2>9. "SigVerify" \in flags => command.sigPolicy \in {"warn", "block"}
            BY <1>1 DEF ScoringInv, Frozen, BuildDPTCommand, resolveSigPolicy
      <2>10. QED
            BY <2>2, <2>4, <2>5, <2>6, <2>7, <2>8, <2>9
               DEF ClaimsAreBacked, BuildHardeningReport, dimensions
<1>2. QED
      BY <1>1, ScoringInvariant, PTL

-----------------------------------------------------------------------------
(* Each percentage is within bounds, and full only with all its points.     *)
LEMMA DimensionBounds ==
    ASSUME NEW flags, NEW level \in DexLevels
    PROVE  LET d == dimensions(flags, level) IN
           /\ d.antiDebug \in {0, 50, 100}
           /\ d.dex \in {0, 25, 60, 100}
           /\ d.so \in {0, 100}
           /\ d.resources \in {0, 53, 100}
           /\ d.signature \in {0, 100}
           /\ antiDebugEnvScore(flags) = 15 /\ hookScore(flags) = 15 => d.antiDebug = 100
           /\ dexScore(level) = 20 => d.dex = 100
           /\ soScore(flags) = 20 => d.so = 100
           /\ encryptionScore(flags) = 15 => d.resources = 100
           /\ sigScore(flags) = 15 => d.signature = 100
BY ScoresTyped DEF dimensions

(* The floor of the score is reached exactly by a complete strategy.        *)
THEOREM FloorIsCompleteAlways == Spec => []FloorIsComplete
<1>1. ASSUME TypeOK PROVE FloorIsComplete
      <2> DEFINE flags == ResolveEffectiveFlags(strategy)
                 level == strategy.dexLevel
                 d     == dimensions(flags, level)
      <2>1. level \in DexLevels
            BY <1>1 DEF TypeOK, Strategies
      <2>2. afterScore(flags, level) \in 5 .. 100
            BY <2>1, AfterTyped
      <2>3. \A x \in DimensionNames : d[x] \in 0 .. 100
            BY <2>1, DimensionBounds DEF DimensionNames
      <2>4. afterScore(flags, level) = 5
               <=> /\ antiDebugEnvScore(flags) = 15 /\ hookScore(flags) = 15
                   /\ sigScore(flags) = 15 /\ dexScore(level) = 20
                   /\ soScore(flags) = 20 /\ encryptionScore(flags) = 15
            BY <2>1, ScoresTyped DEF afterScore, reportMinAfterScore
      <2>5. (\A x \in DimensionNames : d[x] = 100)
               <=> /\ d.antiDebug = 100 /\ d.dex = 100 /\ d.so = 100
                   /\ d.resources = 100 /\ d.signature = 100
            BY DEF DimensionNames
      <2>6. afterScore(flags, level) = 5 <=> \A x \in DimensionNames : d[x] = 100
            BY <2>1, <2>4, <2>5, DimensionBounds, FullDimensions
      <2>7. QED
            BY <2>2, <2>3, <2>6 DEF FloorIsComplete, BuildHardeningReport, reportMinAfterScore
<1>2. QED
      BY <1>1, ScoringTyped, PTL

-----------------------------------------------------------------------------
(* More protection in the settings: more flags, more points.                *)
LEMMA MoreFlags ==
    ASSUME NEW s \in Strategies, NEW t \in Strategies, AtLeast(t, s)
    PROVE  /\ ResolveEffectiveFlags(s) \subseteq ResolveEffectiveFlags(t)
           /\ s.dexLevel = "high" => t.dexLevel = "high"
           /\ dexScore(s.dexLevel) <= dexScore(t.dexLevel)
<1>1. s.dexLevel \in DexLevels /\ t.dexLevel \in DexLevels
      BY DEF Strategies
<1>2. dexRank(s.dexLevel) <= dexRank(t.dexLevel)
      BY DEF AtLeast
<1>3. s.dexLevel = "high" => t.dexLevel = "high"
      BY <1>1, <1>2 DEF dexRank, DexLevels
<1>4. dexScore(s.dexLevel) <= dexScore(t.dexLevel)
      BY <1>1, <1>2 DEF dexRank, DexLevels, dexScore
<1>5. QED
      BY <1>3, <1>4 DEF AtLeast, ResolveEffectiveFlags

LEMMA MorePoints ==
    ASSUME NEW F, NEW G, F \subseteq G
    PROVE  /\ antiDebugEnvScore(F) <= antiDebugEnvScore(G)
           /\ hookScore(F) <= hookScore(G)
           /\ sigScore(F) <= sigScore(G)
           /\ soScore(F) <= soScore(G)
           /\ encryptionScore(F) <= encryptionScore(G)
BY DEF antiDebugEnvScore, hookScore, sigScore, soScore, encryptionScore, boolScore

LEMMA LowerRisk ==
    ASSUME NEW m \in Int, NEW n \in Int, m <= n
    PROVE  riskRank(riskLevelForScore(m)) <= riskRank(riskLevelForScore(n))
BY DEF riskRank, riskLevelForScore

LEMMA NeverWorse ==
    ASSUME NEW s \in Strategies, NEW t \in Strategies, AtLeast(t, s)
    PROVE  LET old == BuildHardeningReport(s)
               new == BuildHardeningReport(t)
           IN /\ BuildDPTCommand(s).options \subseteq BuildDPTCommand(t).options
              /\ new.after <= old.after
              /\ riskRank(new.riskLevel) <= riskRank(old.riskLevel)
              /\ \A d \in DimensionNames : old.dimensions[d] <= new.dimensions[d]
              /\ old.fixed \subseteq new.fixed
<1> DEFINE F == ResolveEffectiveFlags(s)
           G == ResolveEffectiveFlags(t)
           k == s.dexLevel
           l == t.dexLevel
<1>1. k \in DexLevels /\ l \in DexLevels
      BY DEF Strategies
<1>2. F \subseteq G /\ (k = "high" => l = "high") /\ dexScore(k) <= dexScore(l)
      BY MoreFlags
<1>3. /\ antiDebugEnvScore(F) <= antiDebugEnvScore(G)
      /\ hookScore(F) <= hookScore(G)
      /\ sigScore(F) <= sigScore(G)
      /\ soScore(F) <= soScore(G)
      /\ encryptionScore(F) <= encryptionScore(G)
      BY <1>2, MorePoints
<1> HIDE DEF F, G, k, l
<1>4. afterScore(G, l) <= afterScore(F, k)
      BY <1>1, <1>2, <1>3, ScoresTyped DEF afterScore, reportMinAfterScore
<1>5. riskRank(riskLevelForScore(afterScore(G, l))) <= riskRank(riskLevelForScore(afterScore(F, k)))
      BY <1>1, <1>4, AfterTyped, LowerRisk
<1>6. \A d \in DimensionNames : dimensions(F, k)[d] <= dimensions(G, l)[d]
      BY <1>1, <1>2, <1>3, ScoresTyped DEF dimensions, DimensionNames
<1>7. checklist(F, k) \subseteq checklist(G, l)
      BY <1>2 DEF checklist
<1>8. QED
      BY <1>2, <1>4, <1>5, <1>6, <1>7
         DEF F, G, k, l, BuildHardeningReport, BuildDPTCommand

(* An edit that only adds protection makes nothing worse, for any strategy. *)
THEOREM MonotoneAlways == Spec => Monotone
<1> DEFINE Better ==
       AtLeast(strategy', strategy) =>
         LET old == BuildHardeningReport(strategy)
             new == BuildHardeningReport(strategy')
         IN /\ BuildDPTCommand(strategy).options \subseteq BuildDPTCommand(strategy').options
            /\ new.after <= old.after
            /\ riskRank(new.riskLevel) <= riskRank(old.riskLevel)
            /\ \A d \in DimensionNames : old.dimensions[d] <= new.dimensions[d]
            /\ old.fixed \subseteq new.fixed
<1>1. TypeOK /\ TypeOK' => Better
      BY NeverWorse DEF TypeOK
<1>2. TypeOK /\ TypeOK' => [Better]_strategy
      BY <1>1
<1>3. QED
      BY <1>2, ScoringTyped, PTL DEF Monotone
=============================================================================
