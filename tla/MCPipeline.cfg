SPECIFICATION PipelineSpec
CHECK_DEADLOCK FALSE
CONSTANTS
  MaxOre = 2000000
  CostKinds = {"wages"}
  RuleSet <- MCRuleSet
  YearConstants <- MCYearConstants
  Registry <- MCRegistry
  ConditionTruth <- CondEval
  ConditionQuestions <- unanswered_profile_questions
  ConditionFacts <- CondFacts
  ConditionFields <- CondFields
  ConditionResolves <- CondNamesResolve
  ExpressionAmount <- ExprEval
  ExpressionNeeds <- required_facts
  ExpressionResolves <- ExprNamesResolve
  EconomicReference = 100
  Inputs <- MCInputs
  Candidates <- MCCandidates
  Verdicts <- MCVerdicts
  BeyondTheEconomy = 1000000
  SparseAbove = 1
  RequireReviewed = TRUE
  AcceptVerified = TRUE
  NumberAnswers <- MCNumberAnswers
INVARIANTS
  DecidedIsFinal
  IdentifiedIsGrounded
  CountedIsSupported
  NothingFallsThrough
