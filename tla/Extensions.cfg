SPECIFICATION MCSpec
CONSTANTS
  Plugins = {1, 2, 3, 4}
INVARIANT DependenciesFirst
INVARIANT PlanRight
INVARIANT PluginsTracked
PROPERTY PromotedProven
 
CHECK_DEADLOCK FALSE
