----------------------- MODULE MCProviderControlStore -----------------------
\* Instances of ProviderControlStore for TLC.
EXTENDS ProviderControlStore, TLC

\* BREAKER_FAILURE_BUDGETS, shortened.
OneBudget == <<1>>

Symmetry == Permutations(Attempts) \cup Permutations(Owners)

=============================================================================
