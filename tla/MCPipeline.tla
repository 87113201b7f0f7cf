---------------------------- MODULE MCPipeline -----------------------------
EXTENDS Pipeline, TLC

Symmetric == Permutations(Workers)

============================================================================
