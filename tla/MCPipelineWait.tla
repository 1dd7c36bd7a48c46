-------------------------- MODULE MCPipelineWait --------------------------
EXTENDS PipelineWait, TLC

\* Workers are interchangeable; used where only safety is checked.
WorkerSymmetry == Permutations(Workers)
=============================================================================
