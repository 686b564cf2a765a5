----------------------------- MODULE MCPipeline -----------------------------
EXTENDS Pipeline
=============================================================================
