--------------------------- MODULE MCLlmProvider ----------------------------
EXTENDS LlmProvider
=============================================================================
