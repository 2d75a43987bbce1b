---------------------------- MODULE MCPromptQueue ----------------------------
\* Two prompts, two runs, and one press of Stop or of Compact.
EXTENDS PromptQueue

MCPrompts == 1..2
MCRuns == 1..2
==============================================================================
