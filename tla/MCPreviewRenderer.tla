-------------------------- MODULE MCPreviewRenderer --------------------------
EXTENDS PreviewRenderer, TLC

MCScenarios == {{}, {"init"}, {"torn"}}
=============================================================================
