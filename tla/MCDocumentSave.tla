--------------------------- MODULE MCDocumentSave ---------------------------
EXTENDS DocumentSave
=============================================================================
