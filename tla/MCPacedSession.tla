--------------------------- MODULE MCPacedSession ---------------------------
\* A media-URL session asked to seek twice, with a queue of two blocks.
EXTENDS PacedSession
=============================================================================
