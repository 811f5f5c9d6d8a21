--------------------------- MODULE MCHandleTable ---------------------------
\* A table of three slots with the generations 1 and 2: slots are reused and
\* the generations wrap while handles are open.
EXTENDS HandleTable

CONSTANTS thread, process

ModelObjects == {thread, process}
ModelThreads == {thread}
=============================================================================
