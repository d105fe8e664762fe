-------------------------- MODULE MCBatchDownload --------------------------
EXTENDS BatchDownload
=============================================================================
