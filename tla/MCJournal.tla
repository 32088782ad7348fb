----------------------------- MODULE MCJournal -----------------------------
EXTENDS Journal
=============================================================================
