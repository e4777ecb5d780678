----------------------------- MODULE MCCaptures -----------------------------
\* A few recordings and utterances of a page that may find a recording from before its
\* reload.
EXTENDS Captures
=============================================================================
