------------------------ MODULE MCDictationPipeline ------------------------
(* A few utterances, a repeat and a recipe over two applications.          *)
EXTENDS DictationPipeline
=============================================================================
