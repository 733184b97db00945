------------------------- MODULE DocumentPipelineMC -------------------------
(***************************************************************************)
(* Model-checking instance of DocumentPipeline: three calls over two       *)
(* files, one of them a PDF, and two contents.  TLC also cuts all texts of *)
(* up to six characters.                                                   *)
(***************************************************************************)
EXTENDS DocumentPipeline, DocumentText

ASSUME ChunksKeepPassages == PassagesStayWhole(6)
=============================================================================
