--------------------------- MODULE MCReaderWriter ---------------------------
(***************************************************************************)
(* Small instances of ReaderWriter for TLC.                                *)
(***************************************************************************)
EXTENDS ReaderWriter

MCInitArgs == {numConds}
MCCondArgs == {OKtoRead, OKtoWrite}

=============================================================================
