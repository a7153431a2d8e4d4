--------------------------- MODULE MCDirectoryMemory ---------------------------
(* Small instance of DirectoryMemory.                                           *)
EXTENDS DirectoryMemory
================================================================================
