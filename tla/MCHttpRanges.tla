---------------------------- MODULE MCHttpRanges ----------------------------
(* Numbers up to 3 against files of 0..3 bytes reach every branch: empty  *)
(* files, positions past the end, suffixes longer than the file; two      *)
(* items exercise the list, three parts the "--" check.                   *)
EXTENDS HttpRanges

MCMaxPos   == 3
MCMaxSize  == 3
MCMaxItems == 2
MCMaxParts == 3
=============================================================================
