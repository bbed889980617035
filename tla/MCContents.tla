---------------------------- MODULE MCContents ----------------------------
(***************************************************************************)
(* StringBuffer and FileIO in one instance for TLC.  The two share no      *)
(* state; a behaviour takes steps of one of them only.                     *)
(***************************************************************************)
EXTENDS StringBuffer, FileIO

ContentsInit == Init /\ FileInit

\* The string is used beside one of the files only, which is all the same to it.
StringStep ==
  /\ FileInit /\ type = "file" /\ nonBlocking /\ size = 0
  /\ Next
  /\ UNCHANGED fileVars

FileStep == Init /\ FileNext /\ UNCHANGED vars

\* The event loop calls the handler of a readable eventfd (FairFileSpec).
ContentsSpec ==
  /\ ContentsInit
  /\ [][StringStep \/ FileStep]_<<vars, fileVars>>
  /\ WF_<<vars, fileVars>>(AsyncRead /\ FileStep)
=============================================================================
